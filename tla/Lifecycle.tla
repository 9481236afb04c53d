------------------------------ MODULE Lifecycle ------------------------------
(***************************************************************************)
(* Start and shutdown of serverd: Core starts its threads through          *)
(* ThreadManager, those start more (the workers of a server, the shards),  *)
(* and stopAll tells each to stop and joins it.  Each thread is reduced to *)
(* how it starts, loops, sleeps and sees m_running; RxWorker and           *)
(* ShardWorker have what it does meanwhile.                                *)
(***************************************************************************)
EXTENDS Integers, Sequences

CONSTANTS Servers,    \* IpcServer, TlsServer, UdpServer, TcpServer
          Workers,    \* their workers
          Shards,     \* ShardWorkers
          ShardManager, SessionManager, Client,
          Main,       \* the main thread
          None,       \* no thread
          Adds        \* [adding thread -> sequence of the threads it adds]

Threads == Servers \cup Workers \cup Shards \cup {ShardManager, SessionManager, Client}
Adders == Servers \cup {ShardManager, Main}

\* Main's last one is the client, after the sleep; the client adds none, the
\* main thread is not one of ThreadManager's, and a worker is its server's.
ASSUME LifecycleAssumption ==
  /\ None \notin Threads /\ Client \notin Adders /\ Main \notin Threads
  /\ DOMAIN Adds = Adders /\ \A a \in Adders : Adds[a] \in Seq(Threads)
  /\ Adds[Main] # << >> /\ Adds[Main][Len(Adds[Main])] = Client
  /\ Servers \cap Workers = {}
  /\ (Shards \cup {ShardManager, SessionManager, Client}) \cap (Servers \cup Workers) = {}
  /\ \A a \in Adders : \A i \in 1..Len(Adds[a]) : Adds[a][i] \in Workers => a \in Servers

VARIABLES tpc,       \* [thread -> none, start, adding, loop, wait, done; the
                     \* client also login, lobby]
          m_running, \* [thread -> BOOLEAN]
          m_eventFd, \* [thread -> its eventfd, or the client's sockets: closed,
                     \* open, set]
          added,     \* [adder -> how many it has created]
          pending,   \* [adder -> created and not yet in m_threads, or None]
          m_threads, \* of ThreadManager
          mpc,       \* main: add, sleep, addClient, stopAll, stop, wake, join, done
          stops,     \* threads whose stop function stopAll has still to call
          targets,   \* what the stop function being called has still to stop
          joins,     \* threads that stopAll has still to join
          stopped,   \* history: threads told to stop
          overwritten \* history: some thread set m_running after its stop()

threadVars == <<tpc, m_running, m_eventFd, overwritten>>
addVars == <<added, pending, m_threads>>
mainVars == <<mpc, stops, targets, joins, stopped>>
lifeVars == <<threadVars, addVars, mainVars>>

LifeInit ==
  /\ tpc = [t \in Threads |-> "none"] /\ m_running = [t \in Threads |-> FALSE]
  /\ m_eventFd = [t \in Threads |-> "closed"] /\ overwritten = FALSE
  /\ added = [a \in Adders |-> 0] /\ pending = [a \in Adders |-> None]
  /\ m_threads = << >> /\ mpc = "add"
  /\ stops = << >> /\ targets = << >> /\ joins = << >> /\ stopped = {}

(***************************************************************************)
(* ThreadManager::addThread: the thread is created, then registered.       *)
(***************************************************************************)
NextThread(a) == Adds[a][added[a] + 1]

Adding(a) ==
  /\ pending[a] = None /\ added[a] < Len(Adds[a])
  /\ IF a = Main THEN mpc = (IF NextThread(a) = Client THEN "addClient" ELSE "add")
                 ELSE tpc[a] = "adding"

\* A worker's start() opens its epoll and sets m_running first.
CreateThread(a) ==
  LET t == NextThread(a) w == t \in Workers IN
  /\ Adding(a)
  /\ tpc' = [tpc EXCEPT ![t] = IF w THEN "loop" ELSE "start"]
  /\ m_running' = [m_running EXCEPT ![t] = w]
  /\ m_eventFd' = [m_eventFd EXCEPT ![t] = IF w THEN "open" ELSE @]
  /\ overwritten' = (overwritten \/ (w /\ t \in stopped))
  /\ added' = [added EXCEPT ![a] = @ + 1] /\ pending' = [pending EXCEPT ![a] = t]
  /\ UNCHANGED <<m_threads, mainVars>>

\* A worker whose epoll cannot be opened is not created.
WorkerFails(a) ==
  /\ Adding(a) /\ NextThread(a) \in Workers
  /\ tpc' = [tpc EXCEPT ![NextThread(a)] = "done"]
  /\ added' = [added EXCEPT ![a] = @ + 1]
  /\ UNCHANGED <<m_running, m_eventFd, overwritten, pending, m_threads, mainVars>>

Register(a) ==
  /\ pending[a] # None
  /\ m_threads' = Append(m_threads, pending[a])
  /\ pending' = [pending EXCEPT ![a] = None]
  /\ UNCHANGED <<added, threadVars, mainVars>>

HasAdded(a) == added[a] = Len(Adds[a]) /\ pending[a] = None

(***************************************************************************)
(* The threads                                                             *)
(***************************************************************************)
MoveTo(t, l) == tpc' = [tpc EXCEPT ![t] = l]

SetRunning(t) ==
  /\ m_running' = [m_running EXCEPT ![t] = TRUE]
  /\ overwritten' = (overwritten \/ t \in stopped)

\* A server adds its workers first.
ServerStart(t) ==
  /\ t \in Servers /\ tpc[t] = "start"
  /\ MoveTo(t, "adding")
  /\ UNCHANGED <<m_running, m_eventFd, overwritten, addVars, mainVars>>

ReactorStart(t) ==
  /\ t \in Servers /\ tpc[t] = "adding" /\ HasAdded(t)
  /\ SetRunning(t) /\ MoveTo(t, "loop")
  /\ m_eventFd' = [m_eventFd EXCEPT ![t] = "open"]
  /\ UNCHANGED <<addVars, mainVars>>

\* A socket or the epoll cannot be opened: start() returns, the workers stay.
ReactorFails(t) ==
  /\ t \in Servers /\ tpc[t] = "adding" /\ HasAdded(t)
  /\ MoveTo(t, "done")
  /\ UNCHANGED <<m_running, m_eventFd, overwritten, addVars, mainVars>>

\* m_running is set before the shards are added.
ShardManagerStart ==
  /\ tpc[ShardManager] = "start"
  /\ SetRunning(ShardManager) /\ MoveTo(ShardManager, "adding")
  /\ UNCHANGED <<m_eventFd, addVars, mainVars>>

ShardManagerWaits ==
  /\ tpc[ShardManager] = "adding" /\ HasAdded(ShardManager)
  /\ MoveTo(ShardManager, "loop")
  /\ UNCHANGED <<m_running, m_eventFd, overwritten, addVars, mainVars>>

\* ShardWorker::processPacket
ShardStart(t) ==
  /\ t \in Shards /\ tpc[t] = "start"
  /\ SetRunning(t) /\ MoveTo(t, "loop")
  /\ UNCHANGED <<m_eventFd, addVars, mainVars>>

SessionManagerStart ==
  /\ tpc[SessionManager] = "start"
  /\ SetRunning(SessionManager) /\ MoveTo(SessionManager, "loop")
  /\ UNCHANGED <<m_eventFd, addVars, mainVars>>

\* TlsClient::connect, TcpClient::connect and UdpClient::open
ClientConnect ==
  /\ tpc[Client] = "start"
  /\ MoveTo(Client, "login")
  /\ m_eventFd' = [m_eventFd EXCEPT ![Client] = "open"]
  /\ UNCHANGED <<m_running, overwritten, addVars, mainVars>>

ClientFails ==
  /\ tpc[Client] = "start"
  /\ MoveTo(Client, "done")
  /\ UNCHANGED <<m_running, m_eventFd, overwritten, addVars, mainVars>>

\* loginPhase returns, with or without a session, and m_running is set.
LoginEnds ==
  /\ tpc[Client] = "login"
  /\ SetRunning(Client) /\ MoveTo(Client, "loop")
  /\ UNCHANGED <<m_eventFd, addVars, mainVars>>

\* A send or recv on a closed socket fails.
LoginFails == m_eventFd[Client] = "closed" /\ LoginEnds

Polls(t) == t \in Servers \cup Workers

\* while (m_running); a reactor closes its epoll when it leaves.
CheckRunning(t) ==
  /\ Polls(t) /\ tpc[t] = "loop"
  /\ MoveTo(t, IF m_running[t] THEN "wait" ELSE "done")
  /\ m_eventFd' = [m_eventFd EXCEPT ![t] = IF t \in Servers /\ ~m_running[t] THEN "closed" ELSE @]
  /\ UNCHANGED <<m_running, overwritten, addVars, mainVars>>

\* epoll_wait reports the eventfd, which is drained.
Woken(t) ==
  /\ Polls(t) /\ tpc[t] = "wait" /\ m_eventFd[t] = "set"
  /\ m_eventFd' = [m_eventFd EXCEPT ![t] = "open"]
  /\ MoveTo(t, "loop")
  /\ UNCHANGED <<m_running, overwritten, addVars, mainVars>>

\* epoll_wait returns for traffic.
WokenByTraffic(t) ==
  /\ Polls(t) /\ tpc[t] = "wait"
  /\ MoveTo(t, "loop")
  /\ UNCHANGED <<m_running, m_eventFd, overwritten, addVars, mainVars>>

\* The others look at m_running again after a sleep.
SleepEnds(t) ==
  /\ ~Polls(t) /\ tpc[t] = "loop" /\ ~m_running[t]
  /\ MoveTo(t, "done")
  /\ UNCHANGED <<m_running, m_eventFd, overwritten, addVars, mainVars>>

SleepsAgain(t) ==
  ~Polls(t) /\ t # Client /\ tpc[t] = "loop" /\ m_running[t] /\ UNCHANGED lifeVars

\* pingPhase returns after a second at the latest; lobbyPhase has begun.
ClientPing ==
  /\ tpc[Client] = "loop" /\ m_running[Client]
  /\ MoveTo(Client, "lobby")
  /\ UNCHANGED <<m_running, m_eventFd, overwritten, addVars, mainVars>>

\* lobbyPhase gets its answer.  At the end of the stream recv returns 0, as it
\* does when there is nothing to read, and lobbyPhase tries again for ever.
LobbyEnds ==
  /\ tpc[Client] = "lobby"
  /\ MoveTo(Client, "loop")
  /\ UNCHANGED <<m_running, m_eventFd, overwritten, addVars, mainVars>>

LobbyFails == m_eventFd[Client] = "closed" /\ LobbyEnds

(***************************************************************************)
(* Core::run, Core::shutdown and ThreadManager::stopAll, on the main thread *)
(***************************************************************************)
\* The runtime or the TLS context cannot be initialised.
RunReturns ==
  /\ mpc = "add" /\ added[Main] = 0
  /\ mpc' = "stopAll"
  /\ UNCHANGED <<threadVars, addVars, stops, targets, joins, stopped>>

\* startThreads comes to its sleep before the client is added.
StartSleep ==
  /\ mpc = "add" /\ pending[Main] = None /\ NextThread(Main) = Client
  /\ mpc' = "sleep"
  /\ UNCHANGED <<threadVars, addVars, stops, targets, joins, stopped>>

\* What is started by then; three seconds are taken to be enough.
Started(t) == t = Client \/ tpc[t] \notin {"none", "start", "adding"}

StartSleepEnds ==
  /\ mpc = "sleep" /\ \A t \in Threads : Started(t)
  /\ \A a \in Adders : pending[a] = None
  /\ mpc' = "addClient"
  /\ UNCHANGED <<threadVars, addVars, stops, targets, joins, stopped>>

\* A signal has cleared Core::m_running, at any time before this.
WaitForShutdown ==
  /\ mpc = "addClient" /\ HasAdded(Main)
  /\ mpc' = "stopAll"
  /\ UNCHANGED <<threadVars, addVars, stops, targets, joins, stopped>>

\* The server stops its reactor only.
StopFuncReactorOnly(t) == IF t \in Workers THEN << >> ELSE <<t>>

\* What the stop function of a thread stops: a server's also its workers,
\* which have none of their own.
StopFunc(t) ==
  IF t \in Workers THEN << >> ELSE IF t \in Servers THEN <<t>> \o Adds[t] ELSE <<t>>

TakeSnapshot ==
  /\ mpc = "stopAll"
  /\ stops' = m_threads /\ joins' = m_threads /\ m_threads' = << >>
  /\ mpc' = "stop"
  /\ UNCHANGED <<threadVars, added, pending, targets, stopped>>

CallStopFunc ==
  /\ mpc = "stop" /\ targets = << >> /\ stops # << >>
  /\ targets' = StopFunc(Head(stops)) /\ stops' = Tail(stops)
  /\ UNCHANGED <<threadVars, addVars, mpc, joins, stopped>>

StopFlag ==
  /\ mpc = "stop" /\ targets # << >>
  /\ m_running' = [m_running EXCEPT ![Head(targets)] = FALSE]
  /\ stopped' = stopped \cup {Head(targets)}
  /\ mpc' = "wake"
  /\ UNCHANGED <<tpc, m_eventFd, overwritten, addVars, stops, targets, joins>>

\* Client::stop closes its sockets, in whatever call the client is; a wakeup
\* of an eventfd that is not open is lost.
WakeOrClose(t) == IF t = Client \/ m_eventFd[t] = "closed" THEN "closed" ELSE "set"

StopWakeup ==
  /\ mpc = "wake"
  /\ m_eventFd' = [m_eventFd EXCEPT ![Head(targets)] = WakeOrClose(Head(targets))]
  /\ targets' = Tail(targets)
  /\ mpc' = "stop"
  /\ UNCHANGED <<tpc, m_running, overwritten, addVars, stops, joins, stopped>>

StopsDone ==
  /\ mpc = "stop" /\ targets = << >> /\ stops = << >>
  /\ mpc' = "join"
  /\ UNCHANGED <<threadVars, addVars, stops, targets, joins, stopped>>

\* Takes a thread that was told to stop for one that has ended.
JoinFlagged ==
  /\ mpc = "join" /\ joins # << >> /\ ~m_running[Head(joins)]
  /\ joins' = Tail(joins)
  /\ UNCHANGED <<threadVars, addVars, mpc, stops, targets, stopped>>

Join ==
  /\ mpc = "join" /\ joins # << >> /\ tpc[Head(joins)] = "done"
  /\ joins' = Tail(joins)
  /\ UNCHANGED <<threadVars, addVars, mpc, stops, targets, stopped>>

AllJoined ==
  /\ mpc = "join" /\ joins = << >>
  /\ mpc' = "done"
  /\ UNCHANGED <<threadVars, addVars, stops, targets, joins, stopped>>

Terminated == mpc = "done" /\ UNCHANGED lifeVars

ThreadStep(t) ==
  \/ ServerStart(t) \/ ReactorStart(t) \/ ReactorFails(t) \/ ShardStart(t)
  \/ CheckRunning(t) \/ Woken(t) \/ SleepEnds(t)

AddStep(a) == CreateThread(a) \/ WorkerFails(a) \/ Register(a)

ManagerStep ==
  \/ ShardManagerStart \/ ShardManagerWaits \/ SessionManagerStart

\* What the client does without an answer from the server
ClientStep == ClientConnect \/ ClientFails \/ LoginFails \/ ClientPing \/ LobbyFails

MainStep ==
  \/ StartSleep \/ StartSleepEnds \/ TakeSnapshot
  \/ CallStopFunc \/ StopFlag \/ StopWakeup \/ StopsDone \/ Join \/ AllJoined

LifeNext ==
  \/ \E t \in Threads : ThreadStep(t) \/ WokenByTraffic(t) \/ SleepsAgain(t)
  \/ \E a \in Adders : AddStep(a)
  \/ ManagerStep \/ ClientStep \/ LoginEnds \/ LobbyEnds
  \/ MainStep \/ RunReturns \/ WaitForShutdown \/ Terminated

LifeSpec == LifeInit /\ [][LifeNext]_lifeVars

(***************************************************************************)
(* Every thread runs, sleeps end, and the client's connect ends.  The      *)
(* client's requests need not be answered.                                 *)
(***************************************************************************)
LifeFairness ==
  /\ \A t \in Threads : WF_lifeVars(ThreadStep(t))
  /\ \A a \in Adders : WF_lifeVars(AddStep(a))
  /\ WF_lifeVars(ManagerStep) /\ WF_lifeVars(ClientStep) /\ WF_lifeVars(MainStep)

LifeFairSpec == LifeSpec /\ LifeFairness
-----------------------------------------------------------------------------
(***************************************************************************)
(* "All threads terminated successfully." is true when Core::shutdown logs *)
(* it: also of the workers and shards that other threads added, and also   *)
(* when a reactor could not start.                                         *)
(***************************************************************************)
AllThreadsEnded == mpc = "done" => \A t \in Threads : tpc[t] \in {"none", "done"}

(***************************************************************************)
(* When stopAll begins to join, every thread that has not ended can see    *)
(* that it is to: its m_running is false, and if it is a reactor or worker *)
(* in epoll_wait its eventfd is set.  The workers are reached through      *)
(* their servers, those of a server that could not start too.              *)
(***************************************************************************)
StopReachesAll ==
  mpc \in {"join", "done"} /\ ~overwritten =>
    \A t \in Threads : tpc[t] \notin {"none", "done"} =>
      ~m_running[t] /\ (tpc[t] = "wait" => m_eventFd[t] = "set")

(***************************************************************************)
(* stopAll returns: it reaches every thread, its wakeup is not lost, and   *)
(* closing the client's sockets ends a request that is never answered,     *)
(* unless a thread set m_running after it had been told to stop, or the    *)
(* client was told before its login had ended: both can happen when the    *)
(* signal comes during the sleep of startThreads.                          *)
(***************************************************************************)
ShutdownEnds ==
  (mpc = "stop") ~> (mpc = "done" \/ overwritten \/ (Client \in stopped /\ tpc[Client] = "login"))
=============================================================================
