------------------------------ MODULE RxWorker ------------------------------
(***************************************************************************)
(* A protocol worker (TcpWorker, TlsWorker, UdpWorker, which share this    *)
(* loop): its reactor enqueues into the SpscQueue and writes an eventfd,   *)
(* the worker sleeps in epoll_wait and drains the queue, and the main      *)
(* thread stops it.  The reactor may still be handling a batch of events   *)
(* when the worker is told to stop.                                        *)
(***************************************************************************)
EXTENDS SpscQueue, FiniteSets

VARIABLES wpc,        \* the worker in processPacket
          eventFd,    \* the eventfd counter is positive
          notify,     \* the reactor is between a true enqueue and wakeup()
          m_running,
          spc,        \* the main thread in stop()
          sentAtStop  \* history: packets sent when stop() cleared m_running

workerVars == <<wpc, eventFd, notify, m_running, spc, sentAtStop>>
rxVars == <<spscVars, workerVars>>

\* start() has set m_running and created the thread.
RxInit ==
  /\ SpscInit
  /\ wpc = "loop" /\ eventFd = FALSE /\ notify = FALSE
  /\ m_running = TRUE /\ spc = "none" /\ sentAtStop = 0

(***************************************************************************)
(* enqueueRx, on the reactor thread                                        *)
(***************************************************************************)
EnqueueRx(x) ==
  /\ ~notify
  /\ BeginEnqueue(x)
  /\ UNCHANGED workerVars

EnqueueStep ==
  /\ CheckRoom \/ RejectFull \/ StorePtr
  /\ UNCHANGED workerVars

EnqueueTrue ==
  /\ PublishTail
  /\ notify' = TRUE
  /\ UNCHANGED <<wpc, eventFd, m_running, spc, sentAtStop>>

Wakeup ==
  /\ notify
  /\ notify' = FALSE
  /\ eventFd' = TRUE
  /\ UNCHANGED <<spscVars, wpc, m_running, spc, sentAtStop>>

(***************************************************************************)
(* processPacket, on the worker thread                                     *)
(***************************************************************************)
\* Drains the eventfd here, after the queue has been emptied.
CheckRunningDrainsLate ==
  /\ wpc = "loop"
  /\ wpc' = IF m_running THEN "wait" ELSE "final"
  /\ eventFd' = FALSE
  /\ UNCHANGED <<spscVars, notify, m_running, spc, sentAtStop>>

\* Leaves without the drain that follows the loop.
CheckRunningSkipsDrain ==
  /\ wpc = "loop"
  /\ wpc' = IF m_running THEN "wait" ELSE "done"
  /\ UNCHANGED <<spscVars, eventFd, notify, m_running, spc, sentAtStop>>

CheckRunning ==
  /\ wpc = "loop"
  /\ wpc' = IF m_running THEN "wait" ELSE "final"
  /\ UNCHANGED <<spscVars, eventFd, notify, m_running, spc, sentAtStop>>

\* epoll_wait reports the eventfd, which is level triggered.
WaitReturns ==
  /\ wpc = "wait"
  /\ eventFd
  /\ wpc' = "woken"
  /\ UNCHANGED <<spscVars, eventFd, notify, m_running, spc, sentAtStop>>

\* A signal ends epoll_wait with EINTR, which it may only while nothing is ready.
WaitInterrupted ==
  /\ wpc = "wait"
  /\ ~eventFd
  /\ wpc' = "loop"
  /\ UNCHANGED <<spscVars, eventFd, notify, m_running, spc, sentAtStop>>

DrainWakeup ==
  /\ wpc = "woken"
  /\ eventFd' = FALSE
  /\ wpc' = "drain"
  /\ UNCHANGED <<spscVars, notify, m_running, spc, sentAtStop>>

\* One dequeue() of either drain loop that returns a packet.
DequeueStep ==
  /\ wpc \in {"drain", "final"}
  /\ DequeueNonEmpty \/ TakePtr \/ PublishHead
  /\ UNCHANGED workerVars

\* The dequeue() that returns nullptr ends the drain loop.
DequeueNull ==
  /\ wpc \in {"drain", "final"}
  /\ DequeueEmpty
  /\ wpc' = IF wpc = "drain" THEN "loop" ELSE "done"
  /\ UNCHANGED <<eventFd, notify, m_running, spc, sentAtStop>>

(***************************************************************************)
(* stop, on the main thread                                                *)
(***************************************************************************)
StopFlag ==
  /\ spc = "none"
  /\ m_running' = FALSE
  /\ sentAtStop' = Len(sent)
  /\ spc' = "flagged"
  /\ UNCHANGED <<spscVars, wpc, eventFd, notify>>

\* Forgets to wake the worker it has told to stop.
StopWakeupMissing ==
  /\ spc = "flagged"
  /\ spc' = "stopped"
  /\ UNCHANGED <<spscVars, wpc, eventFd, notify, m_running, sentAtStop>>

StopWakeup ==
  /\ spc = "flagged"
  /\ eventFd' = TRUE
  /\ spc' = "stopped"
  /\ UNCHANGED <<spscVars, wpc, notify, m_running, sentAtStop>>

\* join() in ThreadManager::stopAll has returned.
Terminated == wpc = "done" /\ spc = "stopped" /\ UNCHANGED rxVars

Worker ==
  CheckRunning \/ WaitReturns \/ DrainWakeup \/ DequeueStep \/ DequeueNull

RxNext ==
  \/ \E x \in Items : EnqueueRx(x)
  \/ EnqueueStep \/ EnqueueTrue \/ Wakeup
  \/ Worker \/ WaitInterrupted
  \/ StopFlag \/ StopWakeup
  \/ Terminated

RxSpec == RxInit /\ [][RxNext]_rxVars

(***************************************************************************)
(* A thread that can run does run: the reactor finishes an enqueueRx it    *)
(* has begun, the worker takes its steps, stop() is finished once begun.   *)
(* Nothing obliges packets to arrive or stop() to be called.               *)
(***************************************************************************)
RxFairness ==
  /\ WF_rxVars(EnqueueStep \/ EnqueueTrue \/ Wakeup)
  /\ WF_rxVars(Worker)
  /\ WF_rxVars(StopWakeup)

RxFairSpec == RxSpec /\ RxFairness
-----------------------------------------------------------------------------
(***************************************************************************)
(* The control state of the worker and its stopping thread is one the code *)
(* has, and the worker is inside dequeue only while it drains.             *)
(***************************************************************************)
RxTypeOK ==
  /\ SpscTypeOK
  /\ wpc \in {"loop", "wait", "woken", "drain", "final", "done"}
  /\ eventFd \in BOOLEAN /\ notify \in BOOLEAN /\ m_running \in BOOLEAN
  /\ spc \in {"none", "flagged", "stopped"}
  /\ sentAtStop \in Nat
  /\ cpc # "idle" => wpc \in {"drain", "final"}

(***************************************************************************)
(* No lost wakeup: while the worker is about to sleep or sleeps and the    *)
(* queue holds a packet, the eventfd is readable or the reactor is about   *)
(* to write it.  processPacket relies on it, for it looks at the queue     *)
(* only after the eventfd fires.                                           *)
(***************************************************************************)
NoLostWakeup ==
  wpc \in {"loop", "wait"} /\ m_head # m_tail => eventFd \/ notify

(***************************************************************************)
(* The worker never sleeps through stop(): once stop() has returned, a     *)
(* worker that has not left its loop will find the eventfd readable or     *)
(* will look at m_running again before it sleeps.                          *)
(***************************************************************************)
StopIsSeen ==
  spc = "stopped" /\ wpc = "wait" => eventFd

(***************************************************************************)
(* The drain after the loop in processPacket handles every packet that was *)
(* in the queue when stop() cleared m_running.                             *)
(***************************************************************************)
StopDrains == wpc = "done" => Len(out) >= sentAtStop

(***************************************************************************)
(* Every packet enqueueRx accepted while the worker runs is handled unless *)
(* stop() is called.                                                       *)
(***************************************************************************)
SentIsHandled ==
  \A i \in 1..Cardinality(Items) :
    (Len(sent) >= i) ~> (Len(out) >= i \/ ~m_running)

(***************************************************************************)
(* A worker that is told to stop leaves processPacket, so that the join in *)
(* stopAll returns.                                                        *)
(***************************************************************************)
StopTerminates == (spc = "stopped") ~> (wpc = "done")
=============================================================================
