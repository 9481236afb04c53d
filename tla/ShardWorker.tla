---------------------------- MODULE ShardWorker ----------------------------
(***************************************************************************)
(* One shard worker: protocol and IPC threads push events under            *)
(* m_eventLock and notify a condition variable; the worker waits on it     *)
(* until the next tick WITHOUT a predicate, takes at most one event per    *)
(* turn, handles it and the actions it enqueued, and runs the tick when it *)
(* is due.  A notification that finds nobody waiting is lost.              *)
(*                                                                         *)
(* Time is relative: rem is m_nextTick minus the current time, and age is  *)
(* the current time minus the worker's last sample of it (now).            *)
(***************************************************************************)
EXTENDS Integers, Sequences, FiniteSets

CONSTANTS Producers,      \* the threads that call enqueueEvent
          Events,         \* the events, each enqueued at most once
          Internal,       \* events answered without an action (market dumps)
          TickInterval,   \* m_tickInterval
          MaxLag          \* bound: the worker is never later than this

ASSUME ShardAssumption ==
  /\ Internal \subseteq Events
  /\ TickInterval \in Nat \ {0} /\ MaxLag \in Nat

VARIABLES m_eventQueue, m_actionQueue, m_running,
          rem, age,
          wpc,        \* the worker in processPacket
          event,      \* the worker's local event, as a sequence of length <= 1
          signalled,  \* the worker's wait has been notified
          ppc,        \* producer: idle, or between push and notify_one
          spc,        \* stop(): none, flagged, done
          earlyStop,  \* history: stop() cleared m_running before the worker set it
          queued,     \* history: events in the order they were pushed
          answered    \* history: events in the order they were answered

shardQueues == <<m_eventQueue, m_actionQueue, queued, answered>>
shardTime == <<rem, age>>
shardStop == <<m_running, spc, earlyStop>>
shardVars == <<shardQueues, shardTime, shardStop, wpc, event, signalled, ppc>>

ShardInit ==
  /\ m_eventQueue = << >> /\ m_actionQueue = << >>
  /\ m_running = FALSE
  /\ rem = TickInterval /\ age = 0
  /\ wpc = "start" /\ event = << >> /\ signalled = FALSE
  /\ ppc = [p \in Producers |-> "idle"]
  /\ spc = "none" /\ earlyStop = FALSE
  /\ queued = << >> /\ answered = << >>

\* notify_one wakes the worker only if it is waiting.
NotifyOne == signalled' = (signalled \/ wpc = "waiting")

\* m_eventLock is held by the worker from the end of its wait to the pop.
LockFree == wpc # "locked"

(***************************************************************************)
(* enqueueEvent                                                            *)
(***************************************************************************)
PushEvent(p, e) ==
  /\ ppc[p] = "idle"
  /\ LockFree
  /\ \A i \in 1..Len(queued) : queued[i] # e
  /\ m_eventQueue' = Append(m_eventQueue, e)
  /\ queued' = Append(queued, e)
  /\ ppc' = [ppc EXCEPT ![p] = "notify"]
  /\ UNCHANGED <<m_actionQueue, answered, shardTime, shardStop, wpc, event, signalled>>

NotifyEvent(p) ==
  /\ ppc[p] = "notify"
  /\ NotifyOne
  /\ ppc' = [ppc EXCEPT ![p] = "idle"]
  /\ UNCHANGED <<shardQueues, shardTime, shardStop, wpc, event>>

(***************************************************************************)
(* processPacket                                                           *)
(***************************************************************************)
Start ==
  /\ wpc = "start"
  /\ m_running' = TRUE
  /\ rem' = TickInterval /\ age' = 0
  /\ wpc' = "loop"
  /\ UNCHANGED <<shardQueues, spc, earlyStop, event, signalled, ppc>>

CheckRunning ==
  /\ wpc = "loop"
  /\ wpc' = IF m_running THEN "enter" ELSE "done"
  /\ UNCHANGED <<shardQueues, shardTime, shardStop, event, signalled, ppc>>

\* Taking the lock and blocking in wait_until is one step of the mutex.
EnterWait ==
  /\ wpc = "enter"
  /\ wpc' = "waiting"
  /\ UNCHANGED <<shardQueues, shardTime, shardStop, event, signalled, ppc>>

\* Waits for a notification only.
LeaveWaitOnNotify ==
  /\ wpc = "waiting"
  /\ signalled
  /\ wpc' = "locked" /\ signalled' = FALSE
  /\ UNCHANGED <<shardQueues, shardTime, shardStop, event, ppc>>

\* Notified, or the deadline m_nextTick has passed.
LeaveWait ==
  /\ wpc = "waiting"
  /\ signalled \/ rem <= 0
  /\ wpc' = "locked" /\ signalled' = FALSE
  /\ UNCHANGED <<shardQueues, shardTime, shardStop, event, ppc>>

\* wait_until may return for no reason.
LeaveWaitSpuriously ==
  /\ wpc = "waiting"
  /\ wpc' = "locked" /\ signalled' = FALSE
  /\ UNCHANGED <<shardQueues, shardTime, shardStop, event, ppc>>

\* Pops the newest event.
TakeNewestEvent ==
  /\ wpc = "locked"
  /\ m_running
  /\ LET n == Len(m_eventQueue) IN
       IF n = 0
         THEN UNCHANGED <<event, m_eventQueue>>
         ELSE /\ event' = << m_eventQueue[n] >>
              /\ m_eventQueue' = SubSeq(m_eventQueue, 1, n - 1)
  /\ age' = 0
  /\ wpc' = "handle"
  /\ UNCHANGED <<m_actionQueue, queued, answered, rem, shardStop, signalled, ppc>>

\* Under the lock; the lock is released and now is sampled.
TakeEvent ==
  /\ wpc = "locked"
  /\ m_running
  /\ IF m_eventQueue = << >>
       THEN UNCHANGED <<event, m_eventQueue>>
       ELSE /\ event' = << Head(m_eventQueue) >>
            /\ m_eventQueue' = Tail(m_eventQueue)
  /\ age' = 0
  /\ wpc' = "handle"
  /\ UNCHANGED <<m_actionQueue, queued, answered, rem, shardStop, signalled, ppc>>

BreakLoop ==
  /\ wpc = "locked"
  /\ ~m_running
  /\ wpc' = "done"
  /\ UNCHANGED <<shardQueues, shardTime, shardStop, event, signalled, ppc>>

\* What handleEvent does with the event in hand: an internal event is
\* fulfilled at once, any other commits one action.
Fulfilled == IF event # << >> /\ event[1] \in Internal THEN event ELSE << >>
Committed == IF event # << >> /\ event[1] \notin Internal THEN event ELSE << >>

\* The notify_one of enqueueAction finds no waiter.
HandleEvent ==
  /\ wpc = "handle"
  /\ m_actionQueue' = m_actionQueue \o Committed
  /\ answered' = answered \o Fulfilled
  /\ event' = << >>
  /\ wpc' = "actions"
  /\ UNCHANGED <<m_eventQueue, queued, shardTime, shardStop, signalled, ppc>>

HandleAction ==
  /\ wpc = "actions"
  /\ m_actionQueue # << >>
  /\ answered' = Append(answered, Head(m_actionQueue))
  /\ m_actionQueue' = Tail(m_actionQueue)
  /\ UNCHANGED <<m_eventQueue, queued, shardTime, shardStop, wpc, event, signalled, ppc>>

ActionsDone ==
  /\ wpc = "actions"
  /\ m_actionQueue = << >>
  /\ wpc' = "tick"
  /\ UNCHANGED <<shardQueues, shardTime, shardStop, event, signalled, ppc>>

NoTick ==
  /\ wpc = "tick"
  /\ rem + age > 0
  /\ age' = 0
  /\ wpc' = "loop"
  /\ UNCHANGED <<shardQueues, rem, shardStop, event, signalled, ppc>>

\* onTick, m_nextTick += m_tickInterval, and the resync after a drift.
Tick ==
  /\ wpc = "tick"
  /\ rem + age <= 0
  /\ rem' = IF rem + TickInterval + TickInterval + age < 0
              THEN TickInterval - age
              ELSE rem + TickInterval
  /\ age' = 0
  /\ wpc' = "loop"
  /\ UNCHANGED <<shardQueues, shardStop, event, signalled, ppc>>

(***************************************************************************)
(* stop, which does not take the lock                                      *)
(***************************************************************************)
StopFlag ==
  /\ spc = "none"
  /\ m_running' = FALSE
  /\ earlyStop' = (wpc = "start")
  /\ spc' = "flagged"
  /\ UNCHANGED <<shardQueues, shardTime, wpc, event, signalled, ppc>>

StopNotify ==
  /\ spc = "flagged"
  /\ NotifyOne
  /\ spc' = "done"
  /\ UNCHANGED <<shardQueues, shardTime, m_running, earlyStop, wpc, event, ppc>>

\* The clock; there is a deadline only while the loop runs, and age matters
\* only between the sample and the tick.
TimePasses ==
  /\ wpc \notin {"start", "done"}
  /\ rem > -MaxLag
  /\ rem' = rem - 1
  /\ age' = IF wpc \in {"handle", "actions", "tick"} THEN age + 1 ELSE age
  /\ UNCHANGED <<shardQueues, shardStop, wpc, event, signalled, ppc>>

Terminated == wpc = "done" /\ spc = "done" /\ UNCHANGED shardVars

ShardLoop ==
  \/ Start \/ CheckRunning \/ EnterWait \/ LeaveWait \/ TakeEvent \/ BreakLoop
  \/ HandleEvent \/ HandleAction \/ ActionsDone \/ NoTick \/ Tick

ShardNext ==
  \/ \E p \in Producers : NotifyEvent(p) \/ \E e \in Events : PushEvent(p, e)
  \/ ShardLoop \/ LeaveWaitSpuriously
  \/ StopFlag \/ StopNotify
  \/ TimePasses \/ Terminated

ShardSpec == ShardInit /\ [][ShardNext]_shardVars
-----------------------------------------------------------------------------
(***************************************************************************)
(* Types; the worker holds an event only while it handles it.              *)
(***************************************************************************)
ShardTypeOK ==
  /\ m_eventQueue \in Seq(Events) /\ m_actionQueue \in Seq(Events \ Internal)
  /\ m_running \in BOOLEAN /\ signalled \in BOOLEAN /\ earlyStop \in BOOLEAN
  /\ rem \in (-MaxLag)..TickInterval /\ age \in 0..(MaxLag + TickInterval)
  /\ wpc \in {"start", "loop", "enter", "waiting", "locked", "handle", "actions",
              "tick", "done"}
  /\ event \in Seq(Events) /\ Len(event) <= 1
  /\ event # << >> => wpc = "handle"
  /\ ppc \in [Producers -> {"idle", "notify"}]
  /\ spc \in {"none", "flagged", "done"}
  /\ queued \in Seq(Events) /\ answered \in Seq(Events)

(***************************************************************************)
(* In-shard ordering (README.md): events are answered in the order they    *)
(* were pushed, external and internal ones alike; at any time each event   *)
(* is answered, in the action queue, in hand or in the event queue, once.  *)
(***************************************************************************)
InShardOrder == queued = answered \o m_actionQueue \o event \o m_eventQueue

(***************************************************************************)
(* An answer never waits for a tick: the actions of an event are all       *)
(* handled before the worker waits, checks m_running or ends, although     *)
(* enqueueAction's notify_one always finds nobody waiting.                 *)
(***************************************************************************)
NoActionWaits ==
  wpc \in {"loop", "enter", "waiting", "locked", "done"} => m_actionQueue = << >>

(***************************************************************************)
(* Every event is answered unless the worker is stopped, although its      *)
(* notification may find the worker busy and be lost: the deadline of the  *)
(* next tick ends every wait.  A behaviour has finitely many events, so    *)
(* that the worker catches up.                                             *)
(***************************************************************************)
EventsAnswered == (queued # answered) ~> (queued = answered \/ spc # "none")

\* Ticks go on for ever unless the worker is stopped.
TicksContinue == <>(spc # "none") \/ []<><<Tick>>_shardVars

(***************************************************************************)
(* A stop() that follows the worker's start ends the worker, although      *)
(* stop() does not take the lock and its notify_one may be lost between    *)
(* the worker's test of m_running and its wait.                            *)
(***************************************************************************)
StopEndsWorker == (spc = "done" /\ ~earlyStop) ~> (wpc = "done")

=============================================================================
