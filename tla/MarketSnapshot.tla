--------------------------- MODULE MarketSnapshot ---------------------------
(***************************************************************************)
(* CoreControl::marketSnapshot against one shard.  An IPC worker gives     *)
(* every shard a MarketDumpReqEvent with a promise, then waits for one     *)
(* future after the other, at most 500 ms for each, and leaves out the     *)
(* shards that are late.  The shard here is the ShardWorker; the others    *)
(* take some time before and after it.  A promise is kept by the event, so *)
(* that a late shard fulfils one whose future is gone.                     *)
(***************************************************************************)
EXTENDS ShardWorker

CONSTANTS Caller,     \* the IPC worker
          Others,     \* the protocol workers
          Dumps,      \* the MarketDumpReqEvents of its calls, in order
          WaitTime    \* of wait_for, in the unit of TickInterval

ASSUME MarketAssumption ==
  /\ Producers = {Caller} \cup Others /\ Caller \notin Others
  /\ Dumps \in Seq(Internal) /\ WaitTime \in Nat \ {0}

VARIABLES cpc,      \* the call: idle, dispatch, earlier, wait, got, gaveUp
          calls,    \* calls so far; the current one's event is Dumps[calls]
          left,     \* what is left of wait_for
          behind,   \* the wakeup of the dump's own notification does not
                    \* bring it to the worker
          slow      \* time has passed since the request while the worker was
                    \* not asleep

callVars == <<cpc, calls, left, behind, slow>>
marketVars == <<shardVars, callVars>>

Dump == Dumps[calls]

MarketInit ==
  /\ ShardInit
  /\ cpc = "idle" /\ calls = 0 /\ left = 0 /\ behind = FALSE /\ slow = FALSE

(***************************************************************************)
(* The call                                                                *)
(***************************************************************************)
\* The event is dispatched to this shard, and to the others before and after.
Request ==
  /\ cpc = "idle" /\ calls < Len(Dumps)
  /\ calls' = calls + 1
  /\ cpc' = "dispatch"
  /\ PushEvent(Caller, Dumps[calls + 1])
  /\ UNCHANGED <<left, behind, slow>>

\* The notification leaves the dump for a later turn of the worker.
LeftBehind ==
  /\ \E i \in 1..Len(m_eventQueue) : m_eventQueue[i] = Dump
  /\ ~(Head(m_eventQueue) = Dump /\ wpc \in {"waiting", "locked"})

RequestNotify ==
  /\ cpc = "dispatch"
  /\ NotifyEvent(Caller)
  /\ behind' = LeftBehind
  /\ cpc' = "earlier"
  /\ UNCHANGED <<calls, left, slow>>

\* The futures of the shards before this one are through.
BeginWait ==
  /\ cpc = "earlier"
  /\ cpc' = "wait" /\ left' = WaitTime
  /\ UNCHANGED <<shardVars, calls, behind, slow>>

\* set_value has been called.
Ready(e) == \E i \in 1..Len(answered) : answered[i] = e

\* wait_for returns ready, also when it has just run out.
GetValue ==
  /\ cpc = "wait" /\ Ready(Dump)
  /\ cpc' = "got"
  /\ UNCHANGED <<shardVars, calls, left, behind, slow>>

\* Waits for the value without a limit.
WaitWithoutTimeout ==
  /\ cpc = "wait" /\ left = 0 /\ Ready(Dump)
  /\ cpc' = "got"
  /\ UNCHANGED <<shardVars, calls, left, behind, slow>>

\* "MarketSnapshot timeout from shard"
GiveUp ==
  /\ cpc = "wait" /\ left = 0 /\ ~Ready(Dump)
  /\ cpc' = "gaveUp"
  /\ UNCHANGED <<shardVars, calls, left, behind, slow>>

\* The other futures are through, and the snapshot is returned.
Return ==
  /\ cpc \in {"got", "gaveUp"}
  /\ cpc' = "idle" /\ left' = 0 /\ behind' = FALSE /\ slow' = FALSE
  /\ UNCHANGED <<shardVars, calls>>

CallStep == RequestNotify \/ BeginWait \/ GetValue \/ GiveUp \/ Return

(***************************************************************************)
(* The rest of the system                                                  *)
(***************************************************************************)
\* RxRouter::handlePacket on a protocol worker
Packet(p) ==
  /\ NotifyEvent(p) \/ \E e \in Events \ Internal : PushEvent(p, e)
  /\ UNCHANGED callVars

Worker ==
  /\ ShardLoop
  /\ UNCHANGED callVars

Environment ==
  /\ LeaveWaitSpuriously \/ StopFlag \/ StopNotify \/ Terminated
  /\ UNCHANGED callVars

\* The worker has nothing to do before the next tick.
Asleep == wpc = "waiting" /\ ~signalled /\ rem > 0

Clock ==
  /\ \/ TimePasses
     \/ wpc \in {"start", "done"} /\ UNCHANGED shardVars
  /\ left' = IF left = 0 THEN 0 ELSE left - 1
  /\ slow' = (cpc # "idle" /\ (slow \/ ~Asleep))
  /\ UNCHANGED <<cpc, calls, behind>>

MarketNext ==
  \/ Request \/ CallStep
  \/ \E p \in Others : Packet(p)
  \/ Worker \/ Environment \/ Clock

MarketSpec == MarketInit /\ [][MarketNext]_marketVars

(***************************************************************************)
(* The worker's thread and the IPC worker run, time passes, and stop()     *)
(* finishes once begun.  Neither notifications that find the worker        *)
(* waiting nor spurious wakeups are assumed: the tick alone must drive the *)
(* queue.                                                                  *)
(***************************************************************************)
MarketFairSpec ==
  /\ MarketSpec
  /\ WF_marketVars(Worker) /\ WF_marketVars(Clock) /\ WF_marketVars(CallStep)
  /\ WF_marketVars(StopNotify /\ UNCHANGED callVars)
-----------------------------------------------------------------------------
(***************************************************************************)
(* A shard that keeps up is in the snapshot: wait_for runs out only when   *)
(* the worker was late by itself or was not running, or when the dump was  *)
(* left behind by its own notification: the worker was not waiting, or an  *)
(* older event was first, and a turn takes only one.                       *)
(***************************************************************************)
TimeoutExplained == cpc = "gaveUp" => behind \/ slow

(***************************************************************************)
(* A call of marketSnapshot returns, also when the shard has not started,  *)
(* has ended, or answers late.                                             *)
(***************************************************************************)
SnapshotReturns == (cpc # "idle") ~> (cpc = "idle")
=============================================================================
