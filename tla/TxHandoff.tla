----------------------------- MODULE TxHandoff -----------------------------
(***************************************************************************)
(* Egress: shard workers call enqueueTx of a reactor (TcpReactor,          *)
(* TlsReactor and IpcReactor share this shape), which puts the packet in   *)
(* an MpscQueue and writes the reactor's eventfd; the reactor sleeps in    *)
(* epoll_wait and, when the eventfd fires, drains it and calls             *)
(* processTxQueue.  A slot that is claimed but not yet ready ends          *)
(* dequeueAll early and leaves ready packets behind it in the ring.        *)
(***************************************************************************)
EXTENDS MpscQueue, FiniteSets

VARIABLES rpc,      \* the reactor: waiting, woken, or in processTxQueue
          eventFd,  \* the eventfd counter is positive
          waking    \* producers between a true enqueue and wakeup()

reactorVars == <<rpc, eventFd, waking>>
txVars == <<vars, reactorVars>>

TxInit ==
  /\ Init
  /\ rpc = "wait" /\ eventFd = FALSE /\ waking = {}

(***************************************************************************)
(* enqueueTx                                                               *)
(***************************************************************************)
EnqueueTx(p, x) ==
  /\ p \notin waking
  /\ Enqueue(p, x)
  /\ UNCHANGED reactorVars

EnqueueStep(p) ==
  /\ LoadTail(p) \/ CheckFull(p) \/ Claim(p) \/ ClaimFails(p) \/ Fill(p)
  /\ UNCHANGED reactorVars

EnqueueTrue(p) ==
  /\ Publish(p)
  /\ waking' = waking \cup {p}
  /\ UNCHANGED <<rpc, eventFd>>

Wakeup(p) ==
  /\ p \in waking
  /\ waking' = waking \ {p}
  /\ eventFd' = TRUE
  /\ UNCHANGED <<vars, rpc>>

(***************************************************************************)
(* The reactor's loop                                                      *)
(***************************************************************************)
WaitReturns ==
  /\ rpc = "wait"
  /\ eventFd
  /\ rpc' = "woken"
  /\ UNCHANGED <<vars, eventFd, waking>>

DrainWakeup ==
  /\ rpc = "woken"
  /\ eventFd' = FALSE
  /\ rpc' = "drained"
  /\ UNCHANGED <<vars, waking>>

ProcessTxQueue ==
  /\ rpc = "drained"
  /\ BeginDequeueAll
  /\ rpc' = "tx"
  /\ UNCHANGED <<eventFd, waking>>

DequeueStep ==
  /\ ScanReady \/ TakePtr \/ ClearReady
  /\ UNCHANGED reactorVars

ProcessTxQueueEnds ==
  /\ EndDequeueAll
  /\ rpc' = "loop"
  /\ UNCHANGED <<eventFd, waking>>

\* Drains the eventfd here, after the ring has been emptied.
WaitAgainDrains ==
  /\ rpc = "loop"
  /\ rpc' = "wait"
  /\ eventFd' = FALSE
  /\ UNCHANGED <<vars, waking>>

\* The batch has been flushed and the other events are handled.
WaitAgain ==
  /\ rpc = "loop"
  /\ rpc' = "wait"
  /\ UNCHANGED <<vars, eventFd, waking>>

Reactor ==
  \/ WaitReturns \/ DrainWakeup \/ ProcessTxQueue \/ DequeueStep \/ ProcessTxQueueEnds
  \/ WaitAgain

TxProducer(p) == EnqueueStep(p) \/ EnqueueTrue(p) \/ Wakeup(p)

TxNext ==
  \/ \E p \in Producers : TxProducer(p) \/ \E x \in Items : EnqueueTx(p, x)
  \/ Reactor

TxSpec == TxInit /\ [][TxNext]_txVars

(***************************************************************************)
(* The reactor runs when it can, and a shard worker that has claimed a     *)
(* slot goes on to fill it, publish it and write the eventfd: threads are  *)
(* not suspended for ever.  Nothing obliges a compare-exchange to succeed. *)
(***************************************************************************)
TxFairness ==
  /\ WF_txVars(Reactor)
  /\ \A p \in Producers :
       WF_txVars((Fill(p) /\ UNCHANGED reactorVars) \/ EnqueueTrue(p) \/ Wakeup(p))

TxFairSpec == TxSpec /\ TxFairness
-----------------------------------------------------------------------------
(***************************************************************************)
(* Types, and the reactor is inside dequeueAll exactly in processTxQueue.  *)
(***************************************************************************)
TxTypeOK ==
  /\ TypeOK
  /\ rpc \in {"wait", "woken", "drained", "tx", "loop"}
  /\ eventFd \in BOOLEAN
  /\ waking \subseteq Producers
  /\ rpc = "tx" <=> cpc # "idle"

(***************************************************************************)
(* No lost wakeup: a reactor that sleeps, or goes back to sleep, with a    *)
(* ready packet at the head of its ring will be woken, by an eventfd that  *)
(* is already readable or by a producer that has yet to write it.  A       *)
(* packet behind a slot that is claimed and not ready counts once that     *)
(* slot is ready, so the producer that stalled there must wake it too.     *)
(***************************************************************************)
NoLostWakeup ==
  rpc \in {"loop", "wait"} /\ ready[Slot(m_head)] => eventFd \/ waking # {}

(***************************************************************************)
(* Every packet whose slot was claimed reaches processTxQueue, whatever    *)
(* the order in which the producers finish and however often dequeueAll    *)
(* stops at a gap.                                                         *)
(***************************************************************************)
ClaimedIsDelivered ==
  \A i \in 1..Cardinality(Items) : (Len(claimed) >= i) ~> (Len(out) >= i)
=============================================================================
