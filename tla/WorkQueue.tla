------------------------------ MODULE WorkQueue ------------------------------
(***************************************************************************)
(* The work queues of a worker thread (src/src/threads/WorkerThreads.cpp,   *)
(* DeliverBuffers, ExecuteWorkQueue and the loop of Entrypoint) with its    *)
(* event flag (src/src/threads/WaitableFlag.cpp).  Any thread delivers      *)
(* buffers; the worker takes a whole queue and runs it in batches of one    *)
(* callback, reordered by a median filter (CAT_WORKER_THREADS_REORDER_-     *)
(* EVENTS, include/cat/Config.hpp).  Timers are in WorkerTimers.            *)
(*                                                                         *)
(* A buffer is [id, cb, prio]: its place in the order of delivery, its       *)
(* callback and the queue it goes to.                                       *)
(***************************************************************************)
EXTENDS Integers, Sequences, SequencesExt

CONSTANTS Callbacks, MaxBuffers  \* bound on the buffers delivered

ASSUME WorkQueueAssumption == MaxBuffers \in Nat

Priorities == 1 .. 2     \* WQPRIO_HI, WQPRIO_LO

VARIABLES queued,     \* the queues, by priority
          setting,    \* threads in DeliverBuffers() that have yet to set the flag
          eventFlag, queuePc, level,
          work,       \* of the queue that was taken: current and what follows it
          batch,      \* the batch of prev
          delivered,  \* every buffer ever delivered
          ran,        \* the buffers in the order they were given to their callbacks
          killFlag
queueVars == <<queued, setting, eventFlag, queuePc, level, work, batch, delivered, ran, killFlag>>
filterVars == <<work, batch, ran>>

QueueInit ==
  /\ queued = [p \in Priorities |-> << >>] /\ eventFlag = FALSE
  /\ queuePc = "look" /\ level = 1
  /\ work = << >> /\ batch = << >>
  /\ delivered = << >> /\ ran = << >>
  /\ setting = 0 /\ killFlag = FALSE

-----------------------------------------------------------------------------
(* DeliverBuffers(): buffers are queued under the lock of the queue ... *)
DeliverBuffers(p, cbs) ==
  LET n == Len(delivered)
      set == [i \in 1 .. Len(cbs) |-> [id |-> n + i, cb |-> cbs[i], prio |-> p]]
  IN /\ n + Len(cbs) <= MaxBuffers
     /\ queued' = [queued EXCEPT ![p] = @ \o set]
     /\ delivered' = delivered \o set
     /\ setting' = setting + 1
     /\ UNCHANGED <<eventFlag, queuePc, level, killFlag, filterVars>>

\* Mutant: the flag is set only for a worker that waits.
FlagSetIfWaiting ==
  /\ setting > 0
  /\ setting' = setting - 1 /\ eventFlag' = (eventFlag \/ queuePc = "wait")
  /\ UNCHANGED <<queued, queuePc, level, delivered, killFlag, filterVars>>

(* ... and the flag is set after the lock is released. *)
FlagSet ==
  /\ setting > 0
  /\ setting' = setting - 1 /\ eventFlag' = TRUE
  /\ UNCHANGED <<queued, queuePc, level, delivered, killFlag, filterVars>>

(* The kill flag does not wake the worker: it is seen after the next wait. *)
SetKill == /\ ~killFlag
           /\ killFlag' = TRUE
           /\ UNCHANGED <<queued, setting, eventFlag, queuePc, level, delivered, filterVars>>

-----------------------------------------------------------------------------
(* Entrypoint() *)

(* The queues are looked at one after the other, without their locks. *)
LookForEvents ==
  /\ queuePc = "look" /\ (level = 1 => ~killFlag)
  /\ IF queued[level] # << >> THEN queuePc' = "grab" /\ level' = 1
     ELSE IF level = 1 THEN level' = 2 /\ UNCHANGED queuePc
     ELSE queuePc' = "wait" /\ level' = 1
  /\ UNCHANGED <<queued, setting, eventFlag, delivered, killFlag, filterVars>>

(* Wait(): the flag is consumed, *)
FlagSeen ==
  /\ queuePc = "wait" /\ eventFlag
  /\ eventFlag' = FALSE /\ queuePc' = "grab"
  /\ UNCHANGED <<queued, setting, level, delivered, killFlag, filterVars>>

(* or the tick is due first. *)
WaitTimesOut ==
  /\ queuePc = "wait" /\ queuePc' = "look"
  /\ UNCHANGED <<queued, setting, eventFlag, level, delivered, killFlag, filterVars>>

\* Mutant: the loop over the priorities ends one too early.
NextQueueFirst == queuePc' = "look" /\ UNCHANGED level
(* The loop over the priorities goes on. *)
NextQueue == IF level = 2 THEN queuePc' = "look" /\ level' = 1
                          ELSE queuePc' = "grab" /\ level' = level + 1

(* A queue is taken, under its lock; its first buffer begins the first batch. *)
GrabQueue ==
  /\ queuePc = "grab" /\ queued[level] # << >>
  /\ batch' = <<Head(queued[level])>> /\ work' = Tail(queued[level])
  /\ queued' = [queued EXCEPT ![level] = << >>]
  /\ queuePc' = "run"
  /\ UNCHANGED <<setting, eventFlag, level, delivered, ran, killFlag>>
NothingQueued ==
  /\ queuePc = "grab" /\ queued[level] = << >>
  /\ NextQueue
  /\ UNCHANGED <<queued, setting, eventFlag, delivered, killFlag, filterVars>>

-----------------------------------------------------------------------------
(* ExecuteWorkQueue() *)

\* Mutant: the buffer that is set aside is not run.
FilterDrops(current) ==
  IF batch[1].cb = current.cb THEN batch' = Append(batch, current) /\ ran' = ran
  ELSE IF Len(work) = 1 \/ batch[1].cb = work[2].cb THEN ran' = ran /\ batch' = batch
  ELSE ran' = ran \o batch /\ batch' = <<current>>

\* Mutant: a batch is linked at its head.
FilterPushFront(current) ==
  IF batch[1].cb = current.cb THEN batch' = <<current>> \o batch /\ ran' = ran
  ELSE IF Len(work) = 1 \/ batch[1].cb = work[2].cb
    THEN ran' = Append(ran, current) /\ batch' = batch
  ELSE ran' = ran \o batch /\ batch' = <<current>>

(* One turn of the filter: current is stored with prev; or, where prev and next
   have one callback or there is no next, run; or prev is run and current
   stored in its place. *)
Filter(current) ==
  IF batch[1].cb = current.cb THEN batch' = Append(batch, current) /\ ran' = ran
  ELSE IF Len(work) = 1 \/ batch[1].cb = work[2].cb
    THEN ran' = Append(ran, current) /\ batch' = batch
  ELSE ran' = ran \o batch /\ batch' = <<current>>

FilterTurn ==
  /\ queuePc = "run" /\ work # << >>
  /\ Filter(Head(work)) /\ work' = Tail(work)
  /\ UNCHANGED <<queued, setting, eventFlag, queuePc, level, delivered, killFlag>>

(* What remains is run. *)
RunRemaining ==
  /\ queuePc = "run" /\ work = << >>
  /\ ran' = ran \o batch /\ batch' = << >> /\ work' = work
  /\ NextQueue
  /\ UNCHANGED <<queued, setting, eventFlag, delivered, killFlag>>

QueueExit ==
  /\ queuePc = "look" /\ level = 1 /\ killFlag
  /\ queuePc' = "exit"
  /\ UNCHANGED <<queued, setting, eventFlag, level, delivered, killFlag, filterVars>>

QueueWorker == \/ LookForEvents \/ FlagSeen \/ GrabQueue \/ NothingQueued
               \/ FilterTurn \/ RunRemaining \/ QueueExit
Deliveries == UNION {[1 .. n -> Callbacks] : n \in 1 .. MaxBuffers}
QueueNext == \/ \E p \in Priorities, cbs \in Deliveries : DeliverBuffers(p, cbs)
             \/ FlagSet \/ SetKill \/ QueueWorker \/ WaitTimesOut

(* Threads run on; a wait that times out is not relied on. *)
QueueFairness == WF_queueVars(FlagSet) /\ WF_queueVars(QueueWorker)
QueueSpec == QueueInit /\ [][QueueNext]_queueVars /\ QueueFairness

-----------------------------------------------------------------------------
(* Every buffer delivered is in a queue, in the hands of the filter or was run,
   once, in a batch of its own callback: the filter neither drops nor repeats
   the one it sets aside, and no delivery comes between a queue's being taken
   and its being cleared.  (WorkerThreads.cpp:94-101, 210-252, 322-335) *)
RunsOnce ==
  LET seen == ran \o batch \o work \o queued[1] \o queued[2] IN
  /\ Len(seen) = Len(delivered)
  /\ \A d \in Range(delivered) : d \in Range(seen)
  /\ \A b \in Range(batch) : b.cb = batch[1].cb

(* Events are reordered, but never two of one callback and one priority. *)
SameCallbackInOrder ==
  \A i, j \in DOMAIN ran :
    i < j /\ ran[i].cb = ran[j].cb /\ ran[i].prio = ran[j].prio => ran[i].id < ran[j].id

(* The worker sleeps on empty queues, or the flag is set or about to be: no
   delivery between its look and its wait is missed. *)
NoLostWakeup ==
  queuePc = "wait" /\ (\E p \in Priorities : queued[p] # << >>)
    => eventFlag \/ setting > 0

(* What is delivered is run, unless the worker is told to exit. *)
DeliveredRuns ==
  \A n \in 1 .. MaxBuffers :
    (Len(delivered) >= n) ~> (killFlag \/ \E i \in DOMAIN ran : ran[i].id = n)

(* What is delivered runs once, and in the order of its callback. *)
WorkQueueSafe == RunsOnce /\ SameCallbackInOrder
=============================================================================
