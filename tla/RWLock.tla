------------------------------- MODULE RWLock -------------------------------
(***************************************************************************)
(* The reader-writer lock of src/src/threads/RWLock.cpp in its Windows      *)
(* build, where it is made of two counters, an event and a mutex.  (In the  *)
(* other builds it is pthread's.)  One atomic step is one access to the     *)
(* shared counters, the event or the mutex.                                 *)
(***************************************************************************)
EXTENDS Integers, FiniteSets

CONSTANTS Lockers  \* the threads that lock

ASSUME LockersAssumption == IsFiniteSet(Lockers)

VARIABLES rwPc, rdCount, wrCount, rdEvent, wrOwner
rwVars == <<rwPc, rdCount, wrCount, rdEvent, wrOwner>>

RWInit == /\ rwPc = [t \in Lockers |-> "idle"]
          /\ rdCount = 0 /\ wrCount = 0 /\ rdEvent = TRUE /\ wrOwner = {}

At(t, from, to) == rwPc[t] = from /\ rwPc' = [rwPc EXCEPT ![t] = to]

-----------------------------------------------------------------------------
(* ReadLock() *)

ReadStart(t) ==
  /\ rwPc[t] \in {"idle", "retry"}
  /\ rwPc' = [rwPc EXCEPT ![t] = IF wrCount # 0 THEN "wait" ELSE "enter"]
  /\ UNCHANGED <<rdCount, wrCount, rdEvent, wrOwner>>

ReadWait(t) ==
  /\ rdEvent /\ At(t, "wait", "enter")
  /\ UNCHANGED <<rdCount, wrCount, rdEvent, wrOwner>>

ReadEnter(t) ==
  /\ At(t, "enter", "check") /\ rdCount' = rdCount + 1
  /\ UNCHANGED <<wrCount, rdEvent, wrOwner>>

\* Mutant: a reader does not look for a writer once it has counted itself in.
ReadCheckNot(t) ==
  /\ At(t, "check", "reading")
  /\ UNCHANGED <<rdCount, wrCount, rdEvent, wrOwner>>

ReadCheck(t) ==
  /\ At(t, "check", IF wrCount # 0 THEN "back" ELSE "reading")
  /\ UNCHANGED <<rdCount, wrCount, rdEvent, wrOwner>>

\* Mutant: a reader that backs out stays counted.
ReadBackCounted(t) ==
  /\ At(t, "back", "retry")
  /\ UNCHANGED <<rdCount, wrCount, rdEvent, wrOwner>>

ReadBack(t) ==
  /\ At(t, "back", "retry") /\ rdCount' = rdCount - 1
  /\ UNCHANGED <<wrCount, rdEvent, wrOwner>>

ReadUnlock(t) ==
  /\ At(t, "reading", "idle") /\ rdCount' = rdCount - 1
  /\ UNCHANGED <<wrCount, rdEvent, wrOwner>>

-----------------------------------------------------------------------------
(* WriteLock(), WriteUnlock() *)

WriteEnter(t) ==
  /\ wrOwner = {} /\ At(t, "idle", "flag") /\ wrOwner' = {t}
  /\ UNCHANGED <<rdCount, wrCount, rdEvent>>

WriteFlag(t) ==
  /\ At(t, "flag", "reset") /\ wrCount' = 1
  /\ UNCHANGED <<rdCount, rdEvent, wrOwner>>

WriteReset(t) ==
  /\ At(t, "reset", "spin") /\ rdEvent' = FALSE
  /\ UNCHANGED <<rdCount, wrCount, wrOwner>>

WriteSpin(t) ==
  /\ rdCount = 0 /\ At(t, "spin", "writing")
  /\ UNCHANGED <<rdCount, wrCount, rdEvent, wrOwner>>

WriteUnlock(t) ==
  /\ At(t, "writing", "wake") /\ wrCount' = 0
  /\ UNCHANGED <<rdCount, rdEvent, wrOwner>>

\* Mutant: the event is not set.
WriteWakeNobody(t) ==
  /\ At(t, "wake", "leave")
  /\ UNCHANGED <<rdCount, wrCount, rdEvent, wrOwner>>

WriteWake(t) ==
  /\ At(t, "wake", "leave") /\ rdEvent' = TRUE
  /\ UNCHANGED <<rdCount, wrCount, wrOwner>>

WriteLeave(t) ==
  /\ At(t, "leave", "idle") /\ wrOwner' = {}
  /\ UNCHANGED <<rdCount, wrCount, rdEvent>>

-----------------------------------------------------------------------------
(* Steps a thread that has called takes without being asked; the calls from
   "idle" are up to the thread. *)
RWProgress(t) ==
  \/ rwPc[t] = "retry" /\ ReadStart(t)
  \/ ReadWait(t) \/ ReadEnter(t) \/ ReadCheck(t) \/ ReadBack(t) \/ ReadUnlock(t)
  \/ WriteFlag(t) \/ WriteReset(t) \/ WriteSpin(t)
  \/ WriteUnlock(t) \/ WriteWake(t) \/ WriteLeave(t)

RWStep(t) == ReadStart(t) \/ WriteEnter(t) \/ RWProgress(t)
RWNext == \E t \in Lockers : RWStep(t)
RWFairness == \A t \in Lockers : WF_rwVars(RWProgress(t))
RWSpec == RWInit /\ [][RWNext]_rwVars /\ RWFairness

-----------------------------------------------------------------------------
(* A writer is alone, although readers count themselves in before they look
   for a writer and the writer flags itself before it looks for readers. *)
WriterAlone ==
  \A t, u \in Lockers : rwPc[t] = "writing" /\ t # u => rwPc[u] \notin {"reading", "writing"}

(* Readers are not left asleep: while no writer holds or wants the lock, the
   event they wait for is set. *)
SleepersWoken == (wrOwner = {}) => rdEvent /\ wrCount = 0

(* A writer that has flagged itself gets the lock: readers that come and go,
   back out and retry cannot keep the count above zero for ever. *)
WriterGetsIn == \A t \in Lockers : (rwPc[t] = "flag") ~> (rwPc[t] = "writing")

(* Writers are alone, and nobody sleeps through the event. *)
LockSafe == WriterAlone /\ SleepersWoken
=============================================================================
