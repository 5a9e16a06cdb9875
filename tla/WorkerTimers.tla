---------------------------- MODULE WorkerTimers ----------------------------
(***************************************************************************)
(* The timers of a worker thread, which own references of reference-       *)
(* counted objects (src/src/threads/WorkerThreads.cpp), composed with      *)
(* RefObjects.                                                             *)
(*                                                                         *)
(* Any thread may associate an object with the worker: the object goes     *)
(* into _new_timers under a lock, and the reference for it is taken after  *)
(* the lock is released.  The worker's tick calls back every timer whose   *)
(* object is not shut down, gives the reference of the others back, and    *)
(* then merges the new timers.  References owned by timers belong to the   *)
(* thread Worker in the sense of RefObjects.holders.                       *)
(***************************************************************************)
EXTENDS RefObjects, Sequences

CONSTANTS Worker,    \* the worker thread, one of Threads
          NoObject,
          Overlap    \* may an object be destroyed while it is being associated?

ASSUME TimerAssumption == Worker \in Threads /\ NoObject \notin Objects /\ Overlap \in BOOLEAN

VARIABLES
  newTimers,   \* _new_timers
  timers,      \* _timers
  assoc,       \* the object each thread has published in Associate() but not
               \* yet taken the reference for
  worker,      \* where the worker is: in its loop, in TickTimers(), or gone
  ii,          \* the loop index of TickTimers(), from 1
  called,      \* timers the running tick has called back or released
  kill_flag     \* _kill_flag

timerVars == <<newTimers, timers, assoc, worker, ii, called, kill_flag>>
allVars == <<refVars, timerVars>>

Users == Threads \ {Worker}
RangeOf(s) == {s[k] : k \in 1 .. Len(s)}

TimerInit ==
  /\ RefInit
  /\ newTimers = <<>> /\ timers = <<>>
  /\ assoc = [t \in Users |-> NoObject]
  /\ worker = "loop" /\ ii = 1 /\ called = {} /\ kill_flag = FALSE

(* Associate(), up to the release of _new_timers_lock.  The caller owns a
   reference of the object, an object has one timer, and nobody asks for one
   once the worker threads are being finalized. *)
Associate(t, o) ==
  /\ frame[t] = Idle /\ assoc[t] = NoObject /\ ~kill_flag
  /\ t \in holders[o] /\ o \notin forced
  /\ o \notin RangeOf(newTimers) \cup RangeOf(timers) /\ Worker \notin holders[o]
  /\ \A u \in Users : assoc[u] # o
  /\ Overlap \/ ~objShutdown[o]
  /\ newTimers' = Append(newTimers, o)
  /\ assoc' = [assoc EXCEPT ![t] = o]
  /\ UNCHANGED <<refVars, timers, worker, ii, called, kill_flag>>

(* object->AddRef() at the end of Associate(). *)
AssociateAddRef(t) ==
  /\ assoc[t] # NoObject /\ assoc[t] \notin forced
  /\ refCount' = [refCount EXCEPT ![assoc[t]] = @ + 1]
  /\ holders' = [holders EXCEPT ![assoc[t]] = @ \cup {Worker}]
  /\ assoc' = [assoc EXCEPT ![t] = NoObject]
  /\ UNCHANGED <<objShutdown, active, dead, shutdown, flag, frame, reaper,
                 rest, hang, finalized, freed, forced, newTimers, timers,
                 worker, ii, called, kill_flag>>

(* The tick is due: TickTimers() starts. *)
TickStart ==
  /\ worker = "loop" /\ ~kill_flag
  /\ worker' = "tick" /\ ii' = 1 /\ called' = {}
  /\ UNCHANGED <<refVars, newTimers, timers, assoc, kill_flag>>

\* Mutant: the array is not shortened.
RemoveTimerKept(k) == timers' = timers

(* The timer at ii is released and overwritten by the last one, which is then
   visited next ... *)
RemoveTimer(k) ==
  timers' = SubSeq([timers EXCEPT ![k] = timers[Len(timers)]], 1, Len(timers) - 1)

\* Mutant: the loop index moves on past the timer that was moved to ii.
TickReleasesSkips ==
  /\ worker = "tick" /\ frame[Worker] = Idle /\ ii <= Len(timers)
  /\ timers[ii] \notin forced /\ objShutdown[timers[ii]]
  /\ Decrement(Worker, Worker, timers[ii])
  /\ RemoveTimer(ii)
  /\ called' = called \cup {timers[ii]} /\ ii' = ii + 1
  /\ UNCHANGED <<objShutdown, active, dead, shutdown, flag, reaper, rest, hang,
                 finalized, freed, forced, newTimers, assoc, worker, kill_flag>>

\* Mutant: the timer goes and its reference stays.
TickReleasesNothing ==
  /\ worker = "tick" /\ frame[Worker] = Idle /\ ii <= Len(timers)
  /\ timers[ii] \notin forced /\ objShutdown[timers[ii]]
  /\ RemoveTimer(ii)
  /\ called' = called \cup {timers[ii]}
  /\ UNCHANGED <<refVars, newTimers, assoc, worker, ii, kill_flag>>

TickReleases ==
  /\ worker = "tick" /\ frame[Worker] = Idle /\ ii <= Len(timers)
  /\ timers[ii] \notin forced /\ objShutdown[timers[ii]]
  /\ Decrement(Worker, Worker, timers[ii])
  /\ RemoveTimer(ii)
  /\ called' = called \cup {timers[ii]}
  /\ UNCHANGED <<objShutdown, active, dead, shutdown, flag, reaper, rest, hang,
                 finalized, freed, forced, newTimers, assoc, worker, ii,
                 kill_flag>>

(* ... or its callback runs. *)
TickCalls ==
  /\ worker = "tick" /\ frame[Worker] = Idle /\ ii <= Len(timers)
  /\ timers[ii] \notin forced /\ ~objShutdown[timers[ii]]
  /\ called' = called \cup {timers[ii]}
  /\ ii' = ii + 1
  /\ UNCHANGED <<refVars, newTimers, timers, assoc, worker, kill_flag>>

(* After the loop the new timers are merged; if the array cannot grow they
   stay where they are until the next tick. *)
TickMerge ==
  /\ worker = "tick" /\ frame[Worker] = Idle /\ ii > Len(timers)
  /\ timers' = timers \o newTimers /\ newTimers' = <<>>
  /\ worker' = "loop" /\ called' = {} /\ ii' = 1
  /\ UNCHANGED <<refVars, assoc, kill_flag>>

TickMergeFails ==
  /\ worker = "tick" /\ frame[Worker] = Idle /\ ii > Len(timers)
  /\ newTimers # <<>>
  /\ worker' = "loop" /\ called' = {} /\ ii' = 1
  /\ UNCHANGED <<refVars, newTimers, timers, assoc, kill_flag>>

(* WorkerThreads::OnFinalize().  The RefObjects singleton was finalized
   before, but its wait for the reaper may have timed out. *)
SetKillFlag ==
  /\ flag /\ ~kill_flag
  /\ kill_flag' = TRUE
  /\ UNCHANGED <<refVars, newTimers, timers, assoc, worker, ii, called>>

(* The end of Entrypoint(): the references of _timers are given back, those
   of _new_timers are not. *)
WorkerExit ==
  /\ worker = "loop" /\ kill_flag
  /\ worker' = "exit" /\ ii' = 1
  /\ UNCHANGED <<refVars, newTimers, timers, assoc, called, kill_flag>>

ExitReleases ==
  /\ worker = "exit" /\ frame[Worker] = Idle /\ ii <= Len(timers)
  /\ timers[ii] \notin forced
  /\ Decrement(Worker, Worker, timers[ii])
  /\ ii' = ii + 1
  /\ UNCHANGED <<objShutdown, active, dead, shutdown, flag, reaper, rest, hang,
                 finalized, freed, forced, newTimers, timers, assoc, worker,
                 called, kill_flag>>

ExitDone ==
  /\ worker = "exit" /\ frame[Worker] = Idle /\ ii > Len(timers)
  /\ worker' = "gone" /\ timers' = <<>> /\ ii' = 1
  /\ UNCHANGED <<refVars, newTimers, assoc, called, kill_flag>>

WorkerStep == \/ TickStart \/ TickReleases \/ TickCalls \/ TickMerge \/ TickMergeFails
              \/ WorkerExit \/ ExitReleases \/ ExitDone

-----------------------------------------------------------------------------
UserStep(t) ==
  \/ assoc[t] = NoObject /\ ThreadUses(t, Users) /\ UNCHANGED timerVars
  \/ ThreadFinishes(t) /\ UNCHANGED timerVars
  \/ \E o \in Objects : Associate(t, o)
  \/ AssociateAddRef(t)

(* Without Overlap no object is destroyed, and the worker does not exit,
   between the publication in _new_timers and the AddRef() that follows. *)
Quiet ==
  Overlap \/ \A t \in Users : assoc[t] # NoObject =>
               ~objShutdown'[assoc[t]] /\ worker' # "exit"

RefStep(A) == A /\ UNCHANGED timerVars /\ Quiet

TimerNext ==
  \/ \E t \in Users : UserStep(t) /\ Quiet
  \/ WorkerStep /\ Quiet
  \/ SetKillFlag
  \/ RefStep(OnFinalize) \/ RefStep(ReaperStep) \/ RefStep(ThreadFinishes(Worker))

(* Every thread is scheduled and finishes its calls, and memory for the
   merged timers is not refused for ever. *)
TimerFairness ==
  /\ WF_allVars(RefStep(ReaperStep))
  /\ WF_allVars((WorkerStep /\ Quiet) \/ RefStep(ThreadFinishes(Worker)))
  /\ SF_allVars(TickMerge)
  /\ \A t \in Users : WF_allVars(AssociateAddRef(t) \/ RefStep(ThreadFinishes(t)))

TimerSpec == TimerInit /\ [][TimerNext]_allVars /\ TimerFairness

-----------------------------------------------------------------------------
TimerTypeOK ==
  /\ newTimers \in Seq(Objects) /\ timers \in Seq(Objects)
  /\ assoc \in [Users -> Objects \cup {NoObject}]
  /\ worker \in {"loop", "tick", "exit", "gone"}
  /\ ii \in 1 .. Len(timers) + 1 /\ called \subseteq Objects /\ kill_flag \in BOOLEAN

(* What the worker follows a pointer to is still there: every timer in either
   array owns a reference, apart from one that is being associated. *)
TimerObjectsLive ==
  worker # "exit" =>
    \A o \in (RangeOf(timers) \cup RangeOf(newTimers)) \ forced :
      /\ o \notin freed
      /\ Worker \in holders[o] \/ \E t \in Users : assoc[t] = o

(* TickTimers() visits every timer once in a tick, also when it removes some
   on the way: what is left to visit was not visited before, and no timer
   that is still there is skipped. *)
TickVisitsOnce ==
  worker = "tick" =>
    /\ \A k \in 1 .. Len(timers) : timers[k] \in called <=> k < ii
    /\ Cardinality(RangeOf(timers)) = Len(timers)

(* A destroyed object does not keep its timer: its reference is given back,
   unless the worker is killed or an object had to be taken by force. *)
TimerReleased ==
  \A o \in Objects :
    (objShutdown[o] /\ Worker \in holders[o]) ~>
      (Worker \notin holders[o] \/ forced # {} \/ kill_flag)

(* The two arrays of timers are walked and changed without losing a timer or
   touching an object that is gone, and no object goes that somebody holds. *)
TimersSafe == TimerTypeOK /\ TimerObjectsLive /\ TickVisitsOnce /\ NotFreedWhileHeld
=============================================================================
