----------------------------- MODULE RefObjects -----------------------------
(***************************************************************************)
(* Reference-counted objects and the reaper that finalizes them            *)
(* (src/src/lang/RefObject.cpp, src/include/cat/lang/RefObject.hpp).       *)
(*                                                                         *)
(* An object is born with one reference, the initial one, which Destroy()  *)
(* releases.  Whoever brings the count to zero moves the object from the   *)
(* active to the dead list (Kill), and the reaper thread finalizes and     *)
(* frees what it finds there.  When the RefObjects singleton is finalized  *)
(* the reaper destroys whatever is still active, then spins over the       *)
(* active list, freeing objects as their counts reach zero, and takes one  *)
(* by force when nothing has moved for HangThreshold rounds.               *)
(*                                                                         *)
(* Threads stands for every application, worker and IO thread.  A step is  *)
(* an atomic access or a section under m_refobjects_lock, so two threads   *)
(* interleave between the decrement that reaches zero and the Kill() that  *)
(* follows it.  holders[o] says who owns the counted references of o: a    *)
(* thread, another object (a connexion owns one of its server, given back  *)
(* in OnFinalize), or Initial.  It is what the count stands for.           *)
(***************************************************************************)
EXTENDS Integers, FiniteSets

CONSTANTS Threads,        \* threads that use objects
          Objects,        \* memory for objects; each is used at most once
          Reaper,         \* the reaper thread
          Initial,        \* the owner of the reference an object is born with
          HangThreshold   \* rounds without progress before a forced finalize

ASSUME RefAssumption ==
  /\ IsFiniteSet(Threads) /\ IsFiniteSet(Objects)
  /\ Reaper \notin Threads /\ Initial \notin Threads \cup Objects
  /\ Threads \cap Objects = {}
  /\ HangThreshold \in Nat

VARIABLES
  refCount,     \* RefObject::_ref_count
  objShutdown,  \* RefObject::_shutdown
  holders,      \* owners of the counted references of each object
  active,       \* RefObjects::_active_list
  dead,         \* RefObjects::_dead_list
  shutdown,     \* RefObjects::_shutdown
  flag,         \* RefObjects::_shutdown_flag is set
  frame,        \* what each thread is in the middle of, and on which object
  reaper,       \* where the reaper is in Entrypoint()
  rest,         \* objects left of the list the reaper iterates over
  hang,         \* hang_counter
  finalized,    \* how often OnFinalize() of each object has run
  freed,        \* objects whose memory has been deleted
  forced        \* objects finalized by force

refVars == <<refCount, objShutdown, holders, active, dead, shutdown, flag,
             frame, reaper, rest, hang, finalized, freed, forced>>

Holders == Threads \cup Objects \cup {Initial}
Callers == Threads \cup {Reaper}
Idle == [op |-> "none", obj |-> Initial]
Frame(op, o) == [op |-> op, obj |-> o]

\* The object exists: it was created and its memory is still there.
Live(o) == holders[o] # {} \/ o \in active
Unborn(o) == /\ holders[o] = {} /\ o \notin active /\ o \notin freed
             /\ finalized[o] = 0 /\ ~objShutdown[o]

RefInit ==
  /\ refCount = [o \in Objects |-> 0]
  /\ objShutdown = [o \in Objects |-> FALSE]
  /\ holders = [o \in Objects |-> {}]
  /\ active = {} /\ dead = {}
  /\ shutdown = FALSE /\ flag = FALSE
  /\ frame = [t \in Callers |-> Idle]
  /\ reaper = "wait" /\ rest = {} /\ hang = 0
  /\ finalized = [o \in Objects |-> 0]
  /\ freed = {} /\ forced = {}

-----------------------------------------------------------------------------
(* RefObject *)

\* Mutant: a reference is taken of whatever is on the active list.
AddRefActive(t, u, o) ==
  /\ frame[t] = Idle
  /\ o \in active /\ u \notin holders[o] /\ o \notin forced
  /\ holders' = [holders EXCEPT ![o] = @ \cup {u}]
  /\ refCount' = [refCount EXCEPT ![o] = @ + 1]
  /\ UNCHANGED <<objShutdown, active, dead, shutdown, flag, frame, reaper,
                 rest, hang, finalized, freed, forced>>

(* A thread that owns a reference of o takes another one, for itself or to
   hand to u.  (AddRef(times) is several of these at once.) *)
AddRef(t, u, o) ==
  /\ frame[t] = Idle
  /\ t \in holders[o] /\ u \notin holders[o] /\ o \notin forced
  /\ holders' = [holders EXCEPT ![o] = @ \cup {u}]
  /\ refCount' = [refCount EXCEPT ![o] = @ + 1]
  /\ UNCHANGED <<objShutdown, active, dead, shutdown, flag, frame, reaper,
                 rest, hang, finalized, freed, forced>>

\* Mutant: the count is compared after the decrement, with <= 1.
DecrementKillsEarly(t, h, o) ==
  /\ holders' = [holders EXCEPT ![o] = @ \ {h}]
  /\ refCount' = [refCount EXCEPT ![o] = @ - 1]
  /\ frame' = [frame EXCEPT ![t] = IF refCount[o] <= 2 THEN Frame("kill", o)
                                                       ELSE Idle]

(* The atomic decrement of ReleaseRef(): h gives its reference back, and the
   caller t goes on to Kill() if the count was one. *)
Decrement(t, h, o) ==
  /\ holders' = [holders EXCEPT ![o] = @ \ {h}]
  /\ refCount' = [refCount EXCEPT ![o] = @ - 1]
  /\ frame' = [frame EXCEPT ![t] = IF refCount[o] = 1 THEN Frame("kill", o)
                                                      ELSE Idle]

ReleaseRef(t, o) ==
  /\ frame[t] = Idle /\ t \in holders[o] /\ o \notin forced
  /\ Decrement(t, t, o)
  /\ UNCHANGED <<objShutdown, active, dead, shutdown, flag, reaper, rest,
                 hang, finalized, freed, forced>>

\* Mutant: every caller of Destroy() goes on.
SetShutdownAlways(t, o) ==
  /\ objShutdown' = [objShutdown EXCEPT ![o] = TRUE]
  /\ frame' = [frame EXCEPT ![t] = Frame("destroy", o)]

(* The first caller of Destroy() raises _shutdown and goes on to OnDestroy()
   and to the release of the initial reference; any other returns. *)
SetShutdown(t, o) ==
  /\ objShutdown' = [objShutdown EXCEPT ![o] = TRUE]
  /\ frame' = [frame EXCEPT ![t] = IF objShutdown[o] THEN Idle
                                   ELSE Frame("destroy", o)]

Destroy(t, o) ==
  /\ frame[t] = Idle /\ t \in holders[o] /\ o \notin forced
  /\ SetShutdown(t, o)
  /\ UNCHANGED <<refCount, holders, active, dead, shutdown, flag, reaper,
                 rest, hang, finalized, freed, forced>>

(* OnDestroy() has run; the initial reference is released. *)
DestroyRelease(t) ==
  /\ frame[t].op = "destroy" /\ frame[t].obj \notin forced
  /\ Decrement(t, Initial, frame[t].obj)
  /\ UNCHANGED <<objShutdown, active, dead, shutdown, flag, reaper, rest,
                 hang, finalized, freed, forced>>

\* Mutant: the object leaves the active list for good.
KillForgets(t) ==
  /\ frame[t].op = "kill"
  /\ active' = IF shutdown THEN active ELSE active \ {frame[t].obj}
  /\ frame' = [frame EXCEPT ![t] = Idle]
  /\ UNCHANGED <<refCount, objShutdown, holders, dead, shutdown, flag, reaper,
                 rest, hang, finalized, freed, forced>>

(* RefObjects::Kill(), under the lock.  Once the singleton shuts down the
   pointer is not followed any more. *)
Kill(t) ==
  /\ frame[t].op = "kill"
  /\ IF shutdown
       THEN UNCHANGED <<active, dead>>
       ELSE /\ active' = active \ {frame[t].obj}
            /\ dead' = dead \cup {frame[t].obj}
  /\ frame' = [frame EXCEPT ![t] = Idle]
  /\ UNCHANGED <<refCount, objShutdown, holders, shutdown, flag, reaper, rest,
                 hang, finalized, freed, forced>>

-----------------------------------------------------------------------------
(* RefObjects *)

(* Create() and Watch() of an object whose OnInitialize() succeeds.  Its
   creator keeps a reference for itself, and the object may keep one of an
   object the creator owns a reference of (its parent). *)
Watch(t, o) ==
  /\ frame[t] = Idle /\ Unborn(o) /\ ~shutdown
  /\ active' = active \cup {o}
  /\ \E parents \in SUBSET {p \in active : t \in holders[p] /\ p \notin forced} :
       /\ Cardinality(parents) <= 1
       /\ holders' = [p \in Objects |->
                        IF p = o THEN {Initial, t}
                        ELSE IF p \in parents THEN holders[p] \cup {o}
                        ELSE holders[p]]
       /\ refCount' = [p \in Objects |->
                         IF p = o THEN 2
                         ELSE IF p \in parents THEN refCount[p] + 1
                         ELSE refCount[p]]
  /\ UNCHANGED <<objShutdown, dead, shutdown, flag, frame, reaper, rest, hang,
                 finalized, freed, forced>>

(* Watch() after the shutdown: the object is deleted at once. *)
WatchRefused(t, o) ==
  /\ frame[t] = Idle /\ Unborn(o) /\ shutdown /\ reaper # "done"
  /\ freed' = freed \cup {o}
  /\ UNCHANGED <<refCount, objShutdown, holders, active, dead, shutdown, flag,
                 frame, reaper, rest, hang, finalized, forced>>

(* RefObjects::OnFinalize(): the singleton is finalized. *)
OnFinalize ==
  /\ ~flag
  /\ flag' = TRUE
  /\ UNCHANGED <<refCount, objShutdown, holders, active, dead, shutdown,
                 frame, reaper, rest, hang, finalized, freed, forced>>

(* The reference of its parent that an object gives back in OnFinalize(). *)
Parent(o) == {p \in Objects : o \in holders[p]}

(* OnFinalize() of o runs and o is deleted; if o had a parent, the release of
   that reference may go on to Kill(). *)
FinalizeAndFree(o) ==
  /\ finalized' = [finalized EXCEPT ![o] = @ + 1]
  /\ freed' = freed \cup {o}
  /\ IF Parent(o) \ forced = {}
       THEN UNCHANGED <<refCount, holders, frame>>
       ELSE \E p \in Parent(o) \ forced : Decrement(Reaper, o, p)

\* Mutant: the dead list is copied and not emptied.
BuryDeaditesCopied(from, to) ==
  /\ reaper = from
  /\ reaper' = to /\ rest' = dead
  /\ UNCHANGED <<refCount, objShutdown, holders, active, dead, shutdown, flag,
                 frame, hang, finalized, freed, forced>>

(* BuryDeadites(): the dead list is stolen under the lock ... *)
BuryDeadites(from, to) ==
  /\ reaper = from
  /\ reaper' = to /\ rest' = dead /\ dead' = {}
  /\ UNCHANGED <<refCount, objShutdown, holders, active, shutdown, flag,
                 frame, hang, finalized, freed, forced>>

(* ... and its objects are finalized one by one, outside the lock. *)
Bury(at) ==
  /\ reaper = at /\ frame[Reaper] = Idle
  /\ \E o \in rest : FinalizeAndFree(o) /\ rest' = rest \ {o}
  /\ UNCHANGED <<objShutdown, active, dead, shutdown, flag, reaper, hang,
                 forced>>

(* The reaper moves on in Entrypoint() once a loop is through. *)
LoopDone(from, to) ==
  /\ reaper = from /\ frame[Reaper] = Idle /\ rest = {}
  /\ reaper' = to
  /\ UNCHANGED <<refCount, objShutdown, holders, active, dead, shutdown, flag,
                 frame, rest, hang, finalized, freed, forced>>

(* _shutdown_flag.Wait(513) returns false: bury; or true: shut down. *)
ReaperWakes == ~flag /\ dead # {} /\ BuryDeadites("wait", "bury")

ReaperShutdown ==
  /\ reaper = "wait" /\ flag
  /\ shutdown' = TRUE
  /\ reaper' = "destroy" /\ rest' = active
  /\ UNCHANGED <<refCount, objShutdown, holders, active, dead, flag, frame,
                 hang, finalized, freed, forced>>

(* Every object that is still active is destroyed. *)
ReaperDestroys ==
  /\ reaper = "destroy" /\ frame[Reaper] = Idle
  /\ \E o \in rest : SetShutdown(Reaper, o) /\ rest' = rest \ {o}
  /\ UNCHANGED <<refCount, holders, active, dead, shutdown, flag, reaper,
                 hang, finalized, freed, forced>>

\* Mutant: what died before the shutdown is forgotten.
ReaperBuriesNothing == /\ rest = {} /\ frame[Reaper] = Idle
                       /\ LoopDone("destroy", "buryrest")

ReaperBuriesRest == /\ rest = {} /\ frame[Reaper] = Idle
                    /\ BuryDeadites("destroy", "buryrest")

(* One round of the spin loop starts over the whole active list. *)
SpinStart ==
  /\ reaper = "spin"
  /\ reaper' = "troll" /\ rest' = active
  /\ UNCHANGED <<refCount, objShutdown, holders, active, dead, shutdown, flag,
                 frame, hang, finalized, freed, forced>>

\* Mutant: one reference left is taken for none.
SpinVisitLastOwner ==
  /\ reaper = "troll" /\ frame[Reaper] = Idle
  /\ \E o \in rest :
       /\ rest' = rest \ {o} /\ refCount[o] <= 1
       /\ active' = active \ {o}
       /\ FinalizeAndFree(o)
       /\ hang' = 0
  /\ UNCHANGED <<objShutdown, dead, shutdown, flag, reaper, forced>>

SpinVisit ==
  /\ reaper = "troll" /\ frame[Reaper] = Idle
  /\ \E o \in rest :
       /\ rest' = rest \ {o}
       /\ IF refCount[o] # 0
            THEN UNCHANGED <<refCount, holders, frame, active, hang, finalized, freed>>
            ELSE /\ active' = active \ {o}
                 /\ FinalizeAndFree(o)
                 /\ hang' = 0
  /\ UNCHANGED <<objShutdown, dead, shutdown, flag, reaper, forced>>

\* Mutant: the reaper waits for ever.
SpinEndPatient ==
  /\ reaper = "troll" /\ frame[Reaper] = Idle /\ rest = {}
  /\ reaper' = IF active = {} THEN "done" ELSE "spin"
  /\ UNCHANGED <<refCount, objShutdown, holders, active, dead, shutdown, flag,
                 frame, rest, hang, finalized, freed, forced>>

(* The end of a round: done, another round, or the object with the fewest
   references is finalized by force. *)
SpinEnd ==
  /\ reaper = "troll" /\ frame[Reaper] = Idle /\ rest = {}
  /\ \/ /\ active = {} /\ reaper' = "done"
        /\ UNCHANGED <<refCount, holders, frame, active, hang, finalized, freed, forced>>
     \/ /\ active # {} /\ hang + 1 < HangThreshold
        /\ hang' = hang + 1 /\ reaper' = "spin"
        /\ UNCHANGED <<refCount, holders, frame, active, finalized, freed, forced>>
     \/ /\ active # {} /\ hang + 1 >= HangThreshold
        /\ \E o \in active :
             /\ \A p \in active : refCount[o] <= refCount[p]
             /\ active' = active \ {o} /\ forced' = forced \cup {o}
             /\ FinalizeAndFree(o)
        /\ hang' = 0 /\ reaper' = "spin"
  /\ UNCHANGED <<objShutdown, dead, shutdown, flag, rest>>

-----------------------------------------------------------------------------
ThreadUses(t, peers) ==
  \E o \in Objects :
    \/ \E u \in peers : AddRef(t, u, o)
    \/ ReleaseRef(t, o) \/ Destroy(t, o) \/ Watch(t, o) \/ WatchRefused(t, o)

(* A thread goes on with the call it is in the middle of. *)
ThreadFinishes(t) == DestroyRelease(t) \/ Kill(t)

ReaperStep ==
  \/ ReaperWakes \/ Bury("bury") \/ LoopDone("bury", "wait")
  \/ ReaperShutdown \/ ReaperDestroys \/ ReaperBuriesRest
  \/ Bury("buryrest") \/ LoopDone("buryrest", "spin")
  \/ SpinStart \/ SpinVisit \/ SpinEnd
  \/ DestroyRelease(Reaper) \/ Kill(Reaper)

RefNext == \/ \E t \in Threads : ThreadUses(t, Threads) \/ ThreadFinishes(t)
           \/ OnFinalize \/ ReaperStep

RefSpec == RefInit /\ [][RefNext]_refVars

(* Threads are scheduled and finish their calls; no thread has to give a
   reference back. *)
RefFairness == /\ WF_refVars(ReaperStep)
               /\ \A t \in Threads : WF_refVars(ThreadFinishes(t))
RefLiveSpec == RefSpec /\ RefFairness
-----------------------------------------------------------------------------
(* Properties *)

RefTypeOK ==
  /\ refCount \in [Objects -> Nat] /\ objShutdown \in [Objects -> BOOLEAN]
  /\ holders \in [Objects -> SUBSET Holders]
  /\ active \subseteq Objects /\ freed \subseteq Objects /\ forced \subseteq Objects
  /\ dead \subseteq Objects /\ rest \subseteq Objects
  /\ shutdown \in BOOLEAN /\ flag \in BOOLEAN
  /\ frame \in [Callers -> {Idle} \cup
                  [op : {"destroy", "kill"}, obj : Objects]]
  /\ reaper \in {"wait", "bury", "destroy", "buryrest", "spin", "troll", "done"}
  /\ hang \in Nat /\ finalized \in [Objects -> Nat]

(* _ref_count is the number of owners: no reference is counted twice or lost,
   whatever threads add, release and destroy at the same time. *)
CountIsHolders ==
  \A o \in Objects \ forced : refCount[o] = Cardinality(holders[o])

(* The reaper never frees an object that somebody still has a reference of,
   except by force. *)
NotFreedWhileHeld == \A o \in freed \ forced : holders[o] = {}

(* Kill() erases its object from the active list and pushes it on the dead
   list: the object is on the first, and not yet on the second. *)
KillFindsActive ==
  ~shutdown => \A t \in Callers : frame[t].op = "kill" =>
    /\ frame[t].obj \in active \ freed
    /\ frame[t].obj \notin dead
    /\ \A u \in Callers : frame[u] = frame[t] => u = t

(* OnFinalize() runs at most once, and after OnDestroy() has returned and the
   initial reference is gone (RefObject.hpp: "Always called and after
   OnDestroy()"), except by force. *)
FinalizedOnce ==
  \A o \in Objects :
    /\ finalized[o] <= 1
    /\ finalized[o] = 1 =>
         /\ objShutdown[o]
         /\ o \notin forced => \A t \in Callers : frame[t] # Frame("destroy", o)

(* When the reaper returns, every object that was ever watched is freed. *)
NothingLeft ==
  reaper = "done" => \A o \in Objects : o \in freed \/ Unborn(o)

(* A count that has reached zero never rises again (until the memory is
   reused, which is not modelled). *)
ZeroIsFinal ==
  [][\A o \in Objects : objShutdown[o] /\ refCount[o] = 0 => refCount'[o] = 0]_refVars

(* An object that was destroyed and has no owner left is freed in the end. *)
Reclaimed ==
  \A o \in Objects : (objShutdown[o] /\ holders[o] = {}) ~> o \in freed

(* Finalizing the singleton ends, even if some thread never gives its
   references back. *)
ShutdownEnds == flag ~> reaper = "done"

(* Counts, lists and the reaper agree on who owns and who is dead. *)
ObjectsSafe == /\ RefTypeOK /\ CountIsHolders /\ KillFindsActive
               /\ FinalizedOnce /\ NothingLeft
=============================================================================
