--------------------------- MODULE LifetimeProofs ---------------------------
(***************************************************************************)
(* Proofs about reference-counted objects (RefObjects) and the timers of a  *)
(* worker thread (WorkerTimers), for any finite sets of threads and         *)
(* objects.  The counts are exact, Kill() and the reaper find objects on    *)
(* the lists they expect, and a count that has reached zero stays there.    *)
(* When no object is destroyed while it is being associated (~Overlap)      *)
(* every step of the timers is one of RefObjects, so what is proved of      *)
(* reference-counted objects holds of their timers too.  Last, that the     *)
(* worker never sleeps on a delivery and that its filter hands every buffer *)
(* over once and in order (WorkQueue), and that linked lists (LinkedLists)  *)
(* hold what they should and their iterators miss nothing.                  *)
(***************************************************************************)
EXTENDS WorkerTimers, WorkQueue, LinkedLists, FiniteSetTheorems, SequenceTheorems, TLAPS

-----------------------------------------------------------------------------
(* Reference-counted objects *)


Burying == reaper \in {"bury", "buryrest"}
Visiting == reaper \in {"destroy", "troll"}

(* Owners.  Whoever owns a reference keeps the object on the active list; until
   Destroy() the initial reference is one of them; and only an object that was
   born owns a reference of another. *)
OwnedIsActive == \A o \in Objects \ forced : holders[o] # {} => o \in active
StillInitial == \A o \in active : ~objShutdown[o] => Initial \in holders[o]
OwnersBorn == \A p, o \in Objects :
                o \in holders[p] => o \in active \cup freed \/ objShutdown[o]
Owners == RefTypeOK /\ CountIsHolders /\ OwnedIsActive /\ StillInitial /\ OwnersBorn

(* Calls.  One thread at most is between raising _shutdown and releasing the
   initial reference, and one between reaching zero and Kill(). *)
OneDestroyer ==
  \A t \in Callers : frame[t].op = "destroy" =>
    /\ objShutdown[frame[t].obj]
    /\ frame[t].obj \notin forced => Initial \in holders[frame[t].obj]
    /\ \A u \in Callers : frame[u] = frame[t] => u = t
OneKiller ==
  ~shutdown => \A t \in Callers : frame[t].op = "kill" =>
    /\ frame[t].obj \in active
    /\ holders[frame[t].obj] = {} /\ objShutdown[frame[t].obj]
    /\ \A u \in Callers : frame[u] = frame[t] => u = t
Calls == OneDestroyer /\ OneKiller

(* Lists.  An object is on one list at a time, the reaper works on objects that
   are nobody else's, and each phase of Entrypoint() leaves less behind. *)
ListsApart ==
  /\ active \cap dead = {} /\ active \cap freed = {} /\ dead \cap freed = {}
  /\ Burying => rest \cap (active \cup dead \cup freed) = {}
  /\ Visiting => rest \subseteq active
  /\ ~Burying /\ ~Visiting => rest = {}
  /\ forced \subseteq freed
DeadAreDone ==
  \A o \in dead \cup (IF Burying THEN rest ELSE {}) :
     objShutdown[o] /\ holders[o] = {}
Stages ==
  /\ shutdown <=> reaper \notin {"wait", "bury"}
  /\ ~shutdown => forced = {}
  /\ reaper \in {"buryrest", "spin", "troll", "done"} =>
       dead = {} /\ \A o \in active : objShutdown[o]
  /\ reaper = "destroy" => \A o \in active \ rest : objShutdown[o]
  /\ reaper = "done" => active = {}
FinalizedFreed ==
  \A o \in Objects : /\ finalized[o] <= 1
                     /\ finalized[o] = 1 => o \in freed /\ objShutdown[o]
Somewhere == \A o \in Objects : Unborn(o) \/ o \in active \cup dead \cup freed \cup rest
Lists == ListsApart /\ DeadAreDone /\ Stages /\ FinalizedFreed /\ Somewhere

RefInv == Owners /\ Calls /\ Lists

-----------------------------------------------------------------------------
(* The owners of an object are finitely many, and one more is counted once. *)
LEMMA OwnersCounted ==
  ASSUME RefTypeOK, NEW o \in Objects, NEW u
  PROVE  /\ IsFiniteSet(holders[o]) /\ Cardinality(holders[o]) \in Nat
         /\ u \notin holders[o] =>
              Cardinality(holders[o] \cup {u}) = Cardinality(holders[o]) + 1
<1>1. IsFiniteSet(Holders)
  BY RefAssumption, FS_Union, FS_AddElement DEF Holders
<1>2. IsFiniteSet(holders[o])
  BY <1>1, FS_Subset DEF RefTypeOK
<1> QED BY <1>2, FS_CardinalityType, FS_AddElement

(* An owner that leaves is counted off, and was the last if the count was 1. *)
LEMMA OwnerLeaves ==
  ASSUME RefTypeOK, NEW o \in Objects, NEW h \in holders[o]
  PROVE  /\ Cardinality(holders[o]) \in Nat \ {0}
         /\ Cardinality(holders[o] \ {h}) = Cardinality(holders[o]) - 1
         /\ Cardinality(holders[o]) = 1 <=> holders[o] = {h}
<1>1. IsFiniteSet(holders[o]) /\ Cardinality(holders[o]) \in Nat
  BY OwnersCounted
<1>2. /\ IsFiniteSet(holders[o] \ {h})
      /\ Cardinality(holders[o] \ {h}) = Cardinality(holders[o]) - 1
  BY <1>1, FS_RemoveElement
<1>3. Cardinality(holders[o] \ {h}) = 0 <=> holders[o] \ {h} = {}
  BY <1>2, FS_EmptySet
<1>4. Cardinality(holders[o]) # 0
  BY <1>1, FS_EmptySet
<1> QED BY <1>1, <1>2, <1>3, <1>4

(* What the atomic decrement does, in terms of the owners alone: the caller goes
   on to Kill() exactly if h was the last one. *)
GivenBy(t, h, o) ==
  /\ refCount' \in [Objects -> Nat]
  /\ \A p \in Objects \ forced : refCount'[p] = Cardinality(holders'[p])
  /\ holders' = [holders EXCEPT ![o] = @ \ {h}]
  /\ frame' = [frame EXCEPT ![t] = IF holders[o] = {h} THEN Frame("kill", o) ELSE Idle]

(* The decrement of ReleaseRef() by an owner. *)
LEMMA Released ==
  ASSUME RefTypeOK, CountIsHolders, NEW t \in Callers, NEW o \in Objects \ forced,
         NEW h \in holders[o], Decrement(t, h, o)
  PROVE  GivenBy(t, h, o)
<1>1. /\ Cardinality(holders[o]) \in Nat \ {0}
      /\ Cardinality(holders[o] \ {h}) = Cardinality(holders[o]) - 1
      /\ Cardinality(holders[o]) = 1 <=> holders[o] = {h}
  BY OwnerLeaves
<1>2. refCount[o] = Cardinality(holders[o])
  BY DEF CountIsHolders
<1>3. holders'[o] = holders[o] \ {h} /\ \A p \in Objects \ {o} : holders'[p] = holders[p]
  BY DEF Decrement, RefTypeOK
<1>4. refCount' \in [Objects -> Nat]
  <2>1. refCount[o] - 1 \in Nat
    BY <1>1, <1>2
  <2>2. refCount \in [Objects -> Nat] /\ refCount' = [refCount EXCEPT ![o] = refCount[o] - 1]
    BY DEF Decrement, RefTypeOK
  <2> QED BY <2>1, <2>2
<1>5. \A p \in Objects \ forced : refCount'[p] = Cardinality(holders'[p])
  BY <1>1, <1>2, <1>3 DEF Decrement, RefTypeOK, CountIsHolders
<1> QED BY <1>1, <1>2, <1>4, <1>5 DEF Decrement, GivenBy

ParentGivenBack(o) ==
  \/ UNCHANGED <<refCount, holders, frame>>
  \/ \E p \in Objects \ forced : o \in holders[p] /\ GivenBy(Reaper, o, p)

(* An object that is finalized gives back the reference of its parent. *)
LEMMA Finalizing ==
  ASSUME RefTypeOK, CountIsHolders, NEW o \in Objects, FinalizeAndFree(o)
  PROVE  ParentGivenBack(o)
<1>1. CASE UNCHANGED <<refCount, holders, frame>>
  BY <1>1 DEF ParentGivenBack
<1>2. CASE \E p \in Parent(o) \ forced : Decrement(Reaper, o, p)
  <2>1. PICK p \in Parent(o) \ forced : Decrement(Reaper, o, p)
    BY <1>2
  <2>2. p \in Objects \ forced /\ o \in holders[p] /\ Reaper \in Callers
    BY DEF Parent, Callers
  <2> QED BY <2>1, <2>2, Released DEF ParentGivenBack
<1> QED BY <1>1, <1>2 DEF FinalizeAndFree

-----------------------------------------------------------------------------
(* The invariant holds at first, and every step keeps it. *)

(* AddRef: the owner of a reference takes another one. *)
LEMMA AddRefKeeps ==
  ASSUME RefInv, NEW t \in Threads, NEW u \in Threads, NEW o \in Objects, AddRef(t, u, o)
  PROVE  RefInv'
<1>1. Owners'
  BY OwnersCounted, RefAssumption DEF RefInv, Owners, Calls, Lists, RefTypeOK,
       CountIsHolders, OwnedIsActive, StillInitial, OwnersBorn, OneDestroyer,
       OneKiller, ListsApart, DeadAreDone, Stages, FinalizedFreed, Somewhere,
       Unborn, Burying, Visiting, Callers, Idle, Frame, Holders, AddRef
<1>2. Calls'
  BY OwnersCounted, RefAssumption DEF RefInv, Owners, Calls, Lists, RefTypeOK,
       CountIsHolders, OwnedIsActive, StillInitial, OwnersBorn, OneDestroyer,
       OneKiller, ListsApart, DeadAreDone, Stages, FinalizedFreed, Somewhere,
       Unborn, Burying, Visiting, Callers, Idle, Frame, Holders, AddRef
<1>3. Lists'
  BY OwnersCounted, RefAssumption DEF RefInv, Owners, Calls, Lists, RefTypeOK,
       CountIsHolders, OwnedIsActive, StillInitial, OwnersBorn, OneDestroyer,
       OneKiller, ListsApart, DeadAreDone, Stages, FinalizedFreed, Somewhere,
       Unborn, Burying, Visiting, Callers, Idle, Frame, Holders, AddRef
<1> QED BY <1>1, <1>2, <1>3 DEF RefInv

(* ReleaseRef: a thread gives its own reference back. *)
LEMMA ReleaseRefKeeps ==
  ASSUME RefInv, NEW t \in Threads, NEW o \in Objects, ReleaseRef(t, o)
  PROVE  RefInv'
<1>1. /\ t \in Callers /\ o \in Objects \ forced
      /\ t \in holders[o] /\ Decrement(t, t, o)
  BY DEF RefInv, Owners, Calls, RefTypeOK, OneDestroyer, Callers, Idle, ReleaseRef
<1>2. GivenBy(t, t, o)
  BY <1>1, Released DEF RefInv, Owners
<1>3. Owners'
  <2>1. RefTypeOK'
    BY <1>1, <1>2, RefAssumption DEF RefInv, Owners, Calls, Lists, RefTypeOK,
         Holders, Callers, Idle, Frame, ReleaseRef, GivenBy
  <2>2. CountIsHolders'
    BY <1>1, <1>2, RefAssumption DEF RefInv, Owners, Calls, Lists, RefTypeOK,
         CountIsHolders, ReleaseRef, GivenBy
  <2>3. OwnedIsActive'
    BY <1>1, <1>2, RefAssumption DEF RefInv, Owners, Calls, Lists, RefTypeOK,
         OwnedIsActive, ListsApart, Callers, Idle, ReleaseRef, GivenBy
  <2>4. StillInitial'
    BY <1>1, <1>2, RefAssumption DEF RefInv, Owners, Calls, Lists, RefTypeOK,
         StillInitial, OneDestroyer, OwnedIsActive, Callers, Idle, Frame,
         ReleaseRef, GivenBy
  <2>5. OwnersBorn'
    BY <1>1, <1>2, RefAssumption DEF RefInv, Owners, Calls, Lists, RefTypeOK,
         OwnersBorn, Callers, Idle, ReleaseRef, GivenBy
  <2> QED BY <2>1, <2>2, <2>3, <2>4, <2>5 DEF Owners
<1>4. Calls'
  BY <1>1, <1>2, RefAssumption DEF RefInv, Owners, Calls, Lists, RefTypeOK,
       CountIsHolders, OwnedIsActive, StillInitial, OwnersBorn, OneDestroyer,
       OneKiller, ListsApart, DeadAreDone, Stages, FinalizedFreed, Somewhere,
       Unborn, Burying, Visiting, Callers, Idle, Frame, Holders, ReleaseRef,
       GivenBy
<1>5. Lists'
  BY <1>1, <1>2, RefAssumption DEF RefInv, Owners, Calls, Lists, RefTypeOK,
       CountIsHolders, OwnedIsActive, StillInitial, OwnersBorn, OneDestroyer,
       OneKiller, ListsApart, DeadAreDone, Stages, FinalizedFreed, Somewhere,
       Unborn, Burying, Visiting, Callers, Idle, Frame, Holders, ReleaseRef,
       GivenBy
<1> QED BY <1>3, <1>4, <1>5 DEF RefInv

(* Destroy: only the first caller goes on to release the initial reference. *)
LEMMA DestroyKeeps ==
  ASSUME RefInv, NEW t \in Threads, NEW o \in Objects, Destroy(t, o)
  PROVE  RefInv'
<1>1. Owners'
  BY RefAssumption DEF RefInv, Owners, Calls, Lists, RefTypeOK, CountIsHolders,
       OwnedIsActive, StillInitial, OwnersBorn, OneDestroyer, OneKiller,
       ListsApart, DeadAreDone, Stages, FinalizedFreed, Somewhere, Unborn,
       Burying, Visiting, Callers, Idle, Frame, Holders, Destroy, SetShutdown
<1>2. Calls'
  BY RefAssumption DEF RefInv, Owners, Calls, Lists, RefTypeOK, CountIsHolders,
       OwnedIsActive, StillInitial, OwnersBorn, OneDestroyer, OneKiller,
       ListsApart, DeadAreDone, Stages, FinalizedFreed, Somewhere, Unborn,
       Burying, Visiting, Callers, Idle, Frame, Holders, Destroy, SetShutdown
<1>3. Lists'
  BY RefAssumption DEF RefInv, Owners, Calls, Lists, RefTypeOK, CountIsHolders,
       OwnedIsActive, StillInitial, OwnersBorn, OneDestroyer, OneKiller,
       ListsApart, DeadAreDone, Stages, FinalizedFreed, Somewhere, Unborn,
       Burying, Visiting, Callers, Idle, Frame, Holders, Destroy, SetShutdown
<1> QED BY <1>1, <1>2, <1>3 DEF RefInv

(* DestroyRelease: the initial reference is given back, once. *)
LEMMA DestroyReleaseKeeps ==
  ASSUME RefInv, NEW t \in Callers, DestroyRelease(t)
  PROVE  RefInv'
<1>1. /\ t \in Callers /\ frame[t].obj \in Objects \ forced
      /\ Initial \in holders[frame[t].obj] /\ Decrement(t, Initial, frame[t].obj)
  BY DEF RefInv, Owners, Calls, RefTypeOK, OneDestroyer, Callers, Idle, DestroyRelease
<1>2. GivenBy(t, Initial, frame[t].obj)
  BY <1>1, Released DEF RefInv, Owners
<1>3. Owners'
  <2>1. RefTypeOK'
    BY <1>1, <1>2, RefAssumption DEF RefInv, Owners, Calls, Lists, RefTypeOK,
         Holders, Callers, Idle, Frame, DestroyRelease, GivenBy
  <2>2. CountIsHolders'
    BY <1>1, <1>2, RefAssumption DEF RefInv, Owners, Calls, Lists, RefTypeOK,
         CountIsHolders, DestroyRelease, GivenBy
  <2>3. OwnedIsActive'
    BY <1>1, <1>2, RefAssumption DEF RefInv, Owners, Calls, Lists, RefTypeOK,
         OwnedIsActive, ListsApart, Callers, Idle, DestroyRelease, GivenBy
  <2>4. StillInitial'
    BY <1>1, <1>2, RefAssumption DEF RefInv, Owners, Calls, Lists, RefTypeOK,
         StillInitial, OneDestroyer, OwnedIsActive, Callers, Idle, Frame,
         DestroyRelease, GivenBy
  <2>5. OwnersBorn'
    BY <1>1, <1>2, RefAssumption DEF RefInv, Owners, Calls, Lists, RefTypeOK,
         OwnersBorn, Callers, Idle, DestroyRelease, GivenBy
  <2> QED BY <2>1, <2>2, <2>3, <2>4, <2>5 DEF Owners
<1>4. Calls'
  BY <1>1, <1>2, RefAssumption DEF RefInv, Owners, Calls, Lists, RefTypeOK,
       CountIsHolders, OwnedIsActive, StillInitial, OwnersBorn, OneDestroyer,
       OneKiller, ListsApart, DeadAreDone, Stages, FinalizedFreed, Somewhere,
       Unborn, Burying, Visiting, Callers, Idle, Frame, Holders,
       DestroyRelease, GivenBy
<1>5. Lists'
  BY <1>1, <1>2, RefAssumption DEF RefInv, Owners, Calls, Lists, RefTypeOK,
       CountIsHolders, OwnedIsActive, StillInitial, OwnersBorn, OneDestroyer,
       OneKiller, ListsApart, DeadAreDone, Stages, FinalizedFreed, Somewhere,
       Unborn, Burying, Visiting, Callers, Idle, Frame, Holders,
       DestroyRelease, GivenBy
<1> QED BY <1>3, <1>4, <1>5 DEF RefInv

(* Kill: only the thread that took the count to zero gets here, so the object is active and unowned. *)
LEMMA KillKeeps ==
  ASSUME RefInv, NEW t \in Callers, Kill(t)
  PROVE  RefInv'
<1>1. Owners'
  BY RefAssumption DEF RefInv, Owners, Calls, Lists, RefTypeOK, CountIsHolders,
       OwnedIsActive, StillInitial, OwnersBorn, OneDestroyer, OneKiller,
       ListsApart, DeadAreDone, Stages, FinalizedFreed, Somewhere, Unborn,
       Burying, Visiting, Callers, Idle, Frame, Holders, Kill
<1>2. Calls'
  BY RefAssumption DEF RefInv, Owners, Calls, Lists, RefTypeOK, CountIsHolders,
       OwnedIsActive, StillInitial, OwnersBorn, OneDestroyer, OneKiller,
       ListsApart, DeadAreDone, Stages, FinalizedFreed, Somewhere, Unborn,
       Burying, Visiting, Callers, Idle, Frame, Holders, Kill
<1>3. Lists'
  BY RefAssumption DEF RefInv, Owners, Calls, Lists, RefTypeOK, CountIsHolders,
       OwnedIsActive, StillInitial, OwnersBorn, OneDestroyer, OneKiller,
       ListsApart, DeadAreDone, Stages, FinalizedFreed, Somewhere, Unborn,
       Burying, Visiting, Callers, Idle, Frame, Holders, Kill
<1> QED BY <1>1, <1>2, <1>3 DEF RefInv

(* Watch: a new object, and possibly one more reference of its parent. *)
LEMMA WatchKeeps ==
  ASSUME RefInv, NEW t \in Threads, NEW o \in Objects, Watch(t, o)
  PROVE  RefInv'
<1>1. PICK parents \in SUBSET {p \in active : t \in holders[p] /\ p \notin forced} :
        /\ holders' = [p \in Objects |-> IF p = o THEN {Initial, t}
                        ELSE IF p \in parents THEN holders[p] \cup {o} ELSE holders[p]]
        /\ refCount' = [p \in Objects |-> IF p = o THEN 2
                         ELSE IF p \in parents THEN refCount[p] + 1 ELSE refCount[p]]
  BY DEF Watch
<1>2. \A p \in Objects : o \notin holders[p]
  BY DEF RefInv, Owners, OwnersBorn, Watch, Unborn
<1>3. Cardinality({Initial, t}) = 2
  <2>1. IsFiniteSet({Initial}) /\ Cardinality({Initial}) = 1
    BY FS_Singleton
  <2>2. t \notin {Initial} /\ {Initial, t} = {Initial} \cup {t}
    BY RefAssumption
  <2> QED BY <2>1, <2>2, FS_AddElement, SMTT(40)
<1>4. ASSUME NEW p \in Objects \ forced PROVE refCount'[p] = Cardinality(holders'[p])
  <2>1. CASE p = o
    BY <1>1, <1>3, <2>1
  <2>2. CASE p # o /\ p \in parents
    <3>1. Cardinality(holders[p] \cup {o}) = Cardinality(holders[p]) + 1
      BY <1>2, OwnersCounted DEF RefInv, Owners
    <3> QED BY <1>1, <2>2, <3>1 DEF RefInv, Owners, CountIsHolders
  <2>3. CASE p # o /\ p \notin parents
    BY <1>1, <2>3 DEF RefInv, Owners, CountIsHolders
  <2> QED BY <2>1, <2>2, <2>3
<1>5. CountIsHolders'
  BY <1>4 DEF CountIsHolders, Watch
<1>6. Owners'
  BY <1>1, <1>5, RefAssumption DEF RefInv, Owners, Calls, Lists, RefTypeOK,
       OwnedIsActive, StillInitial, OwnersBorn, OneDestroyer, OneKiller,
       ListsApart, DeadAreDone, Stages, FinalizedFreed, Somewhere, Unborn,
       Burying, Visiting, Callers, Idle, Frame, Holders, Watch
<1>7. Calls'
  BY <1>1, <1>5, RefAssumption DEF RefInv, Owners, Calls, Lists, RefTypeOK,
       OwnedIsActive, StillInitial, OwnersBorn, OneDestroyer, OneKiller,
       ListsApart, DeadAreDone, Stages, FinalizedFreed, Somewhere, Unborn,
       Burying, Visiting, Callers, Idle, Frame, Holders, Watch
<1>8. Lists'
  BY <1>1, <1>5, RefAssumption DEF RefInv, Owners, Calls, Lists, RefTypeOK,
       OwnedIsActive, StillInitial, OwnersBorn, OneDestroyer, OneKiller,
       ListsApart, DeadAreDone, Stages, FinalizedFreed, Somewhere, Unborn,
       Burying, Visiting, Callers, Idle, Frame, Holders, Watch
<1> QED BY <1>6, <1>7, <1>8 DEF RefInv

(* WatchRefused: a new object that is deleted at once. *)
LEMMA WatchRefusedKeeps ==
  ASSUME RefInv, NEW t \in Threads, NEW o \in Objects, WatchRefused(t, o)
  PROVE  RefInv'
<1>1. Owners'
  BY RefAssumption DEF RefInv, Owners, Calls, Lists, RefTypeOK, CountIsHolders,
       OwnedIsActive, StillInitial, OwnersBorn, OneDestroyer, OneKiller,
       ListsApart, DeadAreDone, Stages, FinalizedFreed, Somewhere, Unborn,
       Burying, Visiting, Callers, Idle, Frame, Holders, WatchRefused
<1>2. Calls'
  BY RefAssumption DEF RefInv, Owners, Calls, Lists, RefTypeOK, CountIsHolders,
       OwnedIsActive, StillInitial, OwnersBorn, OneDestroyer, OneKiller,
       ListsApart, DeadAreDone, Stages, FinalizedFreed, Somewhere, Unborn,
       Burying, Visiting, Callers, Idle, Frame, Holders, WatchRefused
<1>3. Lists'
  BY RefAssumption DEF RefInv, Owners, Calls, Lists, RefTypeOK, CountIsHolders,
       OwnedIsActive, StillInitial, OwnersBorn, OneDestroyer, OneKiller,
       ListsApart, DeadAreDone, Stages, FinalizedFreed, Somewhere, Unborn,
       Burying, Visiting, Callers, Idle, Frame, Holders, WatchRefused
<1> QED BY <1>1, <1>2, <1>3 DEF RefInv

(* OnFinalize: only the flag changes. *)
LEMMA OnFinalizeKeeps ==
  ASSUME RefInv, OnFinalize
  PROVE  RefInv'
<1>1. Owners'
  BY RefAssumption DEF RefInv, Owners, Calls, Lists, RefTypeOK, CountIsHolders,
       OwnedIsActive, StillInitial, OwnersBorn, OneDestroyer, OneKiller,
       ListsApart, DeadAreDone, Stages, FinalizedFreed, Somewhere, Unborn,
       Burying, Visiting, Callers, Idle, Frame, Holders, OnFinalize
<1>2. Calls'
  BY RefAssumption DEF RefInv, Owners, Calls, Lists, RefTypeOK, CountIsHolders,
       OwnedIsActive, StillInitial, OwnersBorn, OneDestroyer, OneKiller,
       ListsApart, DeadAreDone, Stages, FinalizedFreed, Somewhere, Unborn,
       Burying, Visiting, Callers, Idle, Frame, Holders, OnFinalize
<1>3. Lists'
  BY RefAssumption DEF RefInv, Owners, Calls, Lists, RefTypeOK, CountIsHolders,
       OwnedIsActive, StillInitial, OwnersBorn, OneDestroyer, OneKiller,
       ListsApart, DeadAreDone, Stages, FinalizedFreed, Somewhere, Unborn,
       Burying, Visiting, Callers, Idle, Frame, Holders, OnFinalize
<1> QED BY <1>1, <1>2, <1>3 DEF RefInv

(* ReaperWakes: the dead list becomes the list the reaper works on. *)
LEMMA ReaperWakesKeeps ==
  ASSUME RefInv, ReaperWakes
  PROVE  RefInv'
<1>1. Owners'
  BY RefAssumption DEF RefInv, Owners, Calls, Lists, RefTypeOK, CountIsHolders,
       OwnedIsActive, StillInitial, OwnersBorn, OneDestroyer, OneKiller,
       ListsApart, DeadAreDone, Stages, FinalizedFreed, Somewhere, Unborn,
       Burying, Visiting, Callers, Idle, Frame, Holders, ReaperWakes,
       BuryDeadites
<1>2. Calls'
  BY RefAssumption DEF RefInv, Owners, Calls, Lists, RefTypeOK, CountIsHolders,
       OwnedIsActive, StillInitial, OwnersBorn, OneDestroyer, OneKiller,
       ListsApart, DeadAreDone, Stages, FinalizedFreed, Somewhere, Unborn,
       Burying, Visiting, Callers, Idle, Frame, Holders, ReaperWakes,
       BuryDeadites
<1>3. Lists'
  BY RefAssumption DEF RefInv, Owners, Calls, Lists, RefTypeOK, CountIsHolders,
       OwnedIsActive, StillInitial, OwnersBorn, OneDestroyer, OneKiller,
       ListsApart, DeadAreDone, Stages, FinalizedFreed, Somewhere, Unborn,
       Burying, Visiting, Callers, Idle, Frame, Holders, ReaperWakes,
       BuryDeadites
<1> QED BY <1>1, <1>2, <1>3 DEF RefInv

(* Bury: an object nobody owns is freed and its parent loses an owner. *)
LEMMA BuryKeeps ==
  ASSUME RefInv, NEW at \in {"bury", "buryrest"}, Bury(at)
  PROVE  RefInv'
<1>1. PICK o \in rest : FinalizeAndFree(o) /\ rest' = rest \ {o}
  BY DEF Bury
<1>2. ParentGivenBack(o)
  BY <1>1, Finalizing DEF RefInv, Owners, RefTypeOK
<1>3. Owners'
  BY <1>1, <1>2, RefAssumption DEF RefInv, Owners, Calls, Lists, RefTypeOK,
       CountIsHolders, OwnedIsActive, StillInitial, OwnersBorn, OneDestroyer,
       OneKiller, ListsApart, DeadAreDone, Stages, FinalizedFreed, Somewhere,
       Unborn, Burying, Visiting, Callers, Idle, Frame, Holders, Bury,
       FinalizeAndFree, ParentGivenBack, GivenBy
<1>4. Calls'
  BY <1>1, <1>2, RefAssumption DEF RefInv, Owners, Calls, Lists, RefTypeOK,
       CountIsHolders, OwnedIsActive, StillInitial, OwnersBorn, OneDestroyer,
       OneKiller, ListsApart, DeadAreDone, Stages, FinalizedFreed, Somewhere,
       Unborn, Burying, Visiting, Callers, Idle, Frame, Holders, Bury,
       FinalizeAndFree, ParentGivenBack, GivenBy
<1>5. Lists'
  <2>1. ListsApart'
    BY <1>1, <1>2, RefAssumption DEF RefInv, Owners, Calls, Lists, RefTypeOK,
         ListsApart, DeadAreDone, OwnedIsActive, Stages, Burying, Visiting,
         Bury, FinalizeAndFree, ParentGivenBack, GivenBy
  <2>2. DeadAreDone'
    BY <1>1, <1>2, RefAssumption DEF RefInv, Owners, Calls, Lists, RefTypeOK,
         DeadAreDone, ListsApart, Stages, Burying, Visiting, Bury,
         FinalizeAndFree, ParentGivenBack, GivenBy
  <2>3. Stages'
    BY <1>1, <1>2, RefAssumption DEF RefInv, Owners, Calls, Lists, RefTypeOK,
         Stages, ListsApart, Burying, Visiting, Bury, FinalizeAndFree,
         ParentGivenBack, GivenBy
  <2>4. FinalizedFreed'
    BY <1>1, <1>2, RefAssumption DEF RefInv, Owners, Calls, Lists, RefTypeOK,
         FinalizedFreed, DeadAreDone, ListsApart, Stages, Burying, Visiting,
         Bury, FinalizeAndFree, ParentGivenBack, GivenBy
  <2>5. Somewhere'
    BY <1>1, <1>2, RefAssumption DEF RefInv, Owners, Calls, Lists, RefTypeOK,
         Somewhere, Unborn, ListsApart, Stages, Burying, Visiting, Bury,
         FinalizeAndFree, ParentGivenBack, GivenBy
  <2> QED BY <2>1, <2>2, <2>3, <2>4, <2>5 DEF Lists
<1> QED BY <1>3, <1>4, <1>5 DEF RefInv

(* LoopDone: the list the reaper worked on is empty. *)
LEMMA LoopDoneKeeps ==
  ASSUME RefInv, LoopDone("bury", "wait") \/ LoopDone("buryrest", "spin")
  PROVE  RefInv'
<1>1. Owners'
  BY RefAssumption DEF RefInv, Owners, Calls, Lists, RefTypeOK, CountIsHolders,
       OwnedIsActive, StillInitial, OwnersBorn, OneDestroyer, OneKiller,
       ListsApart, DeadAreDone, Stages, FinalizedFreed, Somewhere, Unborn,
       Burying, Visiting, Callers, Idle, Frame, Holders, LoopDone
<1>2. Calls'
  BY RefAssumption DEF RefInv, Owners, Calls, Lists, RefTypeOK, CountIsHolders,
       OwnedIsActive, StillInitial, OwnersBorn, OneDestroyer, OneKiller,
       ListsApart, DeadAreDone, Stages, FinalizedFreed, Somewhere, Unborn,
       Burying, Visiting, Callers, Idle, Frame, Holders, LoopDone
<1>3. Lists'
  BY RefAssumption DEF RefInv, Owners, Calls, Lists, RefTypeOK, CountIsHolders,
       OwnedIsActive, StillInitial, OwnersBorn, OneDestroyer, OneKiller,
       ListsApart, DeadAreDone, Stages, FinalizedFreed, Somewhere, Unborn,
       Burying, Visiting, Callers, Idle, Frame, Holders, LoopDone
<1> QED BY <1>1, <1>2, <1>3 DEF RefInv

(* ReaperShutdown: from here on Kill() leaves the lists alone. *)
LEMMA ReaperShutdownKeeps ==
  ASSUME RefInv, ReaperShutdown
  PROVE  RefInv'
<1>1. Owners'
  BY RefAssumption DEF RefInv, Owners, Calls, Lists, RefTypeOK, CountIsHolders,
       OwnedIsActive, StillInitial, OwnersBorn, OneDestroyer, OneKiller,
       ListsApart, DeadAreDone, Stages, FinalizedFreed, Somewhere, Unborn,
       Burying, Visiting, Callers, Idle, Frame, Holders, ReaperShutdown
<1>2. Calls'
  BY RefAssumption DEF RefInv, Owners, Calls, Lists, RefTypeOK, CountIsHolders,
       OwnedIsActive, StillInitial, OwnersBorn, OneDestroyer, OneKiller,
       ListsApart, DeadAreDone, Stages, FinalizedFreed, Somewhere, Unborn,
       Burying, Visiting, Callers, Idle, Frame, Holders, ReaperShutdown
<1>3. Lists'
  BY RefAssumption DEF RefInv, Owners, Calls, Lists, RefTypeOK, CountIsHolders,
       OwnedIsActive, StillInitial, OwnersBorn, OneDestroyer, OneKiller,
       ListsApart, DeadAreDone, Stages, FinalizedFreed, Somewhere, Unborn,
       Burying, Visiting, Callers, Idle, Frame, Holders, ReaperShutdown
<1> QED BY <1>1, <1>2, <1>3 DEF RefInv

(* ReaperDestroys: the reaper may be the first to destroy an object. *)
LEMMA ReaperDestroysKeeps ==
  ASSUME RefInv, ReaperDestroys
  PROVE  RefInv'
<1>1. Owners'
  BY RefAssumption DEF RefInv, Owners, Calls, Lists, RefTypeOK, CountIsHolders,
       OwnedIsActive, StillInitial, OwnersBorn, OneDestroyer, OneKiller,
       ListsApart, DeadAreDone, Stages, FinalizedFreed, Somewhere, Unborn,
       Burying, Visiting, Callers, Idle, Frame, Holders, ReaperDestroys,
       SetShutdown
<1>2. Calls'
  BY RefAssumption DEF RefInv, Owners, Calls, Lists, RefTypeOK, CountIsHolders,
       OwnedIsActive, StillInitial, OwnersBorn, OneDestroyer, OneKiller,
       ListsApart, DeadAreDone, Stages, FinalizedFreed, Somewhere, Unborn,
       Burying, Visiting, Callers, Idle, Frame, Holders, ReaperDestroys,
       SetShutdown
<1>3. Lists'
  BY RefAssumption DEF RefInv, Owners, Calls, Lists, RefTypeOK, CountIsHolders,
       OwnedIsActive, StillInitial, OwnersBorn, OneDestroyer, OneKiller,
       ListsApart, DeadAreDone, Stages, FinalizedFreed, Somewhere, Unborn,
       Burying, Visiting, Callers, Idle, Frame, Holders, ReaperDestroys,
       SetShutdown
<1> QED BY <1>1, <1>2, <1>3 DEF RefInv

(* ReaperBuriesRest: every active object has been destroyed by now. *)
LEMMA ReaperBuriesRestKeeps ==
  ASSUME RefInv, ReaperBuriesRest
  PROVE  RefInv'
<1>1. Owners'
  BY RefAssumption DEF RefInv, Owners, Calls, Lists, RefTypeOK, CountIsHolders,
       OwnedIsActive, StillInitial, OwnersBorn, OneDestroyer, OneKiller,
       ListsApart, DeadAreDone, Stages, FinalizedFreed, Somewhere, Unborn,
       Burying, Visiting, Callers, Idle, Frame, Holders, ReaperBuriesRest,
       BuryDeadites
<1>2. Calls'
  BY RefAssumption DEF RefInv, Owners, Calls, Lists, RefTypeOK, CountIsHolders,
       OwnedIsActive, StillInitial, OwnersBorn, OneDestroyer, OneKiller,
       ListsApart, DeadAreDone, Stages, FinalizedFreed, Somewhere, Unborn,
       Burying, Visiting, Callers, Idle, Frame, Holders, ReaperBuriesRest,
       BuryDeadites
<1>3. Lists'
  BY RefAssumption DEF RefInv, Owners, Calls, Lists, RefTypeOK, CountIsHolders,
       OwnedIsActive, StillInitial, OwnersBorn, OneDestroyer, OneKiller,
       ListsApart, DeadAreDone, Stages, FinalizedFreed, Somewhere, Unborn,
       Burying, Visiting, Callers, Idle, Frame, Holders, ReaperBuriesRest,
       BuryDeadites
<1> QED BY <1>1, <1>2, <1>3 DEF RefInv

(* SpinStart: a round over the active list. *)
LEMMA SpinStartKeeps ==
  ASSUME RefInv, SpinStart
  PROVE  RefInv'
<1>1. Owners'
  BY RefAssumption DEF RefInv, Owners, Calls, Lists, RefTypeOK, CountIsHolders,
       OwnedIsActive, StillInitial, OwnersBorn, OneDestroyer, OneKiller,
       ListsApart, DeadAreDone, Stages, FinalizedFreed, Somewhere, Unborn,
       Burying, Visiting, Callers, Idle, Frame, Holders, SpinStart
<1>2. Calls'
  BY RefAssumption DEF RefInv, Owners, Calls, Lists, RefTypeOK, CountIsHolders,
       OwnedIsActive, StillInitial, OwnersBorn, OneDestroyer, OneKiller,
       ListsApart, DeadAreDone, Stages, FinalizedFreed, Somewhere, Unborn,
       Burying, Visiting, Callers, Idle, Frame, Holders, SpinStart
<1>3. Lists'
  BY RefAssumption DEF RefInv, Owners, Calls, Lists, RefTypeOK, CountIsHolders,
       OwnedIsActive, StillInitial, OwnersBorn, OneDestroyer, OneKiller,
       ListsApart, DeadAreDone, Stages, FinalizedFreed, Somewhere, Unborn,
       Burying, Visiting, Callers, Idle, Frame, Holders, SpinStart
<1> QED BY <1>1, <1>2, <1>3 DEF RefInv

(* SpinVisit: an object whose count is zero has no owner. *)
LEMMA SpinVisitKeeps ==
  ASSUME RefInv, SpinVisit
  PROVE  RefInv'
<1>1. PICK o \in rest :
        /\ rest' = rest \ {o}
        /\ \/ UNCHANGED <<refCount, holders, frame, active, hang, finalized, freed>>
           \/ /\ refCount[o] = 0 /\ active' = active \ {o} /\ hang' = 0
              /\ FinalizeAndFree(o)
  BY DEF SpinVisit
<1>2. o \in active \ freed /\ objShutdown[o] /\ o \notin forced
  BY <1>1 DEF RefInv, Lists, ListsApart, Stages, Visiting, Burying, SpinVisit
<1>3. refCount[o] = 0 => holders[o] = {}
  BY <1>2, OwnersCounted, FS_EmptySet DEF RefInv, Owners, RefTypeOK,
       CountIsHolders
<1>4. FinalizeAndFree(o) => ParentGivenBack(o)
  BY <1>1, Finalizing DEF RefInv, Owners, RefTypeOK
<1>5. Owners'
  BY <1>1, <1>2, <1>3, <1>4, RefAssumption, SMTT(40) DEF RefInv, Owners, Calls, Lists,
       RefTypeOK, CountIsHolders, OwnedIsActive, StillInitial, OwnersBorn,
       OneDestroyer, OneKiller, ListsApart, DeadAreDone, Stages,
       FinalizedFreed, Somewhere, Unborn, Burying, Visiting, Callers, Idle,
       Frame, Holders, SpinVisit, FinalizeAndFree, ParentGivenBack, GivenBy
<1>6. Calls'
  BY <1>1, <1>2, <1>3, <1>4, RefAssumption DEF RefInv, Owners, Calls, Lists,
       RefTypeOK, CountIsHolders, OwnedIsActive, StillInitial, OwnersBorn,
       OneDestroyer, OneKiller, ListsApart, DeadAreDone, Stages,
       FinalizedFreed, Somewhere, Unborn, Burying, Visiting, Callers, Idle,
       Frame, Holders, SpinVisit, FinalizeAndFree, ParentGivenBack, GivenBy
<1>7. Lists'
  <2>1. ListsApart'
    BY <1>1, <1>2, <1>3, <1>4, RefAssumption DEF RefInv, Owners, Calls, Lists,
         RefTypeOK, ListsApart, DeadAreDone, OwnedIsActive, Stages, Burying,
         Visiting, SpinVisit, FinalizeAndFree, ParentGivenBack, GivenBy
  <2>2. DeadAreDone'
    BY <1>1, <1>2, <1>3, <1>4, RefAssumption DEF RefInv, Owners, Calls, Lists,
         RefTypeOK, DeadAreDone, ListsApart, Stages, Burying, Visiting,
         SpinVisit, FinalizeAndFree, ParentGivenBack, GivenBy
  <2>3. Stages'
    BY <1>1, <1>2, <1>3, <1>4, RefAssumption DEF RefInv, Owners, Calls, Lists,
         RefTypeOK, Stages, ListsApart, Burying, Visiting, SpinVisit,
         FinalizeAndFree, ParentGivenBack, GivenBy
  <2>4. FinalizedFreed'
    BY <1>1, <1>2, <1>3, <1>4, RefAssumption DEF RefInv, Owners, Calls, Lists,
         RefTypeOK, FinalizedFreed, DeadAreDone, ListsApart, Stages, Burying,
         Visiting, SpinVisit, FinalizeAndFree, ParentGivenBack, GivenBy
  <2>5. Somewhere'
    BY <1>1, <1>2, <1>3, <1>4, RefAssumption DEF RefInv, Owners, Calls, Lists,
         RefTypeOK, Somewhere, Unborn, ListsApart, Stages, Burying, Visiting,
         SpinVisit, FinalizeAndFree, ParentGivenBack, GivenBy
  <2> QED BY <2>1, <2>2, <2>3, <2>4, <2>5 DEF Lists
<1> QED BY <1>5, <1>6, <1>7 DEF RefInv

(* SpinEnd: a forced finalize takes the object out of every promise about owners. *)
LEMMA SpinEndKeeps ==
  ASSUME RefInv, SpinEnd
  PROVE  RefInv'
<1>1. CASE UNCHANGED <<refCount, holders, frame, active, finalized, freed, forced>>
  BY <1>1 DEF RefInv, Owners, Calls, Lists, RefTypeOK, CountIsHolders,
       OwnedIsActive, StillInitial, OwnersBorn, OneDestroyer, OneKiller,
       ListsApart, DeadAreDone, Stages, FinalizedFreed, Somewhere, Unborn,
       Burying, Visiting, Callers, Idle, Frame, Holders, SpinEnd
<1>2. ASSUME NEW o \in active, active' = active \ {o}, forced' = forced \cup {o},
             FinalizeAndFree(o), hang' = 0, reaper' = "spin"
      PROVE  RefInv'
  <2>1. o \in Objects \ freed /\ objShutdown[o]
    BY <1>2 DEF RefInv, Owners, Lists, RefTypeOK, ListsApart, Stages, SpinEnd
  <2>2. ParentGivenBack(o)
    BY <1>2, <2>1, Finalizing DEF RefInv, Owners
  <2>3. Owners'
    BY <1>2, <2>1, <2>2, RefAssumption DEF RefInv, Owners, Calls, Lists,
         RefTypeOK, CountIsHolders, OwnedIsActive, StillInitial, OwnersBorn,
         OneDestroyer, OneKiller, ListsApart, DeadAreDone, Stages,
         FinalizedFreed, Somewhere, Unborn, Burying, Visiting, Callers, Idle,
         Frame, Holders, SpinEnd, FinalizeAndFree, ParentGivenBack, GivenBy
  <2>4. Calls'
    BY <1>2, <2>1, <2>2, RefAssumption DEF RefInv, Owners, Calls, Lists,
         RefTypeOK, CountIsHolders, OwnedIsActive, StillInitial, OwnersBorn,
         OneDestroyer, OneKiller, ListsApart, DeadAreDone, Stages,
         FinalizedFreed, Somewhere, Unborn, Burying, Visiting, Callers, Idle,
         Frame, Holders, SpinEnd, FinalizeAndFree, ParentGivenBack, GivenBy
  <2>5. Lists'
    <3>1. ListsApart'
      BY <1>2, <2>1, <2>2, RefAssumption DEF RefInv, Owners, Calls, Lists,
           RefTypeOK, ListsApart, DeadAreDone, OwnedIsActive, Stages, Burying,
           Visiting, SpinEnd, FinalizeAndFree, ParentGivenBack, GivenBy
    <3>2. DeadAreDone'
      BY <1>2, <2>1, <2>2, RefAssumption DEF RefInv, Owners, Calls, Lists,
           RefTypeOK, DeadAreDone, ListsApart, Stages, Burying, Visiting,
           SpinEnd, FinalizeAndFree, ParentGivenBack, GivenBy
    <3>3. Stages'
      BY <1>2, <2>1, <2>2, RefAssumption DEF RefInv, Owners, Calls, Lists,
           RefTypeOK, Stages, ListsApart, Burying, Visiting, SpinEnd,
           FinalizeAndFree, ParentGivenBack, GivenBy
    <3>4. FinalizedFreed'
      BY <1>2, <2>1, <2>2, RefAssumption DEF RefInv, Owners, Calls, Lists,
           RefTypeOK, FinalizedFreed, DeadAreDone, ListsApart, Stages, Burying,
           Visiting, SpinEnd, FinalizeAndFree, ParentGivenBack, GivenBy
    <3>5. Somewhere'
      BY <1>2, <2>1, <2>2, RefAssumption DEF RefInv, Owners, Calls, Lists,
           RefTypeOK, Somewhere, Unborn, ListsApart, Stages, Burying, Visiting,
           SpinEnd, FinalizeAndFree, ParentGivenBack, GivenBy
    <3> QED BY <3>1, <3>2, <3>3, <3>4, <3>5 DEF Lists
  <2> QED BY <2>3, <2>4, <2>5 DEF RefInv
<1> QED BY <1>1, <1>2 DEF SpinEnd

(* No object exists at first. *)
LEMMA RefInitial == RefInit => RefInv
<1> SUFFICES ASSUME RefInit PROVE RefInv
  OBVIOUS
<1>1. Cardinality({}) = 0
  BY FS_EmptySet
<1>2. Owners
  BY <1>1 DEF RefInit, Owners, RefTypeOK, CountIsHolders, OwnedIsActive, StillInitial,
     OwnersBorn
<1>3. Calls
  BY DEF RefInit, Calls, OneDestroyer, OneKiller, Idle
<1>4. Lists
  BY DEF RefInit, Lists, ListsApart, DeadAreDone, Stages, FinalizedFreed, Somewhere,
         Unborn, Burying, Visiting
<1> QED BY <1>2, <1>3, <1>4 DEF RefInv

(* The invariant is inductive: one case per action. *)
LEMMA RefInductive == RefInv /\ [RefNext]_refVars => RefInv'
<1> SUFFICES ASSUME RefInv, [RefNext]_refVars PROVE RefInv'
  OBVIOUS
<1>1. ASSUME NEW t \in Threads, ThreadUses(t, Threads) PROVE RefInv'
  BY <1>1, AddRefKeeps, ReleaseRefKeeps, DestroyKeeps, WatchKeeps, WatchRefusedKeeps
     DEF ThreadUses
<1>2. ASSUME NEW t \in Callers, DestroyRelease(t) \/ Kill(t) PROVE RefInv'
  BY <1>2, DestroyReleaseKeeps, KillKeeps
<1>3. CASE ReaperStep
  <2>1. Reaper \in Callers
    BY DEF Callers
  <2> QED BY <1>2, <1>3, <2>1, ReaperWakesKeeps, BuryKeeps, LoopDoneKeeps, ReaperShutdownKeeps,
       ReaperDestroysKeeps, ReaperBuriesRestKeeps, SpinStartKeeps, SpinVisitKeeps,
       SpinEndKeeps DEF ReaperStep
<1>4. CASE OnFinalize
  BY <1>4, OnFinalizeKeeps
<1>5. CASE UNCHANGED refVars
  BY <1>5 DEF refVars, RefInv, Owners, Calls, Lists, RefTypeOK, CountIsHolders,
     OwnedIsActive, StillInitial, OwnersBorn, OneDestroyer, OneKiller, ListsApart,
     DeadAreDone, Stages, FinalizedFreed, Somewhere, Unborn, Burying, Visiting
<1> QED BY <1>1, <1>2, <1>3, <1>4, <1>5 DEF RefNext, ThreadFinishes, Callers

(* What the invariant says about Kill(), OnFinalize() and the reaper's return. *)
LEMMA RefImplies == RefInv => ObjectsSafe
<1> SUFFICES ASSUME RefInv PROVE ObjectsSafe
  OBVIOUS
<1>1. RefTypeOK /\ CountIsHolders
  BY DEF RefInv, Owners
<1>2. KillFindsActive
  BY DEF RefInv, Calls, Lists, OneKiller, ListsApart, KillFindsActive
<1>3. FinalizedOnce
  BY DEF RefInv, Owners, Calls, Lists, OneDestroyer, OwnedIsActive, ListsApart,
         FinalizedFreed, FinalizedOnce, Frame
<1>4. NothingLeft
  BY DEF RefInv, Lists, ListsApart, Stages, Somewhere, Burying, Visiting, NothingLeft
<1> QED BY <1>1, <1>2, <1>3, <1>4 DEF ObjectsSafe

(* Counts, lists and the reaper agree, however many threads and objects there are:
   _ref_count is the number of owners, Kill() finds its object on the active list,
   OnFinalize() runs once and after OnDestroy(), and nothing is left over when the
   reaper returns (RefObject.cpp). *)
THEOREM ObjectsCorrect == RefSpec => []ObjectsSafe
  BY RefInitial, RefInductive, RefImplies, PTL DEF RefSpec

(* A step leaves the count of an object that was destroyed and has no reference
   left at zero: nobody can revive it. *)
LEMMA ZeroKept ==
  ASSUME RefInv, RefNext, NEW o \in Objects, objShutdown[o], refCount[o] = 0
  PROVE  refCount'[o] = 0
<1>1. o \notin forced => holders[o] = {}
  BY OwnersCounted, FS_EmptySet DEF RefInv, Owners, CountIsHolders
<1>2. ASSUME NEW t \in Threads, ThreadUses(t, Threads) PROVE refCount'[o] = 0
  BY <1>1, <1>2 DEF ThreadUses, AddRef, ReleaseRef, Decrement, Destroy, Watch,
     WatchRefused, Unborn, RefInv, Owners, RefTypeOK
<1>3. ASSUME NEW t \in Callers, DestroyRelease(t) \/ Kill(t) PROVE refCount'[o] = 0
  BY <1>1, <1>3 DEF DestroyRelease, Kill, Decrement, RefInv, Owners, Calls, RefTypeOK,
     OneDestroyer
<1>4. ASSUME NEW q \in Objects, FinalizeAndFree(q) PROVE refCount'[o] = 0
  BY <1>1, <1>4 DEF FinalizeAndFree, Parent, Decrement, RefInv, Owners, RefTypeOK
<1>5. CASE ReaperStep
  <2>1. Reaper \in Callers /\ rest \subseteq Objects /\ active \subseteq Objects
    BY DEF Callers, RefInv, Owners, RefTypeOK
  <2>2. CASE \E at \in {"bury", "buryrest"} : Bury(at)
    BY <1>4, <2>1, <2>2 DEF Bury
  <2>3. CASE SpinVisit \/ SpinEnd
    BY <1>4, <2>1, <2>3 DEF SpinVisit, SpinEnd
  <2> QED BY <1>3, <1>5, <2>1, <2>2, <2>3 DEF ReaperStep, ReaperWakes, BuryDeadites, LoopDone,
       ReaperShutdown, ReaperDestroys, ReaperBuriesRest, SpinStart
<1>6. CASE OnFinalize
  BY <1>6 DEF OnFinalize
<1> QED BY <1>2, <1>3, <1>5, <1>6 DEF RefNext, ThreadFinishes, Callers

(* ReleaseRef() that reaches zero is final, whatever other threads do between the
   decrement and Kill(). *)
THEOREM ZeroStays == RefSpec => ZeroIsFinal
<1>1. RefInv /\ [RefNext]_refVars
        => [\A o \in Objects : objShutdown[o] /\ refCount[o] = 0 => refCount'[o] = 0]_refVars
  BY ZeroKept DEF refVars
<1> QED BY <1>1, RefInitial, RefInductive, PTL DEF RefSpec, ZeroIsFinal

-----------------------------------------------------------------------------
(* The timers of a worker thread *)


(* No object has two timers. *)
Once(s) == \A i, j \in 1 .. Len(s) : s[i] = s[j] => i = j
OneTimer == Once(timers) /\ Once(newTimers) /\ RangeOf(timers) \cap RangeOf(newTimers) = {}

(* A thread in Associate() keeps its reference of the object until the timer
   has its own, and the object is not destroyed meanwhile. *)
Associating ==
  \A t \in Users : assoc[t] # NoObject =>
    /\ t \in holders[assoc[t]] /\ frame[t] = Idle
    /\ ~objShutdown[assoc[t]] /\ Worker \notin holders[assoc[t]]
    /\ assoc[t] \in RangeOf(timers) \cup RangeOf(newTimers)
    /\ \A u \in Users : assoc[u] = assoc[t] => u = t
    /\ worker \notin {"exit", "gone"}

(* Every timer owns its reference, or is being associated; at the end of the
   thread the references are given back in order. *)
Ours(o) == Worker \in holders[o] \/ \E t \in Users : assoc[t] = o
TimersOwn ==
  /\ \A o \in RangeOf(newTimers) \ forced : Ours(o)
  /\ \A k \in 1 .. Len(timers) :
       timers[k] \notin forced /\ (worker = "exit" => k >= ii) => Ours(timers[k])
  /\ worker \in {"exit", "gone"} => kill_flag

Visited == worker = "tick" => \A k \in 1 .. Len(timers) : timers[k] \in called <=> k < ii

TimerInv == TimerTypeOK /\ OneTimer /\ Associating /\ TimersOwn /\ Visited
-----------------------------------------------------------------------------
(* An array without repetitions has as many elements as entries. *)
LEMMA OnceCounted ==
  ASSUME NEW S, NEW s \in Seq(S), Once(s)
  PROVE  Cardinality(RangeOf(s)) = Len(s)
<1>1. Len(s) \in Nat /\ Len(s) \in Int /\ 1 \in Int
  OBVIOUS
<1>2. IsFiniteSet(1 .. Len(s)) /\ Cardinality(1 .. Len(s)) = Len(s)
  <2>1. /\ IsFiniteSet(1 .. Len(s))
        /\ Cardinality(1 .. Len(s)) = IF 1 > Len(s) THEN 0 ELSE Len(s) - 1 + 1
    BY <1>1, FS_Interval, Zenon
  <2>. QED  BY <1>1, <2>1
<1>. DEFINE f == [i \in 1 .. Len(s) |-> s[i]]
<1>3. f \in Bijection(1 .. Len(s), RangeOf(s))
  BY DEF Bijection, Injection, Surjection, IsInjective, Once, RangeOf
<1>. HIDE DEF f
<1>4. Cardinality(RangeOf(s)) = Cardinality(1 .. Len(s))
  <2>1. ExistsBijection(1 .. Len(s), RangeOf(s))
    BY <1>3 DEF ExistsBijection
  <2>. QED  BY <1>2, <2>1, FS_Bijection
<1>. QED  BY <1>2, <1>4

(* What RemoveTimer() does: the last timer takes the place of the k-th. *)
LEMMA Removed ==
  ASSUME timers \in Seq(Objects), NEW k \in 1 .. Len(timers), RemoveTimer(k)
  PROVE  /\ timers' \in Seq(Objects) /\ Len(timers') = Len(timers) - 1
         /\ \A j \in 1 .. Len(timers) - 1 :
              timers'[j] = IF j = k THEN timers[Len(timers)] ELSE timers[j]
<1>. DEFINE moved == [timers EXCEPT ![k] = timers[Len(timers)]]
            n == Len(timers) - 1
<1>1. Len(timers) \in Nat /\ n \in Nat /\ n - 1 + 1 = n /\ k \in 1 .. Len(timers)
  OBVIOUS
<1>2. \A i \in 1 .. n : moved[i] = IF i = k THEN timers[Len(timers)] ELSE timers[i]
  OBVIOUS
<1>3. \A i \in 1 .. n : moved[i] \in Objects
  BY <1>1, <1>2
<1>4. timers' = SubSeq(moved, 1, n)
  BY DEF RemoveTimer
<1>. HIDE DEF moved, n
<1>5. /\ SubSeq(moved, 1, n) \in Seq(Objects)
      /\ Len(SubSeq(moved, 1, n)) = IF 1 <= n THEN n - 1 + 1 ELSE 0
      /\ \A i \in 1 .. n - 1 + 1 : SubSeq(moved, 1, n)[i] = moved[1 + i - 1]
  BY <1>1, <1>3, SubSeqProperties
<1>6. Len(timers') = n
  BY <1>1, <1>4, <1>5
<1>7. \A i \in 1 .. n : timers'[i] = moved[i]
  <2>. SUFFICES ASSUME NEW i \in 1 .. n PROVE timers'[i] = moved[i]
    OBVIOUS
  <2>1. 1 + i - 1 = i /\ i \in 1 .. n - 1 + 1
    BY <1>1
  <2>. QED  BY <1>4, <1>5, <2>1
<1>. QED  BY <1>2, <1>4, <1>5, <1>6, <1>7 DEF n

(* What the merge does. *)
LEMMA Merged ==
  ASSUME TimerTypeOK, OneTimer
  PROVE  /\ timers \o newTimers \in Seq(Objects)
         /\ Once(timers \o newTimers)
         /\ RangeOf(timers \o newTimers) = RangeOf(timers) \cup RangeOf(newTimers)
<1>. DEFINE s == timers \o newTimers
            m == Len(timers)
            n == Len(newTimers)
<1>1. timers \in Seq(Objects) /\ newTimers \in Seq(Objects) /\ m \in Nat /\ n \in Nat
  BY DEF TimerTypeOK
<1>2. /\ s \in Seq(Objects) /\ Len(s) = m + n
      /\ \A i \in 1 .. m + n : s[i] = IF i <= m THEN timers[i] ELSE newTimers[i - m]
  BY <1>1, ConcatProperties
<1>. HIDE DEF s
<1>3. \A i \in 1 .. m + n : i <= m => i \in 1 .. m
  BY <1>1
<1>4. \A i \in 1 .. m + n : ~(i <= m) => i - m \in 1 .. n
  BY <1>1
<1>5. Once(s)
  <2>. SUFFICES ASSUME NEW i \in 1 .. m + n, NEW j \in 1 .. m + n, s[i] = s[j] PROVE i = j
    BY <1>2 DEF Once
  <2>1. CASE i <= m /\ j <= m
    BY <1>2, <1>3, <2>1 DEF OneTimer, Once
  <2>2. CASE ~(i <= m) /\ ~(j <= m)
    <3>1. newTimers[i - m] = newTimers[j - m] /\ i - m \in 1 .. n /\ j - m \in 1 .. n
      BY <1>2, <1>4, <2>2
    <3>2. i - m = j - m
      BY <3>1 DEF OneTimer, Once
    <3>. QED  BY <1>1, <3>2
  <2>3. ASSUME NEW k \in 1 .. m + n, NEW l \in 1 .. m + n, k <= m, ~(l <= m), s[k] = s[l]
        PROVE  FALSE
    <3>1. s[k] = timers[k] /\ k \in 1 .. m /\ s[l] = newTimers[l - m] /\ l - m \in 1 .. n
      BY <1>2, <1>3, <1>4, <2>3
    <3>2. s[k] \in RangeOf(timers) /\ s[l] \in RangeOf(newTimers)
      BY <3>1 DEF RangeOf
    <3>. QED  BY <2>3, <3>2 DEF OneTimer
  <2>. QED  BY <2>1, <2>2, <2>3
<1>6. RangeOf(s) \subseteq RangeOf(timers) \cup RangeOf(newTimers)
  BY <1>2, <1>3, <1>4 DEF RangeOf
<1>7. RangeOf(timers) \subseteq RangeOf(s)
  <2>1. \A i \in 1 .. m : i \in 1 .. m + n /\ i <= m
    BY <1>1
  <2>. QED  BY <1>2, <2>1 DEF RangeOf
<1>8. RangeOf(newTimers) \subseteq RangeOf(s)
  <2>1. \A i \in 1 .. n : i + m \in 1 .. m + n /\ ~(i + m <= m) /\ (i + m) - m = i
    BY <1>1
  <2>2. ASSUME NEW i \in 1 .. n PROVE newTimers[i] = s[i + m] /\ i + m \in 1 .. Len(s)
    BY <1>2, <2>1
  <2>. QED  BY <2>2 DEF RangeOf
<1>. QED  BY <1>2, <1>5, <1>6, <1>7, <1>8 DEF s
-----------------------------------------------------------------------------
LEMMA TimerInitial == TimerInit => RefInv /\ TimerInv
<1>. SUFFICES ASSUME TimerInit PROVE RefInv /\ TimerInv
  OBVIOUS
<1>1. RefInv
  BY RefInitial DEF TimerInit
<1>2. RangeOf(<<>>) = {} /\ Len(<<>>) = 0
  BY DEF RangeOf
<1>3. TimerTypeOK
  <2>1. /\ newTimers \in Seq(Objects) /\ timers \in Seq(Objects)
        /\ assoc \in [Users -> Objects \cup {NoObject}]
        /\ worker \in {"loop", "tick", "exit", "gone"}
    BY DEF TimerInit
  <2>2. ii \in 1 .. Len(timers) + 1
    BY <1>2 DEF TimerInit
  <2>3. kill_flag \in BOOLEAN /\ called \subseteq Objects
    BY Zenon DEF TimerInit
  <2>. QED  BY <2>1, <2>2, <2>3 DEF TimerTypeOK
<1>4. OneTimer /\ Visited /\ Associating
  BY <1>2 DEF TimerInit, OneTimer, Once, Visited, Associating
<1>5. TimersOwn
  BY <1>2 DEF TimerInit, TimersOwn
<1>. QED  BY <1>1, <1>3, <1>4, <1>5 DEF TimerInv

(* A step of RefObjects by any other thread, or a thread that finishes a call,
   leaves the references of the worker alone, and those of a thread that is
   inside Associate(). *)
OthersStep ==
  \/ \E t \in Users : (assoc[t] = NoObject /\ ThreadUses(t, Users)) \/ ThreadFinishes(t)
  \/ OnFinalize \/ ReaperStep \/ ThreadFinishes(Worker)
LEMMA OthersLeave ==
  ASSUME RefInv, TimerInv, OthersStep
  PROVE  /\ \A o \in Objects : Worker \in holders'[o] <=> Worker \in holders[o]
         /\ \A t \in Users : assoc[t] # NoObject =>
              t \in holders'[assoc[t]] /\ frame'[t] = Idle
         /\ forced \subseteq forced'
<1>. DEFINE P == /\ \A o \in Objects : Worker \in holders'[o] <=> Worker \in holders[o]
                 /\ \A t \in Users : assoc[t] # NoObject =>
                      t \in holders'[assoc[t]] /\ frame'[t] = Idle
                 /\ forced \subseteq forced'
<1>0. /\ holders \in [Objects -> SUBSET Holders] /\ frame \in [Callers -> {Idle} \cup
                  [op : {"destroy", "kill"}, obj : Objects]]
      /\ assoc \in [Users -> Objects \cup {NoObject}] /\ Users \subseteq Callers
      /\ rest \subseteq Objects /\ active \subseteq Objects
      /\ Worker \in Threads /\ Worker \notin Users /\ Reaper \notin Users /\ Reaper # Worker
      /\ Initial \notin Threads /\ Threads \cap Objects = {} /\ Users \subseteq Threads
      /\ Idle.op = "none" /\ NoObject \notin Objects
  BY RefAssumption, TimerAssumption
     DEF RefInv, Owners, RefTypeOK, TimerInv, TimerTypeOK, Users, Callers, Idle
<1>a. \A t \in Users : assoc[t] # NoObject =>
        assoc[t] \in Objects /\ t \in holders[assoc[t]] /\ frame[t] = Idle
  BY <1>0 DEF TimerInv, Associating
<1>1. ASSUME NEW t \in Users, assoc[t] = NoObject, ThreadUses(t, Users) PROVE P
  <2>1. PICK o \in Objects :
          \/ \E u \in Users : AddRef(t, u, o)
          \/ ReleaseRef(t, o) \/ Destroy(t, o) \/ Watch(t, o) \/ WatchRefused(t, o)
    BY <1>1 DEF ThreadUses
  <2>2. CASE \E u \in Users : AddRef(t, u, o)
    BY <1>0, <1>a, <2>2 DEF AddRef
  <2>3. CASE ReleaseRef(t, o)
    BY <1>0, <1>1, <1>a, <2>3 DEF ReleaseRef, Decrement
  <2>4. CASE Destroy(t, o)
    BY <1>0, <1>1, <1>a, <2>4 DEF Destroy, SetShutdown
  <2>5. CASE Watch(t, o)
    BY <1>0, <1>a, <2>5 DEF Watch, Unborn
  <2>6. CASE WatchRefused(t, o)
    BY <1>0, <1>a, <2>6 DEF WatchRefused
  <2>. QED  BY <2>1, <2>2, <2>3, <2>4, <2>5, <2>6
<1>2. ASSUME NEW t \in Callers, ThreadFinishes(t) PROVE P
  <2>1. \A u \in Users : assoc[u] # NoObject => u # t
    BY <1>0, <1>2, <1>a DEF ThreadFinishes, DestroyRelease, Kill
  <2>2. CASE DestroyRelease(t)
    BY <1>0, <1>a, <2>1, <2>2 DEF DestroyRelease, Decrement
  <2>3. CASE Kill(t)
    BY <1>0, <1>a, <2>1, <2>3 DEF Kill
  <2>. QED  BY <1>2, <2>2, <2>3 DEF ThreadFinishes
<1>3. ASSUME NEW o \in Objects, FinalizeAndFree(o), forced \subseteq forced' PROVE P
  BY <1>0, <1>a, <1>3 DEF FinalizeAndFree, Parent, Decrement
<1>4. ASSUME UNCHANGED <<holders, frame, forced>> PROVE P
  BY <1>a, <1>4
<1>5. CASE ReaperStep
  <2>1. CASE \E at \in {"bury", "buryrest"} : Bury(at)
    BY <1>0, <1>3, <2>1 DEF Bury
  <2>2. CASE SpinVisit
    BY <1>0, <1>3, <1>4, <2>2 DEF SpinVisit
  <2>3. CASE SpinEnd
    BY <1>0, <1>3, <1>4, <2>3 DEF SpinEnd
  <2>4. CASE ReaperDestroys
    BY <1>0, <1>a, <2>4 DEF ReaperDestroys, SetShutdown
  <2>5. CASE ReaperWakes \/ LoopDone("bury", "wait") \/ ReaperShutdown \/ ReaperBuriesRest
             \/ LoopDone("buryrest", "spin") \/ SpinStart
    BY <1>4, <2>5 DEF ReaperWakes, BuryDeadites, LoopDone, ReaperShutdown,
       ReaperBuriesRest, SpinStart
  <2>6. CASE ThreadFinishes(Reaper)
    BY <1>2, <2>6 DEF Callers
  <2>. QED  BY <1>5, <2>1, <2>2, <2>3, <2>4, <2>5, <2>6 DEF ReaperStep, ThreadFinishes
<1>6. CASE OnFinalize
  BY <1>4, <1>6 DEF OnFinalize
<1>7. Worker \in Callers
  BY <1>0 DEF Callers
<1>. QED  BY <1>0, <1>1, <1>2, <1>5, <1>6, <1>7 DEF OthersStep

LEMMA OthersKeep ==
  ASSUME ~Overlap, RefInv, TimerInv, OthersStep, UNCHANGED timerVars, Quiet
  PROVE  TimerInv'
<1>1. /\ \A o \in Objects : Worker \in holders'[o] <=> Worker \in holders[o]
      /\ \A t \in Users : assoc[t] # NoObject => t \in holders'[assoc[t]] /\ frame'[t] = Idle
      /\ forced \subseteq forced'
  BY OthersLeave
<1>2. TimerTypeOK' /\ OneTimer' /\ Visited'
  <2>1. TimerTypeOK'
    BY DEF timerVars, TimerInv, TimerTypeOK
  <2>2. OneTimer' /\ Visited'
    BY Zenon DEF timerVars, TimerInv, OneTimer, Visited
  <2>. QED  BY <2>1, <2>2
<1>3. Associating'
  BY <1>1 DEF timerVars, TimerInv, TimerTypeOK, Associating, Quiet, RangeOf
<1>4. \A o \in Objects : Ours(o)' <=> Ours(o)
  BY <1>1 DEF Ours, timerVars
<1>5. TimersOwn'
  <2>1. RangeOf(newTimers) \subseteq Objects /\ \A k \in 1 .. Len(timers) : timers[k] \in Objects
    BY DEF TimerInv, TimerTypeOK, RangeOf
  <2>. QED  BY <1>1, <1>4, <2>1 DEF timerVars, TimerInv, TimersOwn, RangeOf
<1>. QED  BY <1>2, <1>3, <1>5 DEF TimerInv

(* Associate() up to the unlock. *)
LEMMA AssociateKeeps ==
  ASSUME RefInv, TimerInv, ~Overlap, NEW t \in Users, NEW o \in Objects, Associate(t, o)
  PROVE  TimerInv'
<1>. DEFINE n == Len(newTimers)
<1>1. newTimers \in Seq(Objects) /\ n \in Nat /\ assoc \in [Users -> Objects \cup {NoObject}]
  BY DEF TimerInv, TimerTypeOK
<1>2. /\ newTimers' = Append(newTimers, o) /\ newTimers' \in Seq(Objects)
      /\ Len(newTimers') = n + 1 /\ newTimers'[n + 1] = o
      /\ \A i \in 1 .. n : newTimers'[i] = newTimers[i]
  BY <1>1 DEF Associate
<1>3. \A i \in 1 .. n + 1 : i \in 1 .. n \/ i = n + 1
  BY <1>1
<1>4. RangeOf(newTimers') = RangeOf(newTimers) \cup {o}
  <2>1. 1 .. n \subseteq 1 .. n + 1 /\ n + 1 \in 1 .. n + 1
    BY <1>1
  <2>. QED  BY <1>2, <1>3, <2>1 DEF RangeOf
<1>5. TimerTypeOK'
  BY <1>1, <1>2 DEF Associate, TimerInv, TimerTypeOK
<1>6. OneTimer'
  <2>1. \A i \in 1 .. n : newTimers[i] # o
    BY DEF Associate, RangeOf
  <2>2. Once(newTimers')
    BY <1>2, <1>3, <2>1 DEF TimerInv, OneTimer, Once
  <2>. QED  BY <1>4, <2>2 DEF Associate, TimerInv, OneTimer
<1>7. Associating'
  <2>1. o # NoObject /\ worker \notin {"exit", "gone"}
    BY TimerAssumption DEF Associate, TimerInv, TimersOwn
  <2>. QED  BY <1>1, <1>4, <2>1 DEF Associate, TimerInv, Associating, refVars
<1>8. TimersOwn'
  <2>1. Ours(o)'
    BY <1>1 DEF Associate, Ours
  <2>2. \A p \in Objects : Ours(p) => Ours(p)'
    BY <1>1, TimerAssumption DEF Associate, Ours, refVars
  <2>3. RangeOf(newTimers) \subseteq Objects /\ \A k \in 1 .. Len(timers) : timers[k] \in Objects
    BY DEF TimerInv, TimerTypeOK, RangeOf
  <2>. QED  BY <1>4, <2>1, <2>2, <2>3 DEF Associate, TimerInv, TimersOwn, refVars
<1>9. Visited'
  BY DEF Associate, TimerInv, Visited
<1>. QED  BY <1>5, <1>6, <1>7, <1>8, <1>9 DEF TimerInv

(* The reference the timer owns. *)
LEMMA AssociateAddRefKeeps ==
  ASSUME RefInv, TimerInv, NEW t \in Users, AssociateAddRef(t)
  PROVE  TimerInv' /\ AddRef(t, Worker, assoc[t]) /\ assoc[t] \in Objects
<1>. DEFINE o == assoc[t]
<1>1. /\ o \in Objects /\ assoc \in [Users -> Objects \cup {NoObject}]
      /\ t \in holders[o] /\ frame[t] = Idle /\ Worker \notin holders[o] /\ Worker # t
      /\ holders \in [Objects -> SUBSET Holders] /\ Worker \notin Users
      /\ NoObject \notin Objects
  BY TimerAssumption DEF AssociateAddRef, TimerInv, TimerTypeOK, Associating, RefInv, Owners,
     RefTypeOK, Users
<1>2. AddRef(t, Worker, o)
  BY <1>1 DEF AssociateAddRef, AddRef
<1>3. /\ holders' = [holders EXCEPT ![o] = @ \cup {Worker}]
      /\ assoc' = [assoc EXCEPT ![t] = NoObject]
      /\ UNCHANGED <<objShutdown, frame, forced, newTimers, timers, worker, ii, called, kill_flag>>
  BY DEF AssociateAddRef
<1>4. TimerTypeOK' /\ OneTimer' /\ Visited'
  <2>1. TimerTypeOK'
    BY <1>1, <1>3 DEF TimerInv, TimerTypeOK
  <2>2. OneTimer' /\ Visited'
    BY <1>3, Zenon DEF TimerInv, OneTimer, Visited
  <2>. QED  BY <2>1, <2>2
<1>5. Associating'
  BY <1>1, <1>3 DEF TimerInv, Associating, RangeOf
<1>6. \A p \in Objects : Ours(p) => Ours(p)'
  BY <1>1, <1>3 DEF Ours
<1>7. TimersOwn'
  <2>1. RangeOf(newTimers) \subseteq Objects /\ \A k \in 1 .. Len(timers) : timers[k] \in Objects
    BY DEF TimerInv, TimerTypeOK, RangeOf
  <2>. QED  BY <1>3, <1>6, <2>1 DEF TimerInv, TimersOwn, RangeOf
<1>. QED  BY <1>1, <1>2, <1>4, <1>5, <1>7 DEF TimerInv

(* The timer that is released owns its reference. *)
LEMMA TickReleasesKeeps ==
  ASSUME RefInv, TimerInv, TickReleases
  PROVE  TimerInv' /\ ReleaseRef(Worker, timers[ii]) /\ timers[ii] \in Objects
<1>. DEFINE o == timers[ii]
            n == Len(timers)
<1>1. /\ timers \in Seq(Objects) /\ n \in Nat /\ ii \in 1 .. n /\ o \in Objects
      /\ worker = "tick" /\ o \notin forced /\ objShutdown[o] /\ frame[Worker] = Idle
  BY DEF TickReleases, TimerInv, TimerTypeOK
<1>2. Worker \in holders[o] /\ \A t \in Users : assoc[t] # o
  BY <1>1, TimerAssumption DEF TimerInv, TimersOwn, Associating, Ours
<1>3. ReleaseRef(Worker, o)
  BY <1>1, <1>2 DEF TickReleases, ReleaseRef
<1>4. /\ timers' \in Seq(Objects) /\ Len(timers') = n - 1
      /\ \A j \in 1 .. n - 1 : timers'[j] = IF j = ii THEN timers[n] ELSE timers[j]
  BY <1>1, Removed DEF TickReleases
<1>5. /\ holders' = [holders EXCEPT ![o] = @ \ {Worker}]
      /\ \A t \in Users : frame'[t] = frame[t]
      /\ called' = called \cup {o}
      /\ UNCHANGED <<objShutdown, forced, newTimers, assoc, worker, ii, kill_flag>>
  <2>1. Worker \notin Users
    BY DEF Users
  <2>. QED  BY <2>1 DEF TickReleases, Decrement, RefInv, Owners, RefTypeOK, Users, Callers
<1>6. /\ holders \in [Objects -> SUBSET Holders] /\ Worker \notin Users
      /\ assoc \in [Users -> Objects \cup {NoObject}]
  BY DEF RefInv, Owners, RefTypeOK, Users, TimerInv, TimerTypeOK
<1>7. /\ n \in 1 .. n /\ \A j \in 1 .. n - 1 : j \in 1 .. n /\ j # n /\ timers[j] \in Objects
      /\ timers[n] \in Objects
  BY <1>1
<1>8. \A i, j \in 1 .. n : timers[i] = timers[j] => i = j
  BY DEF TimerInv, OneTimer, Once
<1>. HIDE DEF n, o
<1>9. RangeOf(timers') = RangeOf(timers) \ {o}
  <2>1. ASSUME NEW j \in 1 .. n - 1 PROVE timers'[j] \in RangeOf(timers) \ {o}
    <3>1. timers'[j] = timers[IF j = ii THEN n ELSE j]
      BY <1>4
    <3>2. (IF j = ii THEN n ELSE j) \in 1 .. n /\ (IF j = ii THEN n ELSE j) # ii
      BY <1>7
    <3>3. timers'[j] # timers[ii]
      BY <1>1, <1>8, <3>1, <3>2
    <3>. QED  BY <3>1, <3>2, <3>3 DEF RangeOf, n, o
  <2>2. ASSUME NEW j \in 1 .. n, timers[j] # o PROVE \E i \in 1 .. n - 1 : timers'[i] = timers[j]
    <3>1. j # ii
      BY <2>2 DEF o
    <3>2. CASE j = n
      <4>1. ii \in 1 .. n - 1
        BY <1>1, <3>1, <3>2
      <4>. QED  BY <1>4, <3>2, <4>1
    <3>3. CASE j # n
      <4>1. j \in 1 .. n - 1
        BY <1>1, <3>3
      <4>. QED  BY <1>4, <3>1, <4>1
    <3>. QED  BY <3>2, <3>3
  <2>. QED  BY <1>4, <2>1, <2>2 DEF RangeOf, n
<1>10. TimerTypeOK'
  <2>1. ii \in 1 .. (n - 1) + 1
    BY <1>1
  <2>. QED  BY <1>1, <1>4, <1>5, <2>1 DEF TimerInv, TimerTypeOK
<1>11. OneTimer'
  <2>1. ASSUME NEW i \in 1 .. n - 1, NEW j \in 1 .. n - 1, timers'[i] = timers'[j] PROVE i = j
    BY <1>4, <1>7, <1>8, <2>1
  <2>2. Once(timers')
    BY <1>4, <2>1 DEF Once
  <2>. QED  BY <1>5, <1>9, <2>2 DEF TimerInv, OneTimer
<1>12. Associating'
  <2>. SUFFICES ASSUME NEW t \in Users, assoc'[t] # NoObject
                PROVE  (/\ t \in holders[assoc[t]] /\ frame[t] = Idle
                        /\ ~objShutdown[assoc[t]] /\ Worker \notin holders[assoc[t]]
                        /\ assoc[t] \in RangeOf(timers) \cup RangeOf(newTimers)
                        /\ \A u \in Users : assoc[u] = assoc[t] => u = t
                        /\ worker \notin {"exit", "gone"})'
    BY DEF Associating
  <2>1. assoc[t] # NoObject /\ assoc[t] \in Objects /\ assoc[t] # o /\ t # Worker
    BY <1>2, <1>5, <1>6
  <2>2. holders'[assoc[t]] = holders[assoc[t]]
    BY <1>5, <1>6, <2>1
  <2>. QED  BY <1>5, <1>9, <2>1, <2>2 DEF TimerInv, Associating
<1>13. TimersOwn'
  <2>1. ASSUME NEW p \in Objects, p # o, Ours(p) PROVE Ours(p)'
    BY <1>5, <1>6, <2>1 DEF Ours
  <2>2. o \notin RangeOf(newTimers) /\ RangeOf(newTimers) \subseteq Objects
    <3>1. o \in RangeOf(timers)
      BY <1>1 DEF RangeOf, o, n
    <3>. QED  BY <3>1 DEF TimerInv, TimerTypeOK, OneTimer, RangeOf
  <2>3. ASSUME NEW p \in RangeOf(newTimers') \ forced' PROVE Ours(p)'
    BY <1>5, <2>1, <2>2, <2>3 DEF TimerInv, TimersOwn
  <2>4. ASSUME NEW k \in 1 .. n - 1, timers'[k] \notin forced PROVE Ours(timers[k])'
    <3>1. timers'[k] \in RangeOf(timers) \ {o} /\ timers'[k] \in Objects
      BY <1>4, <1>7, <1>9 DEF RangeOf
    <3>2. Ours(timers'[k])
      BY <1>1, <2>4, <3>1 DEF TimerInv, TimersOwn, RangeOf
    <3>3. PICK p \in Objects : p = timers'[k]
      BY <3>1
    <3>4. Ours(p)'
      BY <2>1, <3>1, <3>2, <3>3
    <3>. QED  BY <3>3, <3>4 DEF Ours
  <2>. QED  BY <1>1, <1>4, <1>5, <2>3, <2>4 DEF TimersOwn
<1>14. Visited'
  <2>. SUFFICES ASSUME NEW k \in 1 .. n - 1 PROVE timers'[k] \in called' <=> k < ii
    BY <1>4, <1>5 DEF Visited
  <2>1. \A i \in 1 .. n : timers[i] \in called <=> i < ii
    BY <1>1 DEF TimerInv, Visited, n
  <2>2. timers'[k] # o
    BY <1>1, <1>4, <1>7, <1>8 DEF o
  <2>3. CASE k = ii
    <3>1. timers'[k] = timers[n] /\ ~(n < ii) /\ ~(k < ii)
      BY <1>1, <1>4, <2>3
    <3>. QED  BY <1>5, <1>7, <2>1, <2>2, <3>1
  <2>4. CASE k # ii
    BY <1>4, <1>5, <1>7, <2>1, <2>2, <2>4
  <2>. QED  BY <2>3, <2>4
<1>. QED  BY <1>1, <1>3, <1>10, <1>11, <1>12, <1>13, <1>14 DEF TimerInv, o

LEMMA TickCallsKeeps ==
  ASSUME TimerInv, TickCalls
  PROVE  TimerInv'
<1>. DEFINE n == Len(timers)
<1>1. /\ n \in Nat /\ ii \in 1 .. n /\ timers \in Seq(Objects) /\ worker = "tick"
      /\ called' = called \cup {timers[ii]} /\ ii' = ii + 1
      /\ UNCHANGED <<refVars, newTimers, timers, assoc, worker, kill_flag>>
  BY DEF TickCalls, TimerInv, TimerTypeOK
<1>2. TimerTypeOK'
  BY <1>1 DEF TimerInv, TimerTypeOK
<1>3. OneTimer' /\ Associating'
  BY <1>1, Zenon DEF TimerInv, OneTimer, Associating, refVars
<1>4. TimersOwn'
  BY <1>1 DEF TimerInv, TimersOwn, Ours, refVars
<1>5. Visited'
  <2>. SUFFICES ASSUME NEW k \in 1 .. n PROVE timers[k] \in called' <=> k < ii + 1
    BY <1>1 DEF Visited
  <2>1. timers[k] \in called <=> k < ii
    BY <1>1 DEF TimerInv, Visited
  <2>2. timers[k] = timers[ii] <=> k = ii
    BY <1>1 DEF TimerInv, OneTimer, Once
  <2>. QED  BY <1>1, <2>1, <2>2
<1>. QED  BY <1>2, <1>3, <1>4, <1>5 DEF TimerInv

(* TickStart, the end of a tick that cannot merge, the kill flag and the end
   of the loop move the worker only. *)
LEMMA WorkerMoves ==
  ASSUME ~Overlap, TimerInv,
         TickStart \/ TickMergeFails \/ SetKillFlag \/ (WorkerExit /\ Quiet)
  PROVE  TimerInv'
<1>1. UNCHANGED <<refVars, newTimers, timers, assoc>>
  BY DEF TickStart, TickMergeFails, SetKillFlag, WorkerExit
<1>2. TimerTypeOK'
  <2>0. Len(timers) \in Nat /\ ii \in 1 .. Len(timers) + 1 /\ kill_flag \in BOOLEAN
    BY DEF TimerInv, TimerTypeOK
  <2>1. ii' \in 1 .. Len(timers) + 1
    BY <2>0 DEF TickStart, TickMergeFails, SetKillFlag, WorkerExit
  <2>3. kill_flag' \in BOOLEAN
    BY <2>0, Zenon DEF TickStart, TickMergeFails, SetKillFlag, WorkerExit
  <2>2. worker' \in {"loop", "tick", "exit", "gone"} /\ called' \subseteq Objects
    BY DEF TickStart, TickMergeFails, SetKillFlag, WorkerExit, TimerInv, TimerTypeOK
  <2>. QED  BY <1>1, <2>1, <2>2, <2>3 DEF TimerInv, TimerTypeOK
<1>3. OneTimer'
  BY <1>1, Zenon DEF TimerInv, OneTimer
<1>4. Associating'
  <2>1. \A t \in Users : assoc[t] # NoObject => worker' \notin {"exit", "gone"}
    BY <1>1 DEF TickStart, TickMergeFails, SetKillFlag, WorkerExit, Quiet, TimerInv, Associating
  <2>. QED  BY <1>1, <2>1 DEF TimerInv, Associating, refVars, RangeOf
<1>5. TimersOwn'
  <2>1. worker' = "exit" => (worker = "exit" /\ ii' = ii) \/ (worker = "loop" /\ ii' = 1)
    BY DEF TickStart, TickMergeFails, SetKillFlag, WorkerExit
  <2>2. worker' \in {"exit", "gone"} => kill_flag'
    BY DEF TickStart, TickMergeFails, SetKillFlag, WorkerExit, TimerInv, TimersOwn
  <2>3. worker = "exit" => worker' = "exit"
    BY DEF TickStart, TickMergeFails, SetKillFlag, WorkerExit
  <2>. QED  BY <1>1, <2>1, <2>2, <2>3 DEF TimerInv, TimersOwn, Ours, refVars, RangeOf
<1>6. Visited'
  <2>1. CASE TickStart
    BY <2>1 DEF TickStart, Visited, TimerInv, TimerTypeOK
  <2>2. CASE ~TickStart
    BY <2>2 DEF TickMergeFails, SetKillFlag, WorkerExit, TimerInv, Visited
  <2>. QED  BY <2>1, <2>2
<1>. QED  BY <1>2, <1>3, <1>4, <1>5, <1>6 DEF TimerInv

LEMMA TickMergeKeeps ==
  ASSUME TimerInv, TickMerge
  PROVE  TimerInv'
<1>1. /\ timers' = timers \o newTimers /\ newTimers' = <<>> /\ worker = "tick"
      /\ worker' = "loop" /\ called' = {} /\ ii' = 1
      /\ UNCHANGED <<refVars, assoc, kill_flag>>
  BY DEF TickMerge
<1>2. /\ timers' \in Seq(Objects) /\ Once(timers')
      /\ RangeOf(timers') = RangeOf(timers) \cup RangeOf(newTimers)
  BY <1>1, Merged DEF TimerInv
<1>3. RangeOf(newTimers') = {} /\ Len(newTimers') = 0
  BY <1>1 DEF RangeOf
<1>4. TimerTypeOK'
  <2>1. Len(timers') \in Nat /\ 1 \in 1 .. Len(timers') + 1
    BY <1>2
  <2>. QED  BY <1>1, <1>2, <2>1 DEF TimerInv, TimerTypeOK
<1>5. OneTimer'
  BY <1>2, <1>3 DEF OneTimer, Once
<1>6. Associating'
  BY <1>1, <1>2 DEF TimerInv, Associating, refVars
<1>7. TimersOwn'
  <2>1. \A o \in (RangeOf(timers) \cup RangeOf(newTimers)) \ forced : Ours(o)
    BY <1>1 DEF TimerInv, TimersOwn, RangeOf
  <2>2. ASSUME NEW k \in 1 .. Len(timers'), timers'[k] \notin forced
        PROVE  Ours(timers[k])'
    <3>1. timers'[k] \in RangeOf(timers') 
      BY DEF RangeOf
    <3>2. Ours(timers'[k])
      BY <1>2, <2>1, <2>2, <3>1
    <3>. QED  BY <1>1, <3>2 DEF Ours, refVars
  <2>. QED  BY <1>1, <1>3, <2>2 DEF TimersOwn, refVars
<1>8. Visited'
  BY <1>1 DEF Visited
<1>. QED  BY <1>4, <1>5, <1>6, <1>7, <1>8 DEF TimerInv

(* At the end of the thread the timers are released in order. *)
LEMMA ExitReleasesKeeps ==
  ASSUME RefInv, TimerInv, ExitReleases
  PROVE  TimerInv' /\ ReleaseRef(Worker, timers[ii]) /\ timers[ii] \in Objects
<1>. DEFINE o == timers[ii]
            n == Len(timers)
<1>1. /\ timers \in Seq(Objects) /\ n \in Nat /\ ii \in 1 .. n /\ o \in Objects
      /\ worker = "exit" /\ o \notin forced /\ frame[Worker] = Idle
  BY DEF ExitReleases, TimerInv, TimerTypeOK
<1>2. \A t \in Users : assoc[t] = NoObject
  BY <1>1 DEF TimerInv, Associating
<1>3. Worker \in holders[o]
  BY <1>1, <1>2, TimerAssumption DEF TimerInv, TimersOwn, Ours
<1>4. ReleaseRef(Worker, o)
  BY <1>1, <1>3 DEF ExitReleases, ReleaseRef
<1>5. /\ holders' = [holders EXCEPT ![o] = @ \ {Worker}] /\ ii' = ii + 1
      /\ UNCHANGED <<objShutdown, forced, newTimers, timers, assoc, worker, called, kill_flag>>
  BY DEF ExitReleases, Decrement
<1>6. TimerTypeOK'
  BY <1>1, <1>5 DEF TimerInv, TimerTypeOK
<1>7. OneTimer' /\ Visited'
  <2>1. OneTimer'
    BY <1>5, Zenon DEF TimerInv, OneTimer
  <2>. QED  BY <1>1, <1>5, <2>1 DEF Visited
<1>8. Associating'
  BY <1>2, <1>5 DEF Associating
<1>9. TimersOwn'
  <2>1. ASSUME NEW p \in Objects, p # o, Ours(p) PROVE Ours(p)'
    BY <1>5, <2>1 DEF Ours, RefInv, Owners, RefTypeOK
  <2>2. o \notin RangeOf(newTimers) /\ RangeOf(newTimers) \subseteq Objects
    <3>1. o \in RangeOf(timers)
      BY <1>1 DEF RangeOf
    <3>2. RangeOf(newTimers) \subseteq Objects
      BY DEF TimerInv, TimerTypeOK, RangeOf
    <3>. QED  BY <3>1, <3>2 DEF TimerInv, OneTimer
  <2>3. ASSUME NEW k \in 1 .. n, k >= ii + 1, timers[k] \notin forced PROVE Ours(timers[k])'
    <3>1. k >= ii /\ k # ii
      BY <1>1, <2>3
    <3>2. timers[k] \in Objects /\ timers[k] # o /\ Ours(timers[k])
      BY <1>1, <2>3, <3>1 DEF TimerInv, OneTimer, Once, TimersOwn
    <3>3. PICK p \in Objects : p = timers[k]
      BY <3>2
    <3>4. Ours(p)'
      BY <2>1, <3>2, <3>3
    <3>. QED  BY <1>5, <3>3, <3>4 DEF Ours
  <2>4. ASSUME NEW p \in RangeOf(newTimers) \ forced PROVE Ours(p)'
    BY <2>1, <2>2, <2>4 DEF TimerInv, TimersOwn
  <2>. QED  BY <1>1, <1>5, <2>3, <2>4 DEF TimerInv, TimersOwn
<1>. QED  BY <1>1, <1>4, <1>6, <1>7, <1>8, <1>9 DEF TimerInv

LEMMA ExitDoneKeeps ==
  ASSUME TimerInv, ExitDone
  PROVE  TimerInv'
<1>1. /\ worker = "exit" /\ worker' = "gone" /\ timers' = <<>> /\ ii' = 1
      /\ UNCHANGED <<refVars, newTimers, assoc, called, kill_flag>>
  BY DEF ExitDone
<1>2. Len(timers') = 0 /\ RangeOf(timers') = {} /\ timers' \in Seq(Objects) /\ 1 .. 0 = {}
  BY <1>1 DEF RangeOf
<1>3. TimerTypeOK'
  BY <1>1, <1>2 DEF TimerInv, TimerTypeOK
<1>4. OneTimer' /\ Visited'
  BY <1>1, <1>2 DEF TimerInv, OneTimer, Visited, Once, RangeOf
<1>5. Associating'
  BY <1>1 DEF TimerInv, Associating
<1>6. TimersOwn'
  BY <1>1, <1>2 DEF TimerInv, TimersOwn, Ours, refVars, RangeOf
<1>. QED  BY <1>3, <1>4, <1>5, <1>6 DEF TimerInv
-----------------------------------------------------------------------------
(* Every step of the composition is a step of RefObjects or leaves it alone,
   and keeps the invariant. *)
LEMMA TimerStep ==
  ASSUME ~Overlap, RefInv, TimerInv, [TimerNext]_allVars
  PROVE  TimerInv' /\ [RefNext]_refVars
<1>1. Worker \in Threads /\ Users \subseteq Threads
  BY TimerAssumption DEF Users
<1>2. ASSUME NEW t \in Users, UserStep(t), Quiet PROVE TimerInv' /\ [RefNext]_refVars
  <2>1. CASE assoc[t] = NoObject /\ ThreadUses(t, Users) /\ UNCHANGED timerVars
    <3>1. OthersStep
      BY <2>1 DEF OthersStep
    <3>2. ThreadUses(t, Threads)
      BY <1>1, <2>1 DEF ThreadUses
    <3>. QED  BY <1>1, <1>2, <2>1, <3>1, <3>2, OthersKeep DEF RefNext
  <2>2. CASE ThreadFinishes(t) /\ UNCHANGED timerVars
    <3>1. OthersStep
      BY <2>2 DEF OthersStep
    <3>. QED  BY <1>1, <1>2, <2>2, <3>1, OthersKeep DEF RefNext
  <2>3. ASSUME NEW o \in Objects, Associate(t, o) PROVE TimerInv' /\ [RefNext]_refVars
    BY <2>3, AssociateKeeps DEF Associate
  <2>4. CASE AssociateAddRef(t)
    BY <1>1, <2>4, AssociateAddRefKeeps DEF RefNext, ThreadUses
  <2>. QED  BY <1>2, <2>1, <2>2, <2>3, <2>4 DEF UserStep
<1>3. ASSUME WorkerStep, Quiet PROVE TimerInv' /\ [RefNext]_refVars
  <2>1. CASE TickStart \/ TickMergeFails \/ WorkerExit
    BY <1>3, <2>1, WorkerMoves DEF TickStart, TickMergeFails, WorkerExit
  <2>2. CASE TickReleases
    BY <1>1, <2>2, TickReleasesKeeps DEF RefNext, ThreadUses
  <2>3. CASE TickCalls
    BY <2>3, TickCallsKeeps DEF TickCalls
  <2>4. CASE TickMerge
    BY <2>4, TickMergeKeeps DEF TickMerge
  <2>5. CASE ExitReleases
    BY <1>1, <2>5, ExitReleasesKeeps DEF RefNext, ThreadUses
  <2>6. CASE ExitDone
    BY <2>6, ExitDoneKeeps DEF ExitDone
  <2>. QED  BY <1>3, <2>1, <2>2, <2>3, <2>4, <2>5, <2>6 DEF WorkerStep
<1>4. CASE SetKillFlag
  BY <1>4, WorkerMoves DEF SetKillFlag
<1>5. CASE RefStep(OnFinalize) \/ RefStep(ReaperStep) \/ RefStep(ThreadFinishes(Worker))
  <2>1. OthersStep /\ UNCHANGED timerVars /\ Quiet
    BY <1>5 DEF RefStep, OthersStep
  <2>2. RefNext
    BY <1>1, <1>5 DEF RefStep, RefNext
  <2>. QED  BY <2>1, <2>2, OthersKeep
<1>6. CASE UNCHANGED allVars
  <2>1. UNCHANGED refVars /\ UNCHANGED timerVars
    BY <1>6 DEF allVars
  <2>2. TimerTypeOK'
    BY <2>1 DEF timerVars, TimerInv, TimerTypeOK
  <2>3. OneTimer' /\ Visited'
    BY <2>1, Zenon DEF timerVars, TimerInv, OneTimer, Visited
  <2>4. Associating' /\ TimersOwn'
    BY <2>1 DEF timerVars, refVars, TimerInv, Associating, TimersOwn, Ours, RangeOf
  <2>. QED  BY <2>1, <2>2, <2>3, <2>4 DEF TimerInv
<1>. QED  BY <1>2, <1>3, <1>4, <1>5, <1>6 DEF TimerNext

LEMMA TimersLive == RefInv /\ TimerInv => TimersSafe
<1>. SUFFICES ASSUME RefInv, TimerInv PROVE TimersSafe
  OBVIOUS
<1>1. NotFreedWhileHeld
  BY DEF RefInv, Owners, OwnedIsActive, Lists, ListsApart, NotFreedWhileHeld, RefTypeOK
<1>2. TimerObjectsLive
  <2>. SUFFICES ASSUME worker # "exit",
                       NEW o \in (RangeOf(timers) \cup RangeOf(newTimers)) \ forced
                PROVE  o \notin freed /\ Ours(o)
    BY DEF TimerObjectsLive, Ours
  <2>1. o \in Objects /\ Ours(o)
    BY DEF TimerInv, TimerTypeOK, TimersOwn, RangeOf
  <2>2. o # NoObject
    BY <2>1, TimerAssumption
  <2>3. holders[o] # {}
    BY <2>1, <2>2 DEF Ours, TimerInv, Associating
  <2>. QED  BY <1>1, <2>1, <2>3 DEF NotFreedWhileHeld
<1>3. TickVisitsOnce
  BY OnceCounted DEF TimerInv, TimerTypeOK, OneTimer, Visited, TickVisitsOnce
<1>. QED  BY <1>1, <1>2, <1>3 DEF TimerInv, TimersSafe

(* A worker with its timers keeps to the rules of reference-counted objects:
   what is proved of RefObjects holds of every behaviour of the composition
   (WorkerThreads.cpp takes and gives back references as any owner does). *)
THEOREM TimersAreOwners ==
  ASSUME ~Overlap
  PROVE  TimerSpec => RefSpec
<1>1. TimerInit => RefInit
  BY DEF TimerInit
<1>2. RefInv /\ TimerInv /\ [TimerNext]_allVars => RefInv' /\ TimerInv' /\ [RefNext]_refVars
  BY TimerStep, RefInductive
<1>. QED  BY <1>1, <1>2, TimerInitial, PTL DEF TimerSpec, RefSpec

(* The two arrays of timers are walked and changed without losing a timer or
   touching a freed object, and every tick visits every timer once
   (WorkerThread::Associate, TickTimers and the end of Entrypoint). *)
THEOREM TimersCorrect ==
  ASSUME ~Overlap
  PROVE  TimerSpec => []TimersSafe
<1>1. RefInv /\ TimerInv /\ [TimerNext]_allVars => RefInv' /\ TimerInv'
  BY TimerStep, RefInductive
<1>. QED  BY <1>1, TimerInitial, TimersLive, PTL DEF TimerSpec

-----------------------------------------------------------------------------
(* The worker's event flag *)

(* A buffer in a queue is announced: the flag is up, or a thread is about to
   raise it. *)
Announced(p) == queued[p] # << >> => eventFlag \/ setting > 0

QueueTypes ==
  /\ DOMAIN queued = Priorities /\ setting \in Nat /\ eventFlag \in BOOLEAN
  /\ level \in Priorities /\ queuePc \in {"look", "wait", "grab", "run", "exit"}

(* A queue the worker has looked at, and found empty, is one that is announced
   when something is delivered to it; the worker waits with both behind it. *)
SeenEmpty ==
  /\ queuePc = "wait" => level = 1 /\ Announced(1) /\ Announced(2)
  /\ queuePc = "look" /\ level = 2 => Announced(1)

WakeInv == QueueTypes /\ SeenEmpty

LEMMA DeliverStep ==
  ASSUME WakeInv, NEW p \in Priorities, NEW cbs, DeliverBuffers(p, cbs)
  PROVE  WakeInv'
<1>1. setting \in Nat /\ setting' = setting + 1
      /\ UNCHANGED <<eventFlag, queuePc, level>> /\ DOMAIN queued' = Priorities
  BY DEF WakeInv, QueueTypes, DeliverBuffers
<1>2. setting' \in Nat /\ setting' > 0
  BY <1>1
<1> QED BY <1>1, <1>2 DEF WakeInv, QueueTypes, SeenEmpty, Announced

LEMMA RaiseStep ==
  ASSUME WakeInv, FlagSet \/ SetKill
  PROVE  WakeInv'
<1>1. CASE FlagSet
  <2>1. setting' \in Nat /\ eventFlag' = TRUE /\ UNCHANGED <<queued, queuePc, level>>
    BY <1>1 DEF FlagSet, WakeInv, QueueTypes
  <2> QED BY <2>1 DEF WakeInv, QueueTypes, SeenEmpty, Announced
<1>2. CASE SetKill
  BY <1>2 DEF SetKill, WakeInv, QueueTypes, SeenEmpty, Announced
<1> QED BY <1>1, <1>2

(* The worker comes to its wait by finding both queues empty, one after the
   other; it consumes the flag only on its way to them. *)
LEMMA LookingStep ==
  ASSUME WakeInv, QueueWorker \/ WaitTimesOut
  PROVE  WakeInv'
<1>0. 1 \in Priorities /\ 2 \in Priorities /\ 1 # 2 /\ \A p \in Priorities : p = 1 \/ p = 2
  BY DEF Priorities
<1>1. CASE LookForEvents
  <2>1. /\ UNCHANGED <<queued, setting, eventFlag>> /\ queuePc = "look"
        /\ \/ queuePc' = "grab" /\ level' = 1
           \/ queued[1] = << >> /\ level = 1 /\ level' = 2 /\ queuePc' = "look"
           \/ queued[2] = << >> /\ level = 2 /\ queuePc' = "wait" /\ level' = 1
    BY <1>0, <1>1 DEF LookForEvents, WakeInv, QueueTypes
  <2> QED BY <1>0, <2>1 DEF WakeInv, QueueTypes, SeenEmpty, Announced
<1>2. CASE FlagSeen
  BY <1>2 DEF FlagSeen, WakeInv, QueueTypes, SeenEmpty
<1>3. CASE GrabQueue \/ FilterTurn
  <2>1. UNCHANGED <<setting, eventFlag, level>> /\ DOMAIN queued' = Priorities /\ queuePc' = "run"
    BY <1>3 DEF GrabQueue, FilterTurn, WakeInv, QueueTypes
  <2> QED BY <2>1 DEF WakeInv, QueueTypes, SeenEmpty
<1>6. CASE NothingQueued \/ RunRemaining
  <2>1. /\ UNCHANGED <<queued, setting, eventFlag>>
        /\ \/ queuePc' = "look" /\ level' = 1
           \/ queuePc' = "grab" /\ level' = 2
    BY <1>0, <1>6 DEF NothingQueued, RunRemaining, NextQueue, WakeInv, QueueTypes
  <2> QED BY <1>0, <2>1 DEF WakeInv, QueueTypes, SeenEmpty
<1>4. CASE QueueExit
  BY <1>4 DEF QueueExit, WakeInv, QueueTypes, SeenEmpty
<1>5. CASE WaitTimesOut
  BY <1>5 DEF WaitTimesOut, WakeInv, QueueTypes, SeenEmpty
<1> QED BY <1>1, <1>2, <1>3, <1>4, <1>5, <1>6 DEF QueueWorker

(* The worker sleeps on empty queues, or the flag is up or about to be raised:
   no delivery between its look, which is without the locks, and its wait is
   missed, whichever threads deliver and however many buffers
   (WorkerThreads.cpp, DeliverBuffers and Entrypoint). *)
THEOREM WakeCorrect == QueueSpec => []NoLostWakeup
<1>1. QueueInit => WakeInv
  <2> SUFFICES ASSUME QueueInit PROVE WakeInv
    OBVIOUS
  <2>1. DOMAIN queued = Priorities /\ 1 \in Priorities /\ level = 1 /\ level # 2 /\ setting \in Nat
    BY DEF QueueInit, Priorities
  <2>2. eventFlag \in BOOLEAN /\ queuePc = "look"
    BY DEF QueueInit
  <2> QED BY <2>1, <2>2 DEF WakeInv, QueueTypes, SeenEmpty
<1>2. WakeInv /\ [QueueNext]_queueVars => WakeInv'
  <2> SUFFICES ASSUME WakeInv, [QueueNext]_queueVars PROVE WakeInv'
    OBVIOUS
  <2>1. CASE QueueNext
    BY <2>1, DeliverStep, RaiseStep, LookingStep DEF QueueNext
  <2>2. CASE UNCHANGED queueVars
    BY <2>2 DEF queueVars, WakeInv, QueueTypes, SeenEmpty, Announced
  <2> QED BY <2>1, <2>2
<1>3. WakeInv => NoLostWakeup
  BY DEF WakeInv, SeenEmpty, NoLostWakeup, Announced, Priorities
<1> QED BY <1>1, <1>2, <1>3, PTL DEF QueueSpec

-----------------------------------------------------------------------------
(* The worker's queues and the filter *)

Buffer == [id : Nat, cb : Callbacks, prio : Priorities]

Follows(x, y) == x.cb = y.cb /\ x.prio = y.prio => x.id < y.id
InOrder(s) == \A i, j \in 1 .. Len(s) : i < j => Follows(s[i], s[j])
Before(s, t) == \A i \in 1 .. Len(s), j \in 1 .. Len(t) : Follows(s[i], t[j])
Holds(s, b) == \E i \in 1 .. Len(s) : s[i] = b
OneCallback(s) == \A i \in 1 .. Len(s) : s[i].cb = s[1].cb
Given(s, n) == \A i \in 1 .. Len(s) : s[i].id <= n

(* Two stretches of buffers, one behind the other. *)
LEMMA JoinedOrder ==
  ASSUME NEW s \in Seq(Buffer), NEW t \in Seq(Buffer)
  PROVE  /\ s \o t \in Seq(Buffer) /\ Len(s \o t) = Len(s) + Len(t)
         /\ InOrder(s) /\ InOrder(t) /\ Before(s, t) => InOrder(s \o t)
         /\ \A u \in Seq(Buffer) : Before(s, u) /\ Before(t, u) => Before(s \o t, u)
         /\ \A u \in Seq(Buffer) : Before(u, s) /\ Before(u, t) => Before(u, s \o t)
         /\ \A b : Holds(s \o t, b) <=> Holds(s, b) \/ Holds(t, b)
         /\ \A n \in Nat : Given(s, n) /\ Given(t, n) => Given(s \o t, n)
<1> DEFINE r == s \o t
<1>1. /\ r \in Seq(Buffer) /\ Len(r) = Len(s) + Len(t) /\ Len(s) \in Nat /\ Len(t) \in Nat
      /\ \A i \in 1 .. Len(s) + Len(t) : r[i] = IF i <= Len(s) THEN s[i] ELSE t[i - Len(s)]
  BY ConcatProperties
<1> HIDE DEF r
<1>2. \A i \in 1 .. Len(r) : \/ i \in 1 .. Len(s) /\ r[i] = s[i]
                             \/ i - Len(s) \in 1 .. Len(t) /\ r[i] = t[i - Len(s)]
  BY <1>1
<1>3. ASSUME InOrder(s), InOrder(t), Before(s, t) PROVE InOrder(r)
  <2> SUFFICES ASSUME NEW i \in 1 .. Len(r), NEW j \in 1 .. Len(r), i < j
               PROVE  Follows(r[i], r[j])
    BY DEF InOrder
  <2>1. CASE j \in 1 .. Len(s)
    <3>1. i \in 1 .. Len(s) /\ r[i] = s[i] /\ r[j] = s[j]
      BY <1>1, <2>1
    <3> QED BY <3>1, <2>1, <1>3 DEF InOrder
  <2>2. CASE j \notin 1 .. Len(s) /\ i \in 1 .. Len(s)
    <3>1. r[i] = s[i] /\ j - Len(s) \in 1 .. Len(t) /\ r[j] = t[j - Len(s)]
      BY <1>1, <2>2
    <3> QED BY <3>1, <2>2, <1>3 DEF Before
  <2>3. CASE j \notin 1 .. Len(s) /\ i \notin 1 .. Len(s)
    <3> DEFINE k == i - Len(s)
               l == j - Len(s)
    <3>1. k \in 1 .. Len(t) /\ r[i] = t[k] /\ l \in 1 .. Len(t) /\ r[j] = t[l] /\ k < l
      BY <1>1, <2>3
    <3> HIDE DEF k, l
    <3> QED BY <3>1, <1>3 DEF InOrder
  <2> QED BY <2>1, <2>2, <2>3
<1>4. \A u \in Seq(Buffer) : Before(s, u) /\ Before(t, u) => Before(r, u)
  BY <1>2 DEF Before
<1>5. \A u \in Seq(Buffer) : Before(u, s) /\ Before(u, t) => Before(u, r)
  BY <1>2 DEF Before
<1>6. \A b : Holds(r, b) <=> Holds(s, b) \/ Holds(t, b)
  <2> SUFFICES ASSUME NEW b PROVE Holds(r, b) <=> Holds(s, b) \/ Holds(t, b)
    OBVIOUS
  <2>1. Holds(r, b) => Holds(s, b) \/ Holds(t, b)
    BY <1>2 DEF Holds
  <2>2. ASSUME Holds(s, b) PROVE Holds(r, b)
    <3>1. PICK i \in 1 .. Len(s) : s[i] = b
      BY <2>2 DEF Holds
    <3>2. i \in 1 .. Len(r) /\ r[i] = b
      BY <1>1, <3>1
    <3> QED BY <3>2 DEF Holds
  <2>3. ASSUME Holds(t, b) PROVE Holds(r, b)
    <3>1. PICK i \in 1 .. Len(t) : t[i] = b
      BY <2>3 DEF Holds
    <3> DEFINE k == i + Len(s)
    <3>2. k \in 1 .. Len(s) + Len(t) /\ ~(k <= Len(s)) /\ k - Len(s) = i
      BY <1>1
    <3> HIDE DEF k
    <3>3. r[k] = b
      BY <1>1, <3>1, <3>2
    <3> QED BY <1>1, <3>2, <3>3 DEF Holds
  <2> QED BY <2>1, <2>2, <2>3
<1>7. \A n \in Nat : Given(s, n) /\ Given(t, n) => Given(r, n)
  BY <1>2 DEF Given
<1> QED BY <1>1, <1>3, <1>4, <1>5, <1>6, <1>7 DEF r

(* The first of a stretch and the rest of it. *)
LEMMA TakenApart ==
  ASSUME NEW s \in Seq(Buffer), s # << >>
  PROVE  LET c == <<Head(s)>> IN
         /\ c \in Seq(Buffer) /\ Tail(s) \in Seq(Buffer) /\ Head(s) \in Buffer
         /\ Len(c) = 1 /\ Len(s) = Len(Tail(s)) + 1 /\ c[1] = Head(s) /\ Head(s) = s[1]
         /\ Len(Tail(s)) \in Nat
         /\ InOrder(c) /\ OneCallback(c)
         /\ InOrder(s) => InOrder(Tail(s)) /\ Before(c, Tail(s))
         /\ \A u \in Seq(Buffer) : Before(s, u) => Before(c, u) /\ Before(Tail(s), u)
         /\ \A u \in Seq(Buffer) : Before(u, s) => Before(u, c) /\ Before(u, Tail(s))
         /\ \A b : Holds(s, b) <=> Holds(c, b) \/ Holds(Tail(s), b)
         /\ \A n \in Nat : Given(s, n) => Given(c, n) /\ Given(Tail(s), n)
<1> DEFINE c == <<Head(s)>>
           r == Tail(s)
<1>1. /\ Head(s) \in Buffer /\ r \in Seq(Buffer) /\ Len(r) = Len(s) - 1
      /\ \A i \in 1 .. Len(r) : r[i] = s[i + 1]
  BY HeadTailProperties
<1>2. Len(s) \in Nat /\ Len(r) \in Nat /\ Len(s) >= 1
  BY <1>1, LenProperties
<1>3. Head(s) = s[1]
  OBVIOUS
<1>4. c \in Seq(Buffer) /\ Len(c) = 1 /\ c[1] = s[1]
  BY <1>1, <1>3
<1> HIDE DEF c, r
<1>5. \A i \in 1 .. Len(r) : i + 1 \in 1 .. Len(s) /\ r[i] = s[i + 1] /\ 1 < i + 1
  BY <1>1, <1>2
<1>6. 1 \in 1 .. Len(s) /\ \A i \in 1 .. Len(c) : c[i] = s[1] /\ i = 1
  BY <1>2, <1>4
<1>7. InOrder(c) /\ OneCallback(c)
  BY <1>6 DEF InOrder, OneCallback
<1>8. InOrder(s) => InOrder(r) /\ Before(c, r)
  <2>1. InOrder(s) => InOrder(r)
    <3> SUFFICES ASSUME InOrder(s), NEW i \in 1 .. Len(r), NEW j \in 1 .. Len(r), i < j
                 PROVE  Follows(r[i], r[j])
      BY DEF InOrder
    <3>1. i + 1 < j + 1
      BY <1>2
    <3> QED BY <1>5, <3>1 DEF InOrder
  <2>2. InOrder(s) => Before(c, r)
    BY <1>5, <1>6 DEF InOrder, Before
  <2> QED BY <2>1, <2>2
<1>9. \A u \in Seq(Buffer) : Before(s, u) => Before(c, u) /\ Before(r, u)
  BY <1>5, <1>6 DEF Before
<1>10. \A u \in Seq(Buffer) : Before(u, s) => Before(u, c) /\ Before(u, r)
  BY <1>5, <1>6 DEF Before
<1>11. \A b : Holds(s, b) <=> Holds(c, b) \/ Holds(r, b)
  <2> SUFFICES ASSUME NEW b PROVE Holds(s, b) <=> Holds(c, b) \/ Holds(r, b)
    OBVIOUS
  <2>1. Holds(c, b) \/ Holds(r, b) => Holds(s, b)
    BY <1>5, <1>6 DEF Holds
  <2>2. ASSUME Holds(s, b) PROVE Holds(c, b) \/ Holds(r, b)
    <3>1. PICK i \in 1 .. Len(s) : s[i] = b
      BY <2>2 DEF Holds
    <3>2. CASE i = 1
      BY <3>1, <3>2, <1>4 DEF Holds
    <3>3. CASE i # 1
      <4>1. i - 1 \in 1 .. Len(r) /\ r[i - 1] = s[i]
        BY <3>3, <1>1, <1>2
      <4> QED BY <3>1, <4>1 DEF Holds
    <3> QED BY <3>2, <3>3
  <2> QED BY <2>1, <2>2
<1>12. \A n \in Nat : Given(s, n) => Given(c, n) /\ Given(r, n)
  BY <1>5, <1>6 DEF Given
<1>13. Len(s) = Len(r) + 1
  BY <1>1, <1>2
<1> QED BY <1>1, <1>2, <1>3, <1>4, <1>7, <1>8, <1>9, <1>10, <1>11, <1>12, <1>13 DEF c, r

LEMMA NoneThere ==
  /\ << >> \in Seq(Buffer) /\ Len(<< >>) = 0 /\ InOrder(<< >>) /\ OneCallback(<< >>)
  /\ \A u \in Seq(Buffer) : Before(u, << >>) /\ Before(<< >>, u)
  /\ \A b : ~Holds(<< >>, b)
  /\ \A n \in Nat : Given(<< >>, n)
<1>1. << >> \in Seq(Buffer) /\ Len(<< >>) = 0
  BY EmptySeq
<1>2. 1 .. Len(<< >>) = {}
  BY <1>1
<1> QED BY <1>1, <1>2 DEF InOrder, OneCallback, Before, Holds, Given

(* Where the buffers are: run, in the batch, in the rest of the queue that was
   taken, in the two queues; together they are those that were delivered. *)
Placed(a, b, w, x, y, d) ==
  /\ a \in Seq(Buffer) /\ b \in Seq(Buffer) /\ w \in Seq(Buffer) /\ x \in Seq(Buffer)
  /\ y \in Seq(Buffer) /\ d \in Seq(Buffer)
  /\ InOrder(a) /\ InOrder(b) /\ InOrder(w) /\ InOrder(x) /\ InOrder(y)
  /\ Before(a, b) /\ Before(a, w) /\ Before(a, x) /\ Before(a, y)
  /\ Before(b, w) /\ Before(b, x) /\ Before(b, y)
  /\ Before(w, x) /\ Before(w, y) /\ Before(x, y)
  /\ Given(a, Len(d)) /\ Given(b, Len(d)) /\ Given(w, Len(d)) /\ Given(x, Len(d))
  /\ Given(y, Len(d))
  /\ Len(a) + Len(b) + Len(w) + Len(x) + Len(y) = Len(d)
  /\ \A c : Holds(d, c) =>
       Holds(a, c) \/ Holds(b, c) \/ Holds(w, c) \/ Holds(x, c) \/ Holds(y, c)

AllOf(s, p) == \A i \in 1 .. Len(s) : s[i].prio = p

LEMMA Apart ==
  ASSUME NEW s, NEW t, NEW p, NEW q, AllOf(s, p), AllOf(t, q), p # q
  PROVE  Before(s, t)
  BY DEF AllOf, Before, Follows

LEMMA Lengths ==
  ASSUME NEW s \in Seq(Buffer)
  PROVE  Len(s) \in Nat
  BY LenProperties

(* A turn of the filter stores current with prev, *)
LEMMA PlacedStored ==
  ASSUME NEW a, NEW b, NEW w, NEW x, NEW y, NEW d, Placed(a, b, w, x, y, d), w # << >>
  PROVE  Placed(a, b \o <<Head(w)>>, Tail(w), x, y, d)
<1> DEFINE c == <<Head(w)>>
           r == Tail(w)
<1>1. /\ c \in Seq(Buffer) /\ r \in Seq(Buffer) /\ Len(c) = 1 /\ Len(w) = Len(r) + 1
      /\ InOrder(c) /\ (InOrder(w) => InOrder(r) /\ Before(c, r))
      /\ \A u \in Seq(Buffer) : Before(w, u) => Before(c, u) /\ Before(r, u)
      /\ \A u \in Seq(Buffer) : Before(u, w) => Before(u, c) /\ Before(u, r)
      /\ \A e : Holds(w, e) <=> Holds(c, e) \/ Holds(r, e)
      /\ \A n \in Nat : Given(w, n) => Given(c, n) /\ Given(r, n)
  BY TakenApart DEF Placed
<1> HIDE DEF c, r
<1>2. /\ b \in Seq(Buffer) /\ b \o c \in Seq(Buffer) /\ Len(b \o c) = Len(b) + Len(c)
      /\ (InOrder(b) /\ InOrder(c) /\ Before(b, c) => InOrder(b \o c))
      /\ \A u \in Seq(Buffer) : Before(b, u) /\ Before(c, u) => Before(b \o c, u)
      /\ \A u \in Seq(Buffer) : Before(u, b) /\ Before(u, c) => Before(u, b \o c)
      /\ \A e : Holds(b \o c, e) <=> Holds(b, e) \/ Holds(c, e)
      /\ \A n \in Nat : Given(b, n) /\ Given(c, n) => Given(b \o c, n)
  BY <1>1, JoinedOrder DEF Placed
<1> DEFINE bc == b \o c
<1> HIDE DEF bc
<1>3. /\ Len(a) \in Nat /\ Len(b) \in Nat /\ Len(r) \in Nat /\ Len(x) \in Nat /\ Len(y) \in Nat
      /\ Len(d) \in Nat
  BY <1>1, Lengths DEF Placed
<1>4. Len(a) + Len(bc) + Len(r) + Len(x) + Len(y) = Len(d)
  BY <1>1, <1>2, <1>3 DEF Placed, bc
<1>5. \A e : Holds(d, e) => Holds(a, e) \/ Holds(bc, e) \/ Holds(r, e) \/ Holds(x, e) \/ Holds(y, e)
  BY <1>1, <1>2 DEF Placed, bc
<1>6. InOrder(bc) /\ InOrder(r) /\ Before(a, bc) /\ Before(a, r) /\ Before(bc, r)
      /\ Before(bc, x) /\ Before(bc, y) /\ Before(r, x) /\ Before(r, y)
  BY <1>1, <1>2 DEF Placed, bc
<1>7. Given(bc, Len(d)) /\ Given(r, Len(d))
  BY <1>1, <1>2, <1>3 DEF Placed, bc
<1>8. bc \in Seq(Buffer)
  BY <1>2 DEF bc
<1>9. Placed(a, bc, r, x, y, d)
  BY <1>1, <1>4, <1>5, <1>6, <1>7, <1>8 DEF Placed
<1> QED BY <1>9 DEF bc, c, r

(* or runs it, if it has another callback, *)
LEMMA PlacedAside ==
  ASSUME NEW a, NEW b, NEW w, NEW x, NEW y, NEW d, Placed(a, b, w, x, y, d), w # << >>,
         Before(<<Head(w)>>, b)
  PROVE  Placed(a \o <<Head(w)>>, b, Tail(w), x, y, d)
<1> DEFINE c == <<Head(w)>>
           r == Tail(w)
<1>1. /\ c \in Seq(Buffer) /\ r \in Seq(Buffer) /\ Len(c) = 1 /\ Len(w) = Len(r) + 1
      /\ InOrder(c) /\ (InOrder(w) => InOrder(r) /\ Before(c, r))
      /\ \A u \in Seq(Buffer) : Before(w, u) => Before(c, u) /\ Before(r, u)
      /\ \A u \in Seq(Buffer) : Before(u, w) => Before(u, c) /\ Before(u, r)
      /\ \A e : Holds(w, e) <=> Holds(c, e) \/ Holds(r, e)
      /\ \A n \in Nat : Given(w, n) => Given(c, n) /\ Given(r, n)
  BY TakenApart DEF Placed
<1>0. Before(c, b)
  OBVIOUS
<1> HIDE DEF c, r
<1>2. /\ a \in Seq(Buffer) /\ a \o c \in Seq(Buffer) /\ Len(a \o c) = Len(a) + Len(c)
      /\ (InOrder(a) /\ InOrder(c) /\ Before(a, c) => InOrder(a \o c))
      /\ \A u \in Seq(Buffer) : Before(a, u) /\ Before(c, u) => Before(a \o c, u)
      /\ \A e : Holds(a \o c, e) <=> Holds(a, e) \/ Holds(c, e)
      /\ \A n \in Nat : Given(a, n) /\ Given(c, n) => Given(a \o c, n)
  BY <1>1, JoinedOrder DEF Placed
<1> DEFINE ac == a \o c
<1> HIDE DEF ac
<1>3. /\ Len(a) \in Nat /\ Len(b) \in Nat /\ Len(r) \in Nat /\ Len(x) \in Nat /\ Len(y) \in Nat
      /\ Len(d) \in Nat
  BY <1>1, Lengths DEF Placed
<1>4. Len(ac) + Len(b) + Len(r) + Len(x) + Len(y) = Len(d)
  BY <1>1, <1>2, <1>3 DEF Placed, ac
<1>5. \A e : Holds(d, e) => Holds(ac, e) \/ Holds(b, e) \/ Holds(r, e) \/ Holds(x, e) \/ Holds(y, e)
  BY <1>1, <1>2 DEF Placed, ac
<1>6. InOrder(ac) /\ InOrder(r) /\ Before(ac, b) /\ Before(ac, r) /\ Before(b, r)
      /\ Before(ac, x) /\ Before(ac, y) /\ Before(r, x) /\ Before(r, y)
  BY <1>0, <1>1, <1>2 DEF Placed, ac
<1>7. Given(ac, Len(d)) /\ Given(r, Len(d))
  BY <1>1, <1>2, <1>3 DEF Placed, ac
<1>8. ac \in Seq(Buffer)
  BY <1>2 DEF ac
<1>9. Placed(ac, b, r, x, y, d)
  BY <1>1, <1>4, <1>5, <1>6, <1>7, <1>8 DEF Placed
<1> QED BY <1>9 DEF ac, c, r

(* or runs the batch, *)
LEMMA PlacedRun ==
  ASSUME NEW a, NEW b, NEW w, NEW x, NEW y, NEW d, Placed(a, b, w, x, y, d)
  PROVE  Placed(a \o b, << >>, w, x, y, d)
<1>2. /\ a \in Seq(Buffer) /\ a \o b \in Seq(Buffer) /\ Len(a \o b) = Len(a) + Len(b)
      /\ (InOrder(a) /\ InOrder(b) /\ Before(a, b) => InOrder(a \o b))
      /\ \A u \in Seq(Buffer) : Before(a, u) /\ Before(b, u) => Before(a \o b, u)
      /\ \A e : Holds(a \o b, e) <=> Holds(a, e) \/ Holds(b, e)
      /\ \A n \in Nat : Given(a, n) /\ Given(b, n) => Given(a \o b, n)
  BY JoinedOrder DEF Placed
<1> DEFINE ab == a \o b
           o == << >>
<1>1. /\ o \in Seq(Buffer) /\ Len(o) = 0 /\ InOrder(o)
      /\ \A u \in Seq(Buffer) : Before(u, o) /\ Before(o, u)
      /\ \A n \in Nat : Given(o, n)
  BY NoneThere
<1> HIDE DEF ab, o
<1>3. /\ Len(a) \in Nat /\ Len(b) \in Nat /\ Len(w) \in Nat /\ Len(x) \in Nat /\ Len(y) \in Nat
      /\ Len(d) \in Nat
  BY Lengths DEF Placed
<1>4. Len(ab) + Len(o) + Len(w) + Len(x) + Len(y) = Len(d)
  BY <1>1, <1>2, <1>3 DEF Placed, ab
<1>5. \A e : Holds(d, e) => Holds(ab, e) \/ Holds(w, e) \/ Holds(x, e) \/ Holds(y, e)
  BY <1>2 DEF Placed, ab
<1>6. InOrder(ab) /\ Before(ab, o) /\ Before(ab, w) /\ Before(ab, x) /\ Before(ab, y)
      /\ Before(o, w) /\ Before(o, x) /\ Before(o, y)
  BY <1>1, <1>2 DEF Placed, ab
<1>7. Given(ab, Len(d)) /\ Given(o, Len(d))
  BY <1>1, <1>2, <1>3 DEF Placed, ab
<1>8. ab \in Seq(Buffer)
  BY <1>2 DEF ab
<1>9. Placed(ab, o, w, x, y, d)
  BY <1>1, <1>4, <1>5, <1>6, <1>7, <1>8 DEF Placed
<1> QED BY <1>9 DEF ab, o

(* A queue is taken. *)
LEMMA PlacedTaken ==
  ASSUME NEW a, NEW x, NEW y, NEW d, Placed(a, << >>, << >>, x, y, d),
         AllOf(x, 1), AllOf(y, 2)
  PROVE  Placed(a, << >>, x, << >>, y, d) /\ Placed(a, << >>, y, x, << >>, d)
<1> DEFINE o == << >>
<1>1. /\ o \in Seq(Buffer) /\ Len(o) = 0 /\ InOrder(o)
      /\ \A u \in Seq(Buffer) : Before(u, o) /\ Before(o, u)
      /\ \A b : ~Holds(o, b)
      /\ \A n \in Nat : Given(o, n)
  BY NoneThere
<1>2. Before(y, x)
  BY Apart
<1>3. Placed(a, o, o, x, y, d)
  OBVIOUS
<1> HIDE DEF o
<1>4. /\ Len(a) \in Nat /\ Len(x) \in Nat /\ Len(y) \in Nat /\ Len(d) \in Nat
  BY <1>3, Lengths DEF Placed
<1>5. /\ Len(a) + Len(o) + Len(x) + Len(o) + Len(y) = Len(d)
      /\ Len(a) + Len(o) + Len(y) + Len(x) + Len(o) = Len(d)
  BY <1>1, <1>3, <1>4 DEF Placed
<1>6. Placed(a, o, x, o, y, d)
  BY <1>1, <1>3, <1>4, <1>5 DEF Placed
<1>7. Placed(a, o, y, x, o, d)
  BY <1>1, <1>2, <1>3, <1>4, <1>5 DEF Placed
<1> QED BY <1>6, <1>7 DEF o

(* A delivery: its buffers are numbered on from those delivered before. *)
Fresh(t, n, p) ==
  /\ t \in Seq(Buffer) /\ AllOf(t, p) /\ \A i \in 1 .. Len(t) : t[i].id = n + i

LEMMA FreshOrder ==
  ASSUME NEW t, NEW n \in Nat, NEW p, Fresh(t, n, p)
  PROVE  /\ InOrder(t) /\ Given(t, n + Len(t))
         /\ \A s \in Seq(Buffer) : Given(s, n) => Before(s, t) /\ Given(s, n + Len(t))
<1>1. Len(t) \in Nat
  BY Lengths DEF Fresh
<1>2. InOrder(t)
  <2> SUFFICES ASSUME NEW i \in 1 .. Len(t), NEW j \in 1 .. Len(t), i < j
               PROVE  t[i].id < t[j].id
    BY DEF InOrder, Follows
  <2> QED BY <1>1 DEF Fresh
<1>3. Given(t, n + Len(t))
  BY <1>1 DEF Given, Fresh
<1>4. ASSUME NEW s \in Seq(Buffer), Given(s, n)
      PROVE  Before(s, t) /\ Given(s, n + Len(t))
  <2>1. \A i \in 1 .. Len(s) : s[i].id \in Nat /\ s[i].id <= n
    <3> SUFFICES ASSUME NEW i \in 1 .. Len(s) PROVE s[i].id \in Nat /\ s[i].id <= n
      OBVIOUS
    <3>1. s[i] \in Buffer
      BY ElementOfSeq
    <3> QED BY <3>1, <1>4 DEF Given, Buffer
  <2>2. Given(s, n + Len(t))
    BY <2>1, <1>1 DEF Given
  <2>3. Before(s, t)
    <3> SUFFICES ASSUME NEW i \in 1 .. Len(s), NEW j \in 1 .. Len(t)
                 PROVE  s[i].id < t[j].id
      BY DEF Before, Follows
    <3> QED BY <2>1, <1>1 DEF Fresh
  <2> QED BY <2>2, <2>3
<1> QED BY <1>2, <1>3, <1>4

LEMMA MoreCounted ==
  ASSUME NEW a \in Nat, NEW b \in Nat, NEW w \in Nat, NEW x \in Nat, NEW y \in Nat,
         NEW t \in Nat
  PROVE  /\ a + b + w + (x + t) + y = (a + b + w + x + y) + t
         /\ a + b + w + x + (y + t) = (a + b + w + x + y) + t
  OBVIOUS

LEMMA PlacedMore ==
  ASSUME NEW a, NEW b, NEW w, NEW x, NEW y, NEW d, Placed(a, b, w, x, y, d),
         AllOf(y, 2), NEW t, NEW p, Fresh(t, Len(d), p)
  PROVE  /\ p = 1 => Placed(a, b, w, x \o t, y, d \o t)
         /\ p = 2 => Placed(a, b, w, x, y \o t, d \o t)
<1> DEFINE n == Len(d) + Len(t)
<1>1. /\ Len(a) \in Nat /\ Len(b) \in Nat /\ Len(w) \in Nat /\ Len(x) \in Nat /\ Len(y) \in Nat
      /\ Len(d) \in Nat /\ t \in Seq(Buffer) /\ Len(t) \in Nat /\ n \in Nat
  BY Lengths DEF Placed, Fresh
<1>2. /\ InOrder(t) /\ Given(t, n)
      /\ \A s \in Seq(Buffer) : Given(s, Len(d)) => Before(s, t) /\ Given(s, n)
  BY <1>1, FreshOrder
<1>3. d \o t \in Seq(Buffer) /\ Len(d \o t) = n /\ \A e : Holds(d \o t, e) <=> Holds(d, e) \/ Holds(t, e)
  BY <1>1, JoinedOrder DEF Placed
<1> DEFINE dt == d \o t
<1> HIDE DEF dt, n
<1>4. ASSUME p = 1 PROVE Placed(a, b, w, x \o t, y, dt)
  <2> DEFINE s == x \o t
  <2>1. /\ s \in Seq(Buffer) /\ Len(s) = Len(x) + Len(t)
        /\ (InOrder(x) /\ InOrder(t) /\ Before(x, t) => InOrder(s))
        /\ \A u \in Seq(Buffer) : Before(x, u) /\ Before(t, u) => Before(s, u)
        /\ \A u \in Seq(Buffer) : Before(u, x) /\ Before(u, t) => Before(u, s)
        /\ \A e : Holds(s, e) <=> Holds(x, e) \/ Holds(t, e)
        /\ \A m \in Nat : Given(x, m) /\ Given(t, m) => Given(s, m)
    BY <1>1, JoinedOrder DEF Placed
  <2>2. Before(t, y)
    BY <1>4, Apart DEF Fresh
  <2> HIDE DEF s
  <2>3. Len(a) + Len(b) + Len(w) + Len(s) + Len(y) = Len(dt)
    <3>1. Len(a) + Len(b) + Len(w) + Len(x) + Len(y) = Len(d)
      BY DEF Placed
    <3>2. Len(dt) = Len(d) + Len(t)
      BY <1>3 DEF dt, n
    <3>3. Len(s) = Len(x) + Len(t)
      BY <2>1
    <3>4. Len(a) + Len(b) + Len(w) + (Len(x) + Len(t)) + Len(y)
            = (Len(a) + Len(b) + Len(w) + Len(x) + Len(y)) + Len(t)
      BY <1>1, MoreCounted
    <3> QED BY ONLY <3>1, <3>2, <3>3, <3>4, Zenon
  <2>4. \A e : Holds(dt, e) => Holds(a, e) \/ Holds(b, e) \/ Holds(w, e) \/ Holds(s, e) \/ Holds(y, e)
    BY <1>3, <2>1 DEF Placed, dt
  <2>5. InOrder(s) /\ Before(a, s) /\ Before(b, s) /\ Before(w, s) /\ Before(s, y)
    BY <1>1, <1>2, <2>1, <2>2 DEF Placed
  <2>6. Given(a, n) /\ Given(b, n) /\ Given(w, n) /\ Given(s, n) /\ Given(y, n)
    BY <1>1, <1>2, <2>1 DEF Placed
  <2>7. Len(dt) = n /\ dt \in Seq(Buffer)
    BY <1>3 DEF dt
  <2>8. Placed(a, b, w, s, y, dt)
    BY <2>1, <2>3, <2>4, <2>5, <2>6, <2>7 DEF Placed
  <2> QED BY <2>8 DEF s
<1>5. ASSUME p = 2 PROVE Placed(a, b, w, x, y \o t, dt)
  <2> DEFINE s == y \o t
  <2>1. /\ s \in Seq(Buffer) /\ Len(s) = Len(y) + Len(t)
        /\ (InOrder(y) /\ InOrder(t) /\ Before(y, t) => InOrder(s))
        /\ \A u \in Seq(Buffer) : Before(u, y) /\ Before(u, t) => Before(u, s)
        /\ \A e : Holds(s, e) <=> Holds(y, e) \/ Holds(t, e)
        /\ \A m \in Nat : Given(y, m) /\ Given(t, m) => Given(s, m)
    BY <1>1, JoinedOrder DEF Placed
  <2> HIDE DEF s
  <2>3. Len(a) + Len(b) + Len(w) + Len(x) + Len(s) = Len(dt)
    <3>1. Len(a) + Len(b) + Len(w) + Len(x) + Len(y) = Len(d)
      BY DEF Placed
    <3>2. Len(dt) = Len(d) + Len(t)
      BY <1>3 DEF dt, n
    <3>3. Len(s) = Len(y) + Len(t)
      BY <2>1
    <3>4. Len(a) + Len(b) + Len(w) + Len(x) + (Len(y) + Len(t))
            = (Len(a) + Len(b) + Len(w) + Len(x) + Len(y)) + Len(t)
      BY <1>1, MoreCounted
    <3> QED BY ONLY <3>1, <3>2, <3>3, <3>4, Zenon
  <2>4. \A e : Holds(dt, e) => Holds(a, e) \/ Holds(b, e) \/ Holds(w, e) \/ Holds(x, e) \/ Holds(s, e)
    BY <1>3, <2>1 DEF Placed, dt
  <2>5. InOrder(s) /\ Before(a, s) /\ Before(b, s) /\ Before(w, s) /\ Before(x, s)
    BY <1>1, <1>2, <2>1 DEF Placed
  <2>6. Given(a, n) /\ Given(b, n) /\ Given(w, n) /\ Given(s, n) /\ Given(x, n)
    BY <1>1, <1>2, <2>1 DEF Placed
  <2>7. Len(dt) = n /\ dt \in Seq(Buffer)
    BY <1>3 DEF dt
  <2>8. Placed(a, b, w, x, s, dt)
    BY <2>1, <2>3, <2>4, <2>5, <2>6, <2>7 DEF Placed
  <2> QED BY <2>8 DEF s
<1> QED BY <1>4, <1>5 DEF dt

(* Only the queues, the filter and what was delivered; what is in a queue has
   its priority, a batch has one callback, and the filter has something in
   hand exactly while it runs. *)
WorkInv ==
  /\ queued \in [Priorities -> Seq(Buffer)] /\ level \in Priorities
  /\ Placed(ran, batch, work, queued[1], queued[2], delivered)
  /\ AllOf(queued[1], 1) /\ AllOf(queued[2], 2)
  /\ OneCallback(batch)
  /\ IF queuePc = "run" THEN batch # << >> ELSE batch = << >> /\ work = << >>

LEMMA TwoPriorities ==
  1 \in Priorities /\ 2 \in Priorities /\ 1 # 2 /\ \A p \in Priorities : p = 1 \/ p = 2
  BY DEF Priorities

LEMMA AllOfJoined ==
  ASSUME NEW s \in Seq(Buffer), NEW t \in Seq(Buffer), NEW p, AllOf(s, p), AllOf(t, p)
  PROVE  AllOf(s \o t, p)
<1> DEFINE r == s \o t
<1>1. /\ Len(r) = Len(s) + Len(t)
      /\ \A i \in 1 .. Len(s) + Len(t) : r[i] = IF i <= Len(s) THEN s[i] ELSE t[i - Len(s)]
  BY ConcatProperties
<1>2. Len(s) \in Nat /\ Len(t) \in Nat
  BY Lengths
<1> HIDE DEF r
<1>3. \A i \in 1 .. Len(r) : \/ i \in 1 .. Len(s) /\ r[i] = s[i]
                             \/ i - Len(s) \in 1 .. Len(t) /\ r[i] = t[i - Len(s)]
  BY <1>1, <1>2
<1>4. AllOf(r, p)
  BY <1>3 DEF AllOf
<1> QED BY <1>4 DEF r

LEMMA WorkDeliver ==
  ASSUME WorkInv, NEW p \in Priorities, NEW cbs \in Deliveries, DeliverBuffers(p, cbs)
  PROVE  WorkInv'
<1> DEFINE n == Len(delivered)
           t == [i \in 1 .. Len(cbs) |-> [id |-> n + i, cb |-> cbs[i], prio |-> p]]
<1>1. PICK k \in 1 .. MaxBuffers : cbs \in [1 .. k -> Callbacks]
  BY DEF Deliveries
<1>2. k \in Nat /\ n \in Nat
  BY WorkQueueAssumption, Lengths DEF WorkInv, Placed
<1>3. cbs \in Seq(Callbacks) /\ Len(cbs) = k
  <2>1. cbs \in Seq(Callbacks)
    BY <1>1, <1>2, SeqDef
  <2>2. DOMAIN cbs = 1 .. k /\ DOMAIN cbs = 1 .. Len(cbs) /\ Len(cbs) \in Nat
    BY <1>1, <2>1, LenProperties
  <2> QED BY <2>1, <2>2, <1>2
<1>4. Fresh(t, n, p) /\ Len(t) = k
  <2>1. \A i \in 1 .. k : [id |-> n + i, cb |-> cbs[i], prio |-> p] \in Buffer
    BY <1>1, <1>2 DEF Buffer
  <2>2. t \in [1 .. k -> Buffer] /\ DOMAIN t = 1 .. k
    BY <1>3, <2>1
  <2>3. t \in Seq(Buffer)
    BY <2>2, <1>2, SeqDef
  <2>4. DOMAIN t = 1 .. Len(t) /\ Len(t) \in Nat
    BY <2>3, LenProperties
  <2>5. Len(t) = k
    BY <2>2, <2>4, <1>2
  <2>6. \A i \in 1 .. Len(t) : t[i].id = n + i /\ t[i].prio = p
    BY <2>2, <2>5, <1>3
  <2> QED BY <2>3, <2>5, <2>6 DEF Fresh, AllOf
<1>5. /\ queued' = [queued EXCEPT ![p] = @ \o t] /\ delivered' = delivered \o t
      /\ queuePc' = queuePc /\ level' = level /\ work' = work /\ batch' = batch /\ ran' = ran
  BY DEF DeliverBuffers, filterVars
<1> HIDE DEF t
<1>6. t \in Seq(Buffer) /\ AllOf(t, p)
  BY <1>4 DEF Fresh
<1>7. queued' \in [Priorities -> Seq(Buffer)]
  <2>1. queued[p] \o t \in Seq(Buffer)
    BY <1>6, JoinedOrder DEF WorkInv
  <2> QED BY <2>1, <1>5 DEF WorkInv
<1>8. /\ p = 1 => Placed(ran, batch, work, queued[1] \o t, queued[2], delivered \o t)
      /\ p = 2 => Placed(ran, batch, work, queued[1], queued[2] \o t, delivered \o t)
  BY <1>4, PlacedMore DEF WorkInv, n
<1>9. \A q \in Priorities : queued'[q] = IF q = p THEN queued[q] \o t ELSE queued[q]
  BY <1>5 DEF WorkInv
<1>10. Placed(ran, batch, work, queued[1], queued[2], delivered)'
  BY <1>5, <1>8, <1>9, TwoPriorities
<1>11. AllOf(queued'[1], 1) /\ AllOf(queued'[2], 2)
  <2>1. queued[1] \in Seq(Buffer) /\ queued[2] \in Seq(Buffer)
    BY TwoPriorities DEF WorkInv
  <2> QED BY <2>1, <1>6, <1>9, TwoPriorities, AllOfJoined DEF WorkInv
<1> QED BY <1>5, <1>7, <1>10, <1>11 DEF WorkInv

LEMMA WorkGrab ==
  ASSUME WorkInv, GrabQueue
  PROVE  WorkInv'
<1> DEFINE q == queued[level]
           c == <<Head(q)>>
<1>1. /\ q # << >> /\ batch' = c /\ work' = Tail(q) /\ queuePc' = "run" /\ queuePc # "run"
      /\ queued' = [queued EXCEPT ![level] = << >>]
      /\ level' = level /\ delivered' = delivered /\ ran' = ran
  BY DEF GrabQueue
<1>2. q \in Seq(Buffer)
  BY DEF WorkInv
<1>3. Placed(ran, << >>, << >>, queued[1], queued[2], delivered)
  BY <1>1 DEF WorkInv
<1>4. \A p \in Priorities : queued'[p] = IF p = level THEN << >> ELSE queued[p]
  BY <1>1 DEF WorkInv
<1>5. Placed(ran, << >>, q, queued'[1], queued'[2], delivered)
  <2>1. Placed(ran, << >>, queued[1], << >>, queued[2], delivered)
        /\ Placed(ran, << >>, queued[2], queued[1], << >>, delivered)
    BY <1>3, PlacedTaken DEF WorkInv
  <2> QED BY <2>1, <1>4, TwoPriorities DEF WorkInv
<1>6. Placed(ran, << >> \o c, Tail(q), queued'[1], queued'[2], delivered)
  BY <1>1, <1>5, PlacedStored
<1>7. c \in Seq(Buffer) /\ OneCallback(c) /\ Len(c) = 1
  BY <1>1, <1>2, TakenApart
<1>8. << >> \o c = c /\ c # << >>
  <2> HIDE DEF c
  <2>1. << >> \o c = c
    BY <1>7, ConcatEmptySeq
  <2>2. Len(<< >>) = 0
    BY EmptySeq
  <2>3. c # << >>
    BY ONLY <1>7, <2>2
  <2> QED BY <2>1, <2>3
<1>9. queued' \in [Priorities -> Seq(Buffer)]
  BY <1>1, NoneThere DEF WorkInv
<1>10. AllOf(queued'[1], 1) /\ AllOf(queued'[2], 2)
  <2>1. \A p : AllOf(<< >>, p)
    BY NoneThere DEF AllOf
  <2> QED BY <2>1, <1>4, TwoPriorities DEF WorkInv
<1> QED BY <1>1, <1>6, <1>7, <1>8, <1>9, <1>10 DEF WorkInv

LEMMA WorkFilter ==
  ASSUME WorkInv, FilterTurn
  PROVE  WorkInv'
<1> DEFINE c == <<Head(work)>>
<1>1. /\ queuePc = "run" /\ work # << >> /\ Filter(Head(work)) /\ work' = Tail(work)
      /\ queued' = queued /\ queuePc' = queuePc /\ level' = level /\ delivered' = delivered
  BY DEF FilterTurn
<1>2. /\ Placed(ran, batch, work, queued[1], queued[2], delivered)
      /\ ran \in Seq(Buffer) /\ batch \in Seq(Buffer) /\ work \in Seq(Buffer) /\ batch # << >>
      /\ OneCallback(batch)
  BY <1>1 DEF WorkInv, Placed
<1>3. c \in Seq(Buffer) /\ OneCallback(c) /\ Len(c) = 1 /\ Head(work) \in Buffer
      /\ c[1] = Head(work)
  BY <1>1, <1>2, TakenApart
<1>4. Append(batch, Head(work)) = batch \o c /\ Append(ran, Head(work)) = ran \o c
  BY <1>2, <1>3, AppendIsConcat
<1>5. Len(batch) \in Nat /\ Len(batch) >= 1
  BY <1>2, EmptySeq
<1>6. CASE batch[1].cb = Head(work).cb
  <2>1. batch' = batch \o c /\ ran' = ran
    BY <1>1, <1>4, <1>6 DEF Filter
  <2>2. Placed(ran, batch \o c, Tail(work), queued[1], queued[2], delivered)
    BY <1>1, <1>2, PlacedStored
  <2> HIDE DEF c
  <2>3. /\ batch \o c \in Seq(Buffer) /\ Len(batch \o c) = Len(batch) + 1
        /\ \A i \in 1 .. Len(batch) + 1 :
             (batch \o c)[i] = IF i <= Len(batch) THEN batch[i] ELSE c[i - Len(batch)]
    <3>1. /\ batch \o c \in Seq(Buffer) /\ Len(batch \o c) = Len(batch) + Len(c)
          /\ \A i \in 1 .. Len(batch) + Len(c) :
               (batch \o c)[i] = IF i <= Len(batch) THEN batch[i] ELSE c[i - Len(batch)]
      BY <1>2, <1>3, ConcatProperties
    <3>2. Len(c) = 1
      BY <1>3
    <3> QED BY <3>1, <3>2
  <2> DEFINE s == batch \o c
  <2> HIDE DEF s
  <2>4. \A i \in 1 .. Len(s) : \/ i \in 1 .. Len(batch) /\ s[i] = batch[i]
                               \/ s[i] = c[1]
    <3> SUFFICES ASSUME NEW i \in 1 .. Len(s)
                 PROVE  \/ i \in 1 .. Len(batch) /\ s[i] = batch[i]
                        \/ s[i] = c[1]
      OBVIOUS
    <3>1. CASE i <= Len(batch)
      BY <3>1, <2>3, <1>5 DEF s
    <3>2. CASE ~(i <= Len(batch))
      <4>1. i - Len(batch) = 1
        BY <3>2, <2>3, <1>5 DEF s
      <4> QED BY <3>2, <4>1, <2>3, <1>5 DEF s
    <3> QED BY <3>1, <3>2
  <2>5. s[1] = batch[1] /\ Len(s) >= 1
    BY <2>3, <1>5 DEF s
  <2>6. OneCallback(s)
    BY <2>4, <2>5, <1>2, <1>3, <1>6 DEF OneCallback
  <2>7. s # << >>
    BY <2>5, EmptySeq
  <2> QED BY <2>1, <2>2, <2>6, <2>7, <1>1 DEF WorkInv, s, c
<1>7. CASE batch[1].cb # Head(work).cb /\ (Len(work) = 1 \/ batch[1].cb = work[2].cb)
  <2>1. batch' = batch /\ ran' = ran \o c
    BY <1>1, <1>4, <1>7 DEF Filter
  <2>2. Before(c, batch)
    <3> SUFFICES ASSUME NEW i \in 1 .. Len(c), NEW j \in 1 .. Len(batch)
                 PROVE  c[i].cb # batch[j].cb
      BY DEF Before, Follows
    <3>1. i = 1
      BY <1>3
    <3>2. batch[j].cb = batch[1].cb
      BY <1>2 DEF OneCallback
    <3> QED BY <3>1, <3>2, <1>3, <1>7
  <2>3. Placed(ran \o c, batch, Tail(work), queued[1], queued[2], delivered)
    BY <1>1, <1>2, <2>2, PlacedAside
  <2> QED BY <2>1, <2>3, <1>1, <1>2 DEF WorkInv
<1>8. CASE batch[1].cb # Head(work).cb /\ ~(Len(work) = 1 \/ batch[1].cb = work[2].cb)
  <2>1. batch' = c /\ ran' = ran \o batch
    BY <1>1, <1>8 DEF Filter
  <2>2. Placed(ran \o batch, << >>, work, queued[1], queued[2], delivered)
    BY <1>2, PlacedRun
  <2>3. Placed(ran \o batch, << >> \o c, Tail(work), queued[1], queued[2], delivered)
    BY <1>1, <2>2, PlacedStored
  <2>4. << >> \o c = c /\ c # << >>
    <3> HIDE DEF c
    <3>1. << >> \o c = c
      BY <1>3, ConcatEmptySeq
    <3>2. Len(<< >>) = 0
      BY EmptySeq
    <3>3. Len(c) = 1
      BY <1>3
    <3>4. c # << >>
      BY ONLY <3>2, <3>3
    <3> QED BY <3>1, <3>4
  <2> QED BY <2>1, <2>3, <2>4, <1>1, <1>3 DEF WorkInv
<1> QED BY <1>6, <1>7, <1>8

LEMMA NextQueueLevels ==
  ASSUME level \in Priorities, NextQueue
  PROVE  level' \in Priorities /\ queuePc' # "run"
  BY TwoPriorities DEF NextQueue, Priorities

LEMMA WorkRemaining ==
  ASSUME WorkInv, RunRemaining
  PROVE  WorkInv'
<1>1. /\ work = << >> /\ ran' = ran \o batch /\ batch' = << >> /\ work' = work
      /\ queued' = queued /\ delivered' = delivered /\ NextQueue
  BY DEF RunRemaining
<1>2. Placed(ran \o batch, << >>, work, queued[1], queued[2], delivered)
  BY PlacedRun DEF WorkInv
<1>3. level' \in Priorities /\ queuePc' # "run"
  BY <1>1, NextQueueLevels DEF WorkInv
<1> QED BY <1>1, <1>2, <1>3, NoneThere DEF WorkInv

LEMMA WorkElse ==
  ASSUME WorkInv, UNCHANGED <<queued, delivered, filterVars>>, level' \in Priorities,
         queuePc # "run" => queuePc' # "run", queuePc = "run" => queuePc' = "run"
  PROVE  WorkInv'
  BY DEF WorkInv, filterVars

LEMMA WorkStep == WorkInv /\ [QueueNext]_queueVars => WorkInv'
<1> SUFFICES ASSUME WorkInv, [QueueNext]_queueVars PROVE WorkInv'
  OBVIOUS
<1>0. level \in Priorities
  BY DEF WorkInv
<1>1. CASE UNCHANGED queueVars
  BY <1>0, <1>1, WorkElse DEF queueVars, filterVars
<1>2. CASE FlagSet \/ SetKill
  BY <1>0, <1>2, WorkElse DEF FlagSet, SetKill
<1>3. CASE LookForEvents
  <2>1. level' \in Priorities /\ queuePc' # "run"
    BY <1>0, <1>3, TwoPriorities DEF LookForEvents
  <2> QED BY <1>3, <2>1, WorkElse DEF LookForEvents
<1>4. CASE FlagSeen \/ WaitTimesOut \/ QueueExit
  BY <1>0, <1>4, WorkElse DEF FlagSeen, WaitTimesOut, QueueExit
<1>5. CASE NothingQueued
  BY <1>0, <1>5, WorkElse, NextQueueLevels DEF NothingQueued
<1> QED BY <1>1, <1>2, <1>3, <1>4, <1>5, WorkDeliver, WorkGrab, WorkFilter, WorkRemaining
        DEF QueueNext, QueueWorker

LEMMA WorkInitial == QueueInit => WorkInv
<1> SUFFICES ASSUME QueueInit PROVE WorkInv
  OBVIOUS
<1>1. queued[1] = << >> /\ queued[2] = << >> /\ queued \in [Priorities -> Seq(Buffer)]
  BY TwoPriorities, NoneThere DEF QueueInit
<1>2. level = 1 /\ work = << >> /\ batch = << >> /\ ran = << >> /\ delivered = << >>
      /\ queuePc = "look"
  BY DEF QueueInit
<1>3. \A p : AllOf(<< >>, p)
  BY NoneThere DEF AllOf
<1>4. Placed(<< >>, << >>, << >>, << >>, << >>, << >>)
  <2> DEFINE o == << >>
  <2>1. /\ o \in Seq(Buffer) /\ Len(o) = 0 /\ InOrder(o)
        /\ \A u \in Seq(Buffer) : Before(u, o) /\ Before(o, u)
        /\ \A b : ~Holds(o, b)
        /\ \A n \in Nat : Given(o, n)
    BY NoneThere
  <2> HIDE DEF o
  <2>2. Len(o) + Len(o) + Len(o) + Len(o) + Len(o) = Len(o) /\ Given(o, Len(o))
    BY <2>1
  <2>3. Before(o, o)
    BY <2>1
  <2>4. Placed(o, o, o, o, o, o)
    BY <2>1, <2>2, <2>3 DEF Placed
  <2> QED BY <2>4 DEF o
<1> QED BY <1>1, <1>2, <1>3, <1>4, TwoPriorities, NoneThere DEF WorkInv

LEMMA RangeHolds ==
  ASSUME NEW s \in Seq(Buffer)
  PROVE  \A b : b \in Range(s) <=> Holds(s, b)
<1>1. DOMAIN s = 1 .. Len(s)
  BY LenProperties
<1> QED BY <1>1 DEF Range, Holds

LEMMA WorkInvSafe == WorkInv => WorkQueueSafe
<1> SUFFICES ASSUME WorkInv PROVE WorkQueueSafe
  OBVIOUS
<1> DEFINE x == queued[1]
           y == queued[2]
           s1 == ran \o batch
           s2 == s1 \o work
           s3 == s2 \o x
           s4 == s3 \o y
<1>1. Placed(ran, batch, work, x, y, delivered)
  BY DEF WorkInv
<1> HIDE DEF x, y
<1>2. s1 \in Seq(Buffer) /\ Len(s1) = Len(ran) + Len(batch)
      /\ \A b : Holds(s1, b) <=> Holds(ran, b) \/ Holds(batch, b)
  BY <1>1, JoinedOrder DEF Placed
<1> HIDE DEF s1
<1>3. s2 \in Seq(Buffer) /\ Len(s2) = Len(s1) + Len(work)
      /\ \A b : Holds(s2, b) <=> Holds(s1, b) \/ Holds(work, b)
  BY <1>1, <1>2, JoinedOrder DEF Placed
<1> HIDE DEF s2
<1>4. s3 \in Seq(Buffer) /\ Len(s3) = Len(s2) + Len(x)
      /\ \A b : Holds(s3, b) <=> Holds(s2, b) \/ Holds(x, b)
  BY <1>1, <1>3, JoinedOrder DEF Placed
<1> HIDE DEF s3
<1>5. s4 \in Seq(Buffer) /\ Len(s4) = Len(s3) + Len(y)
      /\ \A b : Holds(s4, b) <=> Holds(s3, b) \/ Holds(y, b)
  BY <1>1, <1>4, JoinedOrder DEF Placed
<1> HIDE DEF s4
<1>6. Len(s4) = Len(delivered)
  BY <1>1, <1>2, <1>3, <1>4, <1>5 DEF Placed
<1>7. \A d \in Range(delivered) : d \in Range(s4)
  <2>1. delivered \in Seq(Buffer)
    BY <1>1 DEF Placed
  <2>2. \A b : Holds(delivered, b) => Holds(s4, b)
    BY <1>1, <1>2, <1>3, <1>4, <1>5 DEF Placed
  <2> QED BY <2>1, <2>2, <1>5, RangeHolds
<1>8. \A b \in Range(batch) : b.cb = batch[1].cb
  <2>1. batch \in Seq(Buffer)
    BY <1>1 DEF Placed
  <2> QED BY <2>1, RangeHolds DEF WorkInv, OneCallback, Holds
<1>9. RunsOnce
  <2>1. s4 = ran \o batch \o work \o queued[1] \o queued[2]
    BY DEF s1, s2, s3, s4, x, y
  <2> QED BY <2>1, <1>6, <1>7, <1>8 DEF RunsOnce
<1>10. SameCallbackInOrder
  <2>1. ran \in Seq(Buffer) /\ InOrder(ran)
    BY <1>1 DEF Placed
  <2>2. DOMAIN ran = 1 .. Len(ran)
    BY <2>1, LenProperties
  <2> QED BY <2>1, <2>2 DEF SameCallbackInOrder, InOrder, Follows
<1> QED BY <1>9, <1>10 DEF WorkQueueSafe

(* Every buffer delivered is in a queue, in the filter's hands or was run, once
   and in a batch of its own callback, and two of one callback and priority are
   run in the order of their delivery, whichever threads deliver between the
   turns of the filter (WorkerThreads.cpp, DeliverBuffers, ExecuteWorkQueue and
   Entrypoint). *)
THEOREM WorkCorrect == QueueSpec => []WorkQueueSafe
<1>1. QueueInit => WorkInv
  BY WorkInitial
<1>2. WorkInv /\ [QueueNext]_queueVars => WorkInv'
  BY WorkStep
<1>3. WorkInv => WorkQueueSafe
  BY WorkInvSafe
<1> QED BY <1>1, <1>2, <1>3, PTL DEF QueueSpec

-----------------------------------------------------------------------------
(* Linked lists *)

Pointers == Nodes \cup {Nil}
Memory == [next : [Nodes -> Pointers], prev : [Nodes -> Pointers]]
ListEnds == [head : Pointers, tail : Pointers]
Iterators == [on : {"no", "forward", "back", "erased"},
              prev : Pointers, item : Pointers, next : Pointers]

ListTypes ==
  /\ kind \in ListKinds
  /\ mem \in Memory /\ first \in ListEnds /\ second \in ListEnds /\ iter \in Iterators
  /\ should \in [first : Seq(Nodes), second : Seq(Nodes)] /\ todo \in Seq(Nodes)

(* No node is twice in a list, or in both. *)
NoRepeats(s) == \A i, j \in 1 .. Len(s) : s[i] = s[j] => i = j
Disjoint(s, u) == \A i \in 1 .. Len(s), j \in 1 .. Len(u) : s[i] # u[j]
NodesApart == NoRepeats(should.first) /\ NoRepeats(should.second) /\ Disjoint(should.first, should.second)

(* What the iterator has still to visit after its item is the end of the list,
   or for a BackIterator its beginning backwards; it looked up the next item
   before.  Only in a single list is the place of its own item known, and the
   item before it. *)
IterPlaced ==
  /\ iter.on = "no" => iter = NoIter /\ todo = <<>>
  /\ iter.on # "no" => kind \in {"forward", "double", "single"} /\ iter.next = ItemAt(todo, 2)
  /\ iter.on = "back" => kind = "double"
  /\ iter.on = "erased" => kind = "single" /\ Len(todo) >= 1
  /\ iter.on \in {"forward", "back"} => iter.item = ItemAt(todo, 1)
  /\ NoRepeats(todo)
Remaining ==
  LET s == should.first
      z == Len(s) - Len(todo)
  IN
  /\ iter.on # "no" => z >= -1
  /\ iter.on \in {"forward", "erased"} => \A i \in 2 .. Len(todo) : todo[i] = s[z + i]
  /\ iter.on = "back" => \A i \in 2 .. Len(todo) : todo[i] = s[(Len(todo) - i) + 1]
  /\ kind = "single" /\ iter.on = "forward" /\ Len(todo) >= 1 =>
       z >= 0 /\ todo[1] = s[z + 1] /\ iter.prev = ItemAt(s, z)
  /\ iter.on = "erased" => iter.item = ItemAt(s, z + 1)

ListInv == ListTypes /\ NodesApart /\ ListsHold /\ IterPlaced /\ Remaining

-----------------------------------------------------------------------------
LEMMA NilIsNoNode == Nil \notin Nodes /\ Nodes \subseteq Nat
BY ListAssumption

LEMMA ItemFacts ==
  ASSUME NEW s \in Seq(Nodes), NEW i \in Int
  PROVE  /\ ItemAt(s, i) \in Pointers
         /\ i \in 1 .. Len(s) => ItemAt(s, i) = s[i] /\ s[i] \in Nodes
         /\ i \notin 1 .. Len(s) => ItemAt(s, i) = Nil
<1>1. i \in 1 .. Len(s) => s[i] \in Nodes
  BY ElementOfSeq
<1> QED BY <1>1 DEF ItemAt, Pointers

LEMMA Next1Facts ==
  ASSUME NEW m \in Memory, NEW p \in Pointers, NEW q \in Pointers
  PROVE  /\ Next1(m, p, q) \in Memory
         /\ \A x \in Nodes : /\ Next1(m, p, q).next[x] = IF x = p THEN q ELSE m.next[x]
                             /\ Next1(m, p, q).prev[x] = m.prev[x]
<1>1. CASE p = Nil
  BY <1>1, NilIsNoNode DEF Next1
<1>2. CASE p # Nil
  <2>1. p \in Nodes
    BY <1>2 DEF Pointers
  <2>2. /\ m = [next |-> m.next, prev |-> m.prev]
        /\ m.next \in [Nodes -> Pointers] /\ m.prev \in [Nodes -> Pointers]
    BY DEF Memory
  <2> DEFINE f == [m.next EXCEPT ![p] = q]
  <2>3. Next1(m, p, q) = [next |-> f, prev |-> m.prev]
    BY <1>2, <2>2 DEF Next1
  <2>4. f \in [Nodes -> Pointers] /\ \A x \in Nodes : f[x] = IF x = p THEN q ELSE m.next[x]
    BY <2>1, <2>2
  <2> HIDE DEF f
  <2> QED BY <2>2, <2>3, <2>4 DEF Memory
<1> QED BY <1>1, <1>2

LEMMA Prev1Facts ==
  ASSUME NEW m \in Memory, NEW p \in Pointers, NEW q \in Pointers
  PROVE  /\ Prev1(m, p, q) \in Memory
         /\ \A x \in Nodes : /\ Prev1(m, p, q).prev[x] = IF x = p THEN q ELSE m.prev[x]
                             /\ Prev1(m, p, q).next[x] = m.next[x]
<1>1. CASE p = Nil
  BY <1>1, NilIsNoNode DEF Prev1
<1>2. CASE p # Nil
  <2>1. p \in Nodes
    BY <1>2 DEF Pointers
  <2>2. /\ m = [next |-> m.next, prev |-> m.prev]
        /\ m.next \in [Nodes -> Pointers] /\ m.prev \in [Nodes -> Pointers]
    BY DEF Memory
  <2> DEFINE f == [m.prev EXCEPT ![p] = q]
  <2>3. Prev1(m, p, q) = [next |-> m.next, prev |-> f]
    BY <1>2, <2>2 DEF Prev1
  <2>4. f \in [Nodes -> Pointers] /\ \A x \in Nodes : f[x] = IF x = p THEN q ELSE m.prev[x]
    BY <2>1, <2>2
  <2> HIDE DEF f
  <2> QED BY <2>2, <2>3, <2>4 DEF Memory
<1> QED BY <1>1, <1>2

LEMMA BothFacts ==
  ASSUME NEW m \in Memory, NEW p \in Pointers, NEW q \in Pointers
  PROVE  /\ Prev1(Next1(m, p, q), q, p) \in Memory
         /\ \A x \in Nodes : /\ Prev1(Next1(m, p, q), q, p).prev[x] = IF x = q THEN p ELSE m.prev[x]
                             /\ Prev1(Next1(m, p, q), q, p).next[x] = IF x = p THEN q ELSE m.next[x]
<1>1. PICK m1 : m1 = Next1(m, p, q)
  OBVIOUS
<1>2. /\ m1 \in Memory
      /\ \A x \in Nodes : /\ m1.next[x] = IF x = p THEN q ELSE m.next[x]
                          /\ m1.prev[x] = m.prev[x]
  BY <1>1, Next1Facts
<1> QED BY <1>1, <1>2, Prev1Facts

(* m2 is m after p->next = q, or p->prev = q. *)
NextSet(m, p, q, m2) ==
  /\ m2 \in Memory
  /\ \A x \in Nodes : m2.next[x] = (IF x = p THEN q ELSE m.next[x]) /\ m2.prev[x] = m.prev[x]
PrevSet(m, p, q, m2) ==
  /\ m2 \in Memory
  /\ \A x \in Nodes : m2.prev[x] = (IF x = p THEN q ELSE m.prev[x]) /\ m2.next[x] = m.next[x]
LEMMA Next1Sets ==
  ASSUME NEW m \in Memory, NEW p \in Pointers, NEW q \in Pointers
  PROVE  NextSet(m, p, q, Next1(m, p, q))
BY Next1Facts DEF NextSet
LEMMA Prev1Sets ==
  ASSUME NEW m \in Memory, NEW p \in Pointers, NEW q \in Pointers
  PROVE  PrevSet(m, p, q, Prev1(m, p, q))
BY Prev1Facts DEF PrevSet

LEMMA FrontFacts ==
  ASSUME NEW m \in Memory, NEW l, l.head \in Pointers, NEW n \in Nodes
  PROVE  /\ FrontLinked(m, l, n) \in Memory
         /\ \A x \in Nodes :
              /\ FrontLinked(m, l, n).next[x] = IF x = n THEN l.head ELSE m.next[x]
              /\ FrontLinked(m, l, n).prev[x] = IF x = l.head THEN n ELSE IF x = n THEN Nil ELSE m.prev[x]
<1>1. PICK h : h = l.head
  OBVIOUS
<1>2. h \in Pointers /\ n \in Pointers /\ Nil \in Pointers
  BY <1>1 DEF Pointers
<1>3. PICK m0 : m0 = Prev1(m, n, Nil)
  OBVIOUS
<1>4. PICK m1 : m1 = Next1(m0, n, h)
  OBVIOUS
<1>5. PICK m2 : m2 = Prev1(m1, h, n)
  OBVIOUS
<1>6. PrevSet(m, n, Nil, m0)
  BY <1>2, <1>3, Prev1Sets
<1>7. m0 \in Memory
  BY <1>6 DEF PrevSet
<1>8. NextSet(m0, n, h, m1)
  BY <1>2, <1>4, <1>7, Next1Sets
<1>9. m1 \in Memory
  BY <1>8 DEF NextSet
<1>10. PrevSet(m1, h, n, m2)
  BY <1>2, <1>5, <1>9, Prev1Sets
<1>11. FrontLinked(m, l, n) = m2
  BY <1>1, <1>3, <1>4, <1>5 DEF FrontLinked
<1> QED BY <1>1, <1>6, <1>8, <1>10, <1>11 DEF NextSet, PrevSet

(* ListHolds, of any memory and for lists of kind k. *)
Held(k, m, l, s) ==
  /\ l.head = ItemAt(s, 1)
  /\ \A i \in 1 .. Len(s) : m.next[s[i]] = ItemAt(s, i + 1)
  /\ k \in {"forward", "double", "sent"} => \A i \in 1 .. Len(s) : m.prev[s[i]] = ItemAt(s, i - 1)
  /\ k \in {"double", "queue", "sent", "batch"} => l.tail = ItemAt(s, Len(s))

LEMMA UntouchedHeld ==
  ASSUME NEW k, NEW m, NEW m2, NEW l, NEW s, Held(k, m, l, s),
         \A i \in 1 .. Len(s) : m2.next[s[i]] = m.next[s[i]],
         k \in {"forward", "double", "sent"} => \A i \in 1 .. Len(s) : m2.prev[s[i]] = m.prev[s[i]]
  PROVE  Held(k, m2, l, s)
BY DEF Held

(* The items from i to before j go. *)
LEMMA WithoutFacts ==
  ASSUME NEW s \in Seq(Nodes), NEW i \in 1 .. Len(s) + 1, NEW j \in i .. Len(s) + 1
  PROVE  /\ Without(s, i, j) \in Seq(Nodes)
         /\ Len(Without(s, i, j)) = Len(s) - (j - i)
         /\ \A x \in 1 .. Len(s) - (j - i) :
              Without(s, i, j)[x] = IF x < i THEN s[x] ELSE s[x + (j - i)]
<1> DEFINE a == SubSeq(s, 1, i - 1)
           b == SubSeq(s, j, Len(s))
<1>1. Len(s) \in Nat /\ i \in Nat /\ j \in Nat /\ i >= 1 /\ i <= j /\ j <= Len(s) + 1
  BY LenProperties
<1>2. a \in Seq(Nodes) /\ Len(a) = i - 1 /\ \A x \in 1 .. i - 1 : a[x] = s[x]
  <2>1. /\ 1 \in 1 .. Len(s) + 1 /\ i - 1 \in 1 - 1 .. Len(s)
    BY <1>1
  <2>2. /\ a \in Seq(Nodes) /\ Len(a) = IF 1 <= i - 1 THEN ((i - 1) - 1) + 1 ELSE 0
        /\ \A x \in 1 .. ((i - 1) - 1) + 1 : a[x] = s[(1 + x) - 1]
    BY <2>1, SubSeqProperties
  <2> HIDE DEF a
  <2> QED BY <2>2, <1>1
<1>3. /\ b \in Seq(Nodes) /\ Len(b) = (Len(s) + 1) - j
      /\ \A x \in 1 .. (Len(s) + 1) - j : b[x] = s[(j + x) - 1]
  <2>1. /\ j \in 1 .. Len(s) + 1 /\ Len(s) \in j - 1 .. Len(s)
    BY <1>1
  <2>2. /\ b \in Seq(Nodes) /\ Len(b) = IF j <= Len(s) THEN (Len(s) - j) + 1 ELSE 0
        /\ \A x \in 1 .. (Len(s) - j) + 1 : b[x] = s[(j + x) - 1]
    BY <2>1, SubSeqProperties
  <2> HIDE DEF b
  <2> QED BY <2>2, <1>1
<1>4. Without(s, i, j) = a \o b
  BY DEF Without
<1> HIDE DEF a, b
<1>5. /\ a \o b \in Seq(Nodes) /\ Len(a \o b) = Len(a) + Len(b)
      /\ \A x \in 1 .. Len(a) + Len(b) : (a \o b)[x] = IF x <= Len(a) THEN a[x] ELSE b[x - Len(a)]
  BY <1>2, <1>3, ConcatProperties
<1>6. Len(a) + Len(b) = Len(s) - (j - i)
  BY <1>1, <1>2, <1>3
<1>7. ASSUME NEW x \in 1 .. Len(s) - (j - i)
      PROVE  (a \o b)[x] = IF x < i THEN s[x] ELSE s[x + (j - i)]
  <2>1. CASE x < i
    BY <2>1, <1>1, <1>2, <1>5, <1>6
  <2>2. CASE x >= i
    <3>1. x - Len(a) \in 1 .. (Len(s) + 1) - j /\ (j + (x - Len(a))) - 1 = x + (j - i) /\ ~(x <= Len(a))
      BY <2>2, <1>1, <1>2
    <3>2. (a \o b)[x] = b[x - Len(a)]
      BY <3>1, <1>5, <1>6
    <3>3. b[x - Len(a)] = s[(j + (x - Len(a))) - 1]
      BY <3>1, <1>3
    <3>4. ~(x < i)
      BY <2>2, <1>1
    <3>5. (a \o b)[x] = s[x + (j - i)]
      BY <3>1, <3>2, <3>3
    <3> QED BY <3>4, <3>5
  <2>3. x \in Int /\ i \in Int /\ (x < i \/ x >= i)
    BY <1>1
  <2> QED BY <2>1, <2>2, <2>3
<1> QED BY <1>4, <1>5, <1>6, <1>7

LEMMA WithoutApart ==
  ASSUME NEW s \in Seq(Nodes), NEW i \in 1 .. Len(s) + 1, NEW j \in i .. Len(s) + 1, NoRepeats(s)
  PROVE  /\ NoRepeats(Without(s, i, j))
         /\ \A u : Disjoint(s, u) => Disjoint(Without(s, i, j), u)
<1> DEFINE w == Without(s, i, j)
<1>1. /\ Len(w) = Len(s) - (j - i)
      /\ \A x \in 1 .. Len(s) - (j - i) : w[x] = IF x < i THEN s[x] ELSE s[x + (j - i)]
  BY WithoutFacts
<1>2. Len(s) \in Nat /\ i \in Nat /\ j \in Nat /\ i >= 1 /\ i <= j /\ j <= Len(s) + 1
  BY LenProperties
<1> HIDE DEF w
<1>3. ASSUME NEW x \in 1 .. Len(w) PROVE \E y \in 1 .. Len(s) : w[x] = s[y]
  <2>1. CASE x < i
    BY <2>1, <1>1, <1>2
  <2>2. CASE x >= i
    <3>1. x + (j - i) \in 1 .. Len(s) /\ w[x] = s[x + (j - i)]
      BY <2>2, <1>1, <1>2
    <3> QED BY <3>1
  <2> QED BY <2>1, <2>2, <1>1, <1>2
<1>4. ASSUME NEW x \in 1 .. Len(w), NEW y \in 1 .. Len(w), w[x] = w[y] PROVE x = y
  <2>1. PICK a : a = IF x < i THEN x ELSE x + (j - i)
    OBVIOUS
  <2>2. PICK b : b = IF y < i THEN y ELSE y + (j - i)
    OBVIOUS
  <2>3. w[x] = s[a] /\ w[y] = s[b] /\ a \in 1 .. Len(s) /\ b \in 1 .. Len(s)
    <3>1. \A v \in 1 .. Len(s) - (j - i) : (v < i => v \in 1 .. Len(s)) /\ v + (j - i) \in 1 .. Len(s)
      BY <1>2
    <3>2. w[x] = s[a] /\ a \in 1 .. Len(s)
      BY <2>1, <3>1, <1>1
    <3>3. w[y] = s[b] /\ b \in 1 .. Len(s)
      BY <2>2, <3>1, <1>1
    <3> QED BY <3>2, <3>3
  <2>4. a = b
    BY <2>3, <1>4 DEF NoRepeats
  <2> QED BY <2>1, <2>2, <2>4, <1>1, <1>2
<1>5. \A u : Disjoint(s, u) => Disjoint(w, u)
  BY <1>3 DEF Disjoint
<1> QED BY <1>4, <1>5 DEF w, NoRepeats

LEMMA WithoutItems ==
  ASSUME NEW s \in Seq(Nodes), NEW i \in 1 .. Len(s) + 1, NEW j \in i .. Len(s) + 1, NEW x \in Int
  PROVE  /\ x < i => ItemAt(Without(s, i, j), x) = ItemAt(s, x)
         /\ x >= i => ItemAt(Without(s, i, j), x) = ItemAt(s, x + (j - i))
<1> DEFINE w == Without(s, i, j)
<1>1. /\ Len(w) = Len(s) - (j - i)
      /\ \A y \in 1 .. Len(s) - (j - i) : w[y] = IF y < i THEN s[y] ELSE s[y + (j - i)]
  BY WithoutFacts
<1>2. Len(s) \in Nat /\ i \in Nat /\ j \in Nat /\ i >= 1 /\ i <= j /\ j <= Len(s) + 1
  BY LenProperties
<1> HIDE DEF w
<1>3. ASSUME x < i PROVE ItemAt(w, x) = ItemAt(s, x)
  <2>1. CASE x >= 1
    <3>1. x \in 1 .. Len(w) /\ x \in 1 .. Len(s) /\ x \in 1 .. Len(s) - (j - i)
      BY <1>1, <1>2, <1>3, <2>1
    <3> QED BY <3>1, <1>1, <1>3 DEF ItemAt
  <2>2. CASE x < 1
    <3>1. x \notin 1 .. Len(w) /\ x \notin 1 .. Len(s)
      BY <2>2
    <3> QED BY <3>1 DEF ItemAt
  <2> QED BY <2>1, <2>2
<1>4. ASSUME x >= i PROVE ItemAt(w, x) = ItemAt(s, x + (j - i))
  <2>1. CASE x <= Len(s) - (j - i)
    <3>1. x \in 1 .. Len(w) /\ x + (j - i) \in 1 .. Len(s) /\ x \in 1 .. Len(s) - (j - i) /\ ~(x < i)
      BY <1>1, <1>2, <1>4, <2>1
    <3> QED BY <3>1, <1>1, <1>4 DEF ItemAt
  <2>2. CASE ~(x <= Len(s) - (j - i))
    <3>1. x \notin 1 .. Len(w) /\ x + (j - i) \notin 1 .. Len(s)
      BY <2>2, <1>1, <1>2
    <3> QED BY <3>1 DEF ItemAt
  <2> QED BY <2>1, <2>2
<1> QED BY <1>3, <1>4 DEF w

(* A pointer of the list is at one place in it. *)
LEMMA ItemPlace ==
  ASSUME NEW s \in Seq(Nodes), NoRepeats(s), NEW i \in 1 .. Len(s), NEW j \in Int
  PROVE  s[i] = ItemAt(s, j) <=> i = j
<1>1. s[i] \in Nodes
  BY ElementOfSeq
<1> QED BY <1>1, NilIsNoNode DEF NoRepeats, ItemAt

(* The pointers of p and q are set around the items that go. *)
JoinedAround(k, m, m2, l, l2, p, q) ==
  /\ \A x \in Nodes : m2.next[x] = IF x = p THEN q ELSE m.next[x]
  /\ k \in {"forward", "double", "sent"} => \A x \in Nodes : m2.prev[x] = IF x = q THEN p ELSE m.prev[x]
  /\ l2.head = IF p # Nil THEN l.head ELSE q
  /\ k \in {"double", "queue", "sent", "batch"} => l2.tail = IF q # Nil THEN l.tail ELSE p

LEMMA JoinHeld ==
  ASSUME NEW k, NEW m, NEW m2, NEW l, NEW l2, NEW s \in Seq(Nodes), NoRepeats(s), Held(k, m, l, s),
         NEW i \in 1 .. Len(s) + 1, NEW j \in i .. Len(s) + 1,
         JoinedAround(k, m, m2, l, l2, ItemAt(s, i - 1), ItemAt(s, j))
  PROVE  Held(k, m2, l2, Without(s, i, j))
<1> DEFINE w == Without(s, i, j)
           d == j - i
<1>1. Len(s) \in Nat /\ i \in Nat /\ j \in Nat /\ i >= 1 /\ i <= j /\ j <= Len(s) + 1 /\ d \in Nat
  BY LenProperties
<1>2. /\ Len(w) = Len(s) - d
      /\ \A y \in 1 .. Len(s) - d : w[y] = IF y < i THEN s[y] ELSE s[y + d]
  BY WithoutFacts
<1>3. \A x \in Int : ItemAt(w, x) = IF x < i THEN ItemAt(s, x) ELSE ItemAt(s, x + d)
  <2>1. SUFFICES ASSUME NEW x \in Int
                 PROVE ItemAt(w, x) = IF x < i THEN ItemAt(s, x) ELSE ItemAt(s, x + d)
    OBVIOUS
  <2>2. (x < i \/ x >= i) /\ (x < i => ~(x >= i))
    BY <1>1
  <2> QED BY <2>2, WithoutItems
<1>4. /\ i - 1 = 0 => ItemAt(s, i - 1) = Nil
      /\ i - 1 > 0 => ItemAt(s, i - 1) \in Nodes
      /\ j = Len(s) + 1 => ItemAt(s, j) = Nil
      /\ j < Len(s) + 1 => ItemAt(s, j) \in Nodes
  <2>1. i - 1 \in Int /\ j \in Int /\ (i - 1 = 0 => i - 1 \notin 1 .. Len(s))
        /\ (i - 1 > 0 => i - 1 \in 1 .. Len(s)) /\ (j = Len(s) + 1 => j \notin 1 .. Len(s))
        /\ (j < Len(s) + 1 => j \in 1 .. Len(s))
    BY <1>1
  <2> QED BY <2>1, ItemFacts
<1> HIDE DEF w, d
<1>5. d = j - i
  BY DEF d
<1>6. l2.head = ItemAt(w, 1)
  <2>1. CASE i = 1
    <3>1. ~(1 < i) /\ 1 + d = j /\ i - 1 = 0
      BY <2>1, <1>1, <1>5
    <3>2. ItemAt(w, 1) = ItemAt(s, j)
      BY <3>1, <1>3
    <3> QED BY <3>1, <3>2, <1>4 DEF JoinedAround
  <2>2. CASE i > 1
    <3>1. i - 1 > 0 /\ 1 < i
      BY <2>2, <1>1
    <3>2. ItemAt(w, 1) = ItemAt(s, 1)
      BY <3>1, <1>3
    <3> QED BY <3>1, <3>2, <1>4, NilIsNoNode DEF JoinedAround, Held
  <2> QED BY <2>1, <2>2, <1>1
<1>7. ASSUME NEW x \in 1 .. Len(w) PROVE m2.next[w[x]] = ItemAt(w, x + 1)
  <2>1. x \in Int /\ x >= 1 /\ x <= Len(s) - d
    BY <1>1, <1>2
  <2>2. CASE x < i
    <3>1. x \in 1 .. Len(s) /\ w[x] = s[x] /\ s[x] \in Nodes
      BY <2>1, <2>2, <1>1, <1>2, <1>5, ElementOfSeq
    <3>2. s[x] = ItemAt(s, i - 1) <=> x = i - 1
      BY <3>1, <1>1, ItemPlace
    <3>3. CASE x = i - 1
      <4>1. ~(x + 1 < i) /\ (x + 1) + d = j /\ x + 1 \in Int
        BY <3>3, <1>1, <1>5, <2>1
      <4> QED BY <3>1, <3>2, <3>3, <4>1, <1>3 DEF JoinedAround
    <3>4. CASE x # i - 1
      <4>1. x + 1 < i /\ x + 1 \in Int
        BY <3>4, <2>2, <2>1, <1>1
      <4> QED BY <3>1, <3>2, <3>4, <4>1, <1>3 DEF JoinedAround, Held
    <3> QED BY <3>3, <3>4
  <2>3. CASE x >= i
    <3>1. x + d \in 1 .. Len(s) /\ ~(x < i) /\ x \in 1 .. Len(s) - d
      BY <2>1, <2>3, <1>1, <1>2
    <3>2. w[x] = s[x + d] /\ s[x + d] \in Nodes
      BY <3>1, <1>2, ElementOfSeq
    <3>3. x + d # i - 1 /\ i - 1 \in Int
      BY <2>1, <2>3, <1>1
    <3>4. s[x + d] # ItemAt(s, i - 1)
      BY <3>1, <3>3, ItemPlace
    <3>5. ~(x + 1 < i) /\ x + 1 \in Int /\ (x + 1) + d = (x + d) + 1
      BY <2>1, <2>3, <1>1
    <3>6. ItemAt(w, x + 1) = ItemAt(s, (x + d) + 1)
      BY <3>5, <1>3
    <3>7. m.next[s[x + d]] = ItemAt(s, (x + d) + 1)
      BY <3>1 DEF Held
    <3> QED BY <3>2, <3>4, <3>6, <3>7 DEF JoinedAround
  <2> QED BY <2>1, <2>2, <2>3, <1>1
<1>8. ASSUME k \in {"forward", "double", "sent"}, NEW x \in 1 .. Len(w)
      PROVE  m2.prev[w[x]] = ItemAt(w, x - 1)
  <2>1. x \in Int /\ x >= 1 /\ x <= Len(s) - d
    BY <1>1, <1>2
  <2>2. CASE x < i
    <3>1. x \in 1 .. Len(s) /\ w[x] = s[x] /\ s[x] \in Nodes
      BY <2>1, <2>2, <1>1, <1>2, <1>5, ElementOfSeq
    <3>2. x # j /\ x - 1 < i /\ x - 1 \in Int
      BY <2>1, <2>2, <1>1
    <3>3. s[x] # ItemAt(s, j)
      BY <3>1, <3>2, <1>1, ItemPlace
    <3>4. m.prev[s[x]] = ItemAt(s, x - 1)
      BY <3>1, <1>8 DEF Held
    <3> QED BY <1>8, <3>1, <3>2, <3>3, <3>4, <1>3 DEF JoinedAround
  <2>3. CASE x >= i
    <3>1. x + d \in 1 .. Len(s) /\ ~(x < i) /\ x \in 1 .. Len(s) - d
      BY <2>1, <2>3, <1>1, <1>2
    <3>2. w[x] = s[x + d] /\ s[x + d] \in Nodes
      BY <3>1, <1>2, ElementOfSeq
    <3>3. s[x + d] = ItemAt(s, j) <=> x + d = j
      BY <3>1, <1>1, ItemPlace
    <3>4. CASE x = i
      <4>1. x + d = j /\ x - 1 < i /\ x - 1 = i - 1 /\ x - 1 \in Int
        BY <3>4, <1>1, <1>5
      <4> QED BY <1>8, <3>2, <3>3, <4>1, <1>3 DEF JoinedAround
    <3>5. CASE x # i
      <4>1. x + d # j /\ ~(x - 1 < i) /\ (x - 1) + d = (x + d) - 1 /\ x - 1 \in Int
        BY <3>5, <2>1, <2>3, <1>1, <1>5
      <4>2. ItemAt(w, x - 1) = ItemAt(s, (x + d) - 1)
        BY <4>1, <1>3
      <4>3. m.prev[s[x + d]] = ItemAt(s, (x + d) - 1)
        BY <1>8, <3>1 DEF Held
      <4> QED BY <1>8, <3>2, <3>3, <4>1, <4>2, <4>3 DEF JoinedAround
    <3> QED BY <3>4, <3>5
  <2> QED BY <2>1, <2>2, <2>3, <1>1
<1>9. ASSUME k \in {"double", "queue", "sent", "batch"} PROVE l2.tail = ItemAt(w, Len(w))
  <2>1. CASE j = Len(s) + 1
    <3>1. Len(w) = i - 1 /\ i - 1 < i /\ i - 1 \in Int
      BY <2>1, <1>1, <1>2, <1>5
    <3>2. ItemAt(w, Len(w)) = ItemAt(s, i - 1)
      BY <3>1, <1>3
    <3> QED BY <1>9, <2>1, <3>2, <1>4 DEF JoinedAround
  <2>2. CASE j < Len(s) + 1
    <3>1. ~(Len(w) < i) /\ Len(w) + d = Len(s) /\ Len(w) \in Int
      <4>1. Len(w) = Len(s) - d
        BY <1>2
      <4> QED BY <4>1, <2>2, <1>1, <1>5
    <3>2. ItemAt(w, Len(w)) = ItemAt(s, Len(s))
      BY <3>1, <1>3
    <3>3. ItemAt(s, j) # Nil
      BY <2>2, <1>4, NilIsNoNode
    <3> QED BY <1>9, <3>2, <3>3 DEF JoinedAround, Held
  <2> QED BY <2>1, <2>2, <1>1
<1>10. Held(k, m2, l2, w)
  BY <1>6, <1>7, <1>8, <1>9 DEF Held
<1> QED BY <1>10 DEF w

-----------------------------------------------------------------------------
(* s is the items of a and then those of b. *)
LEMMA ConcatFacts ==
  ASSUME NEW a \in Seq(Nodes), NEW b \in Seq(Nodes)
  PROVE  /\ a \o b \in Seq(Nodes) /\ Len(a \o b) = Len(a) + Len(b)
         /\ \A x \in Int : x <= Len(a) => ItemAt(a \o b, x) = ItemAt(a, x)
         /\ \A x \in Int : ~(x <= Len(a)) => ItemAt(a \o b, x) = ItemAt(b, x - Len(a))
<1>1. PICK la : la = Len(a)
  OBVIOUS
<1>2. PICK lb : lb = Len(b)
  OBVIOUS
<1>3. /\ a \o b \in Seq(Nodes) /\ Len(a \o b) = la + lb
      /\ \A x \in 1 .. la + lb : (a \o b)[x] = IF x <= la THEN a[x] ELSE b[x - la]
  BY <1>1, <1>2, ConcatProperties
<1>4. la \in Nat /\ lb \in Nat
  BY <1>1, <1>2, LenProperties
<1>5. ASSUME NEW x \in Int, x <= la PROVE ItemAt(a \o b, x) = ItemAt(a, x)
  <2>1. (x \in 1 .. la + lb) <=> (x \in 1 .. la)
    BY <1>4, <1>5
  <2> QED BY <1>1, <1>3, <1>5, <2>1 DEF ItemAt
<1>6. ASSUME NEW x \in Int, ~(x <= la) PROVE ItemAt(a \o b, x) = ItemAt(b, x - la)
  <2>1. (x \in 1 .. la + lb) <=> (x - la \in 1 .. lb)
    BY <1>4, <1>6
  <2> QED BY <1>2, <1>3, <1>6, <2>1 DEF ItemAt
<1> QED BY <1>1, <1>2, <1>3, <1>5, <1>6

LEMMA ConcatApart ==
  ASSUME NEW a \in Seq(Nodes), NEW b \in Seq(Nodes), NoRepeats(a), NoRepeats(b), Disjoint(a, b)
  PROVE  /\ NoRepeats(a \o b)
         /\ \A u : Disjoint(a, u) /\ Disjoint(b, u) => Disjoint(a \o b, u)
<1>1. PICK la : la = Len(a)
  OBVIOUS
<1>2. PICK lb : lb = Len(b)
  OBVIOUS
<1>3. /\ Len(a \o b) = la + lb
      /\ \A x \in 1 .. la + lb : (a \o b)[x] = IF x <= la THEN a[x] ELSE b[x - la]
  BY <1>1, <1>2, ConcatProperties
<1>4. la \in Nat /\ lb \in Nat
  BY <1>1, <1>2, LenProperties
<1>5. ASSUME NEW x \in 1 .. la + lb
      PROVE  \/ x \in 1 .. la /\ (a \o b)[x] = a[x]
             \/ x - la \in 1 .. lb /\ (a \o b)[x] = b[x - la]
  BY <1>3, <1>4
<1>6. ASSUME NEW x \in 1 .. la + lb, NEW y \in 1 .. la + lb, (a \o b)[x] = (a \o b)[y]
      PROVE  x = y
  <2>1. \/ x \in 1 .. la /\ (a \o b)[x] = a[x]
        \/ x - la \in 1 .. lb /\ (a \o b)[x] = b[x - la]
    BY <1>5
  <2>2. \/ y \in 1 .. la /\ (a \o b)[y] = a[y]
        \/ y - la \in 1 .. lb /\ (a \o b)[y] = b[y - la]
    BY <1>5
  <2>3. x \in Int /\ y \in Int /\ (x - la = y - la => x = y)
    BY <1>4
  <2> QED BY <1>1, <1>2, <1>6, <2>1, <2>2, <2>3 DEF NoRepeats, Disjoint
<1>7. ASSUME NEW u, Disjoint(a, u), Disjoint(b, u) PROVE Disjoint(a \o b, u)
  <2>1. SUFFICES ASSUME NEW x \in 1 .. la + lb, NEW y \in 1 .. Len(u) PROVE (a \o b)[x] # u[y]
    BY <1>3 DEF Disjoint
  <2>2. \/ x \in 1 .. la /\ (a \o b)[x] = a[x]
        \/ x - la \in 1 .. lb /\ (a \o b)[x] = b[x - la]
    BY <1>5
  <2> QED BY <1>1, <1>2, <1>7, <2>2 DEF Disjoint
<1> QED BY <1>3, <1>6, <1>7 DEF NoRepeats

(* One list after another: its last item p is led to the first item q of the
   other, and in a doubly linked list back. *)
LinkedUp(k, m, m2, l, g, l2, p, q) ==
  /\ \A x \in Nodes : m2.next[x] = IF x = p THEN q ELSE m.next[x]
  /\ k \in {"forward", "double", "sent"} => \A x \in Nodes : m2.prev[x] = IF x = q THEN p ELSE m.prev[x]
  /\ l2.head = IF p # Nil THEN l.head ELSE q
  /\ k \in {"double", "queue", "sent", "batch"} => l2.tail = IF q # Nil THEN g.tail ELSE p

LEMMA ConcatHeld ==
  ASSUME NEW k, NEW m, NEW m2, NEW l, NEW g, NEW l2, NEW a \in Seq(Nodes), NEW b \in Seq(Nodes),
         NoRepeats(a), NoRepeats(b), Disjoint(a, b), Held(k, m, l, a), Held(k, m, g, b),
         LinkedUp(k, m, m2, l, g, l2, ItemAt(a, Len(a)), ItemAt(b, 1))
  PROVE  Held(k, m2, l2, a \o b)
<1> DEFINE c == a \o b
<1>1. PICK la : la = Len(a)
  OBVIOUS
<1>2. PICK lb : lb = Len(b)
  OBVIOUS
<1>3. /\ Len(c) = la + lb /\ la \in Nat /\ lb \in Nat
      /\ \A x \in Int : ItemAt(c, x) = IF x <= la THEN ItemAt(a, x) ELSE ItemAt(b, x - la)
  <2>1. /\ Len(a \o b) = Len(a) + Len(b)
        /\ \A x \in Int : x <= Len(a) => ItemAt(a \o b, x) = ItemAt(a, x)
        /\ \A x \in Int : ~(x <= Len(a)) => ItemAt(a \o b, x) = ItemAt(b, x - Len(a))
    BY ConcatFacts
  <2>2. la \in Nat /\ lb \in Nat
    BY <1>1, <1>2, LenProperties
  <2> QED BY <1>1, <1>2, <2>1, <2>2
<1> DEFINE p == ItemAt(a, la)
           q == ItemAt(b, 1)
<1>4. LinkedUp(k, m, m2, l, g, l2, p, q)
  BY <1>1
<1>5. /\ la = 0 => p = Nil
      /\ la > 0 => p = a[la] /\ a[la] \in Nodes
      /\ lb = 0 => q = Nil
      /\ lb > 0 => q = b[1] /\ b[1] \in Nodes
  <2>1. /\ la \in Int /\ 1 \in Int /\ (la = 0 => la \notin 1 .. Len(a)) /\ (la > 0 => la \in 1 .. Len(a))
        /\ (lb = 0 => 1 \notin 1 .. Len(b)) /\ (lb > 0 => 1 \in 1 .. Len(b))
    BY <1>1, <1>2, <1>3
  <2> QED BY <2>1, ItemFacts
<1> HIDE DEF c
<1>6. l2.head = ItemAt(c, 1)
  <2>1. CASE la = 0
    <3>1. ~(1 <= la) /\ 1 - la = 1
      BY <2>1
    <3>2. ItemAt(c, 1) = ItemAt(b, 1)
      BY <3>1, <1>3
    <3> QED BY <2>1, <3>2, <1>4, <1>5 DEF LinkedUp
  <2>2. CASE la > 0
    <3>1. 1 <= la
      BY <2>2, <1>3
    <3>2. ItemAt(c, 1) = ItemAt(a, 1)
      BY <3>1, <1>3
    <3>3. l.head = ItemAt(a, 1)
      BY DEF Held
    <3> QED BY <2>2, <3>2, <3>3, <1>4, <1>5, NilIsNoNode DEF LinkedUp
  <2> QED BY <2>1, <2>2, <1>3
<1>7. ASSUME k \in {"double", "queue", "sent", "batch"} PROVE l2.tail = ItemAt(c, Len(c))
  <2>1. CASE lb = 0
    <3>1. la + lb <= la /\ la + lb = la /\ la + lb \in Int
      BY <2>1, <1>3
    <3> QED BY <1>7, <2>1, <3>1, <1>3, <1>4, <1>5 DEF LinkedUp
  <2>2. CASE lb > 0
    <3>1. ~(la + lb <= la) /\ (la + lb) - la = lb /\ la + lb \in Int
      BY <2>2, <1>3
    <3>2. g.tail = ItemAt(b, lb)
      BY <1>2, <1>7 DEF Held
    <3> QED BY <1>7, <2>2, <3>1, <3>2, <1>3, <1>4, <1>5, NilIsNoNode DEF LinkedUp
  <2> QED BY <2>1, <2>2, <1>3
<1>8. ASSUME NEW x \in 1 .. Len(c)
      PROVE  /\ m2.next[c[x]] = ItemAt(c, x + 1)
             /\ k \in {"forward", "double", "sent"} => m2.prev[c[x]] = ItemAt(c, x - 1)
  <2>1. c[x] = ItemAt(c, x) /\ x \in Int
    BY DEF ItemAt
  <2>2. CASE x <= la
    <3>1. x \in 1 .. la /\ c[x] = a[x] /\ a[x] \in Nodes /\ x - 1 <= la /\ x - 1 \in Int
      <4>1. x \in 1 .. la /\ x - 1 <= la /\ x - 1 \in Int
        BY <2>1, <2>2, <1>3
      <4> QED BY <4>1, <2>1, <2>2, <1>1, <1>3, ItemFacts
    <3>2. m.next[a[x]] = ItemAt(a, x + 1) /\ (k \in {"forward", "double", "sent"} => m.prev[a[x]] = ItemAt(a, x - 1))
      BY <3>1, <1>1 DEF Held
    <3>3. a[x] = p <=> x = la
      BY <3>1, <1>1, <1>3, ItemPlace
    <3>4. a[x] # q
      <4>1. CASE lb = 0
        BY <4>1, <3>1, <1>5, NilIsNoNode
      <4>2. CASE lb > 0
        <5>1. 1 \in 1 .. lb
          BY <4>2, <1>3
        <5> QED BY <4>2, <5>1, <3>1, <1>1, <1>2, <1>5 DEF Disjoint
      <4> QED BY <4>1, <4>2, <1>3
    <3>5. ItemAt(c, x - 1) = ItemAt(a, x - 1)
      BY <3>1, <1>3
    <3>6. ItemAt(c, x + 1) = IF x = la THEN q ELSE ItemAt(a, x + 1)
      <4>1. x + 1 \in Int /\ (x = la => ~(x + 1 <= la) /\ (x + 1) - la = 1) /\ (x # la => x + 1 <= la)
        BY <2>1, <2>2, <1>3
      <4> QED BY <4>1, <1>3
    <3> QED BY <3>1, <3>2, <3>3, <3>4, <3>5, <3>6, <1>4 DEF LinkedUp
  <2>3. CASE ~(x <= la)
    <3>1. x - la \in 1 .. lb /\ x - la \in Int
      BY <2>1, <2>3, <1>3
    <3>2. PICK y : y = x - la
      OBVIOUS
    <3>3. y \in 1 .. lb /\ y \in Int /\ c[x] = b[y] /\ b[y] \in Nodes
      BY <3>1, <3>2, <2>1, <2>3, <1>2, <1>3, ItemFacts
    <3>4. m.next[b[y]] = ItemAt(b, y + 1) /\ (k \in {"forward", "double", "sent"} => m.prev[b[y]] = ItemAt(b, y - 1))
      BY <3>3, <1>2 DEF Held
    <3>5. b[y] # p
      <4>1. CASE la = 0
        BY <4>1, <3>3, <1>5, NilIsNoNode
      <4>2. CASE la > 0
        <5>1. la \in 1 .. la
          BY <4>2, <1>3
        <5> QED BY <4>2, <5>1, <3>3, <1>1, <1>2, <1>5 DEF Disjoint
      <4> QED BY <4>1, <4>2, <1>3
    <3>6. b[y] = q <=> y = 1
      BY <3>3, <1>2, ItemPlace
    <3>7. ItemAt(c, x + 1) = ItemAt(b, y + 1)
      <4>1. ~(x + 1 <= la) /\ (x + 1) - la = y + 1 /\ x + 1 \in Int
        BY <2>1, <2>3, <3>2, <1>3
      <4> QED BY <4>1, <1>3
    <3>8. ItemAt(c, x - 1) = IF y = 1 THEN p ELSE ItemAt(b, y - 1)
      <4>1. /\ x - 1 \in Int /\ (y = 1 => x - 1 <= la /\ x - 1 = la)
            /\ (y # 1 => ~(x - 1 <= la) /\ (x - 1) - la = y - 1)
        BY <2>1, <2>3, <3>2, <1>3
      <4> QED BY <4>1, <1>3
    <3> HIDE DEF p, q
    <3> QED BY <3>3, <3>4, <3>5, <3>6, <3>7, <3>8, <1>4 DEF LinkedUp
  <2> QED BY <2>2, <2>3
<1>9. Held(k, m2, l2, c)
  BY <1>6, <1>7, <1>8 DEF Held
<1> QED BY <1>9 DEF c

(* A node of its own is a list. *)
LEMMA OneHeld ==
  ASSUME NEW k, NEW m, NEW l, NEW n \in Nodes, m.next[n] = Nil, m.prev[n] = Nil,
         l.head = n, l.tail = n
  PROVE  /\ Held(k, m, l, <<n>>) /\ NoRepeats(<<n>>) /\ <<n>> \in Seq(Nodes) /\ Len(<<n>>) = 1
         /\ ItemAt(<<n>>, 1) = n
<1>1. <<n>> \in Seq(Nodes) /\ Len(<<n>>) = 1 /\ <<n>>[1] = n /\ 1 .. 1 = {1}
  OBVIOUS
<1>2. /\ ItemAt(<<n>>, 1) = n /\ ItemAt(<<n>>, 1 + 1) = Nil /\ ItemAt(<<n>>, 1 - 1) = Nil
  BY <1>1 DEF ItemAt
<1> QED BY <1>1, <1>2 DEF Held, NoRepeats

(* A list cut at i. *)
LEMMA CutFacts ==
  ASSUME NEW s \in Seq(Nodes), NEW i \in 1 .. Len(s), NoRepeats(s)
  PROVE  LET a == SubSeq(s, 1, i - 1)
             b == SubSeq(s, i, Len(s))
         IN  /\ a \in Seq(Nodes) /\ Len(a) = i - 1 /\ \A x \in 1 .. i - 1 : a[x] = s[x]
             /\ b \in Seq(Nodes) /\ Len(b) = (Len(s) + 1) - i
             /\ \A x \in 1 .. (Len(s) + 1) - i : b[x] = s[(i + x) - 1]
             /\ NoRepeats(a) /\ NoRepeats(b) /\ Disjoint(a, b)
<1> DEFINE a == SubSeq(s, 1, i - 1)
           b == SubSeq(s, i, Len(s))
<1>1. Len(s) \in Nat /\ i \in Nat /\ i >= 1 /\ i <= Len(s)
  BY LenProperties
<1>2. a \in Seq(Nodes) /\ Len(a) = i - 1 /\ \A x \in 1 .. i - 1 : a[x] = s[x]
  <2>1. /\ 1 \in 1 .. Len(s) + 1 /\ i - 1 \in 1 - 1 .. Len(s)
    BY <1>1
  <2>2. /\ a \in Seq(Nodes) /\ Len(a) = IF 1 <= i - 1 THEN ((i - 1) - 1) + 1 ELSE 0
        /\ \A x \in 1 .. ((i - 1) - 1) + 1 : a[x] = s[(1 + x) - 1]
    BY <2>1, SubSeqProperties
  <2> HIDE DEF a
  <2> QED BY <2>2, <1>1
<1>3. /\ b \in Seq(Nodes) /\ Len(b) = (Len(s) + 1) - i
      /\ \A x \in 1 .. (Len(s) + 1) - i : b[x] = s[(i + x) - 1]
  <2>1. /\ i \in 1 .. Len(s) + 1 /\ Len(s) \in i - 1 .. Len(s)
    BY <1>1
  <2>2. /\ b \in Seq(Nodes) /\ Len(b) = IF i <= Len(s) THEN (Len(s) - i) + 1 ELSE 0
        /\ \A x \in 1 .. (Len(s) - i) + 1 : b[x] = s[(i + x) - 1]
    BY <2>1, SubSeqProperties
  <2> HIDE DEF b
  <2> QED BY <2>2, <1>1
<1> HIDE DEF a, b
<1>4. NoRepeats(a)
  <2>1. \A x \in 1 .. i - 1 : x \in 1 .. Len(s)
    BY <1>1
  <2> QED BY <2>1, <1>2 DEF NoRepeats
<1>5. NoRepeats(b)
  <2>1. SUFFICES ASSUME NEW x \in 1 .. (Len(s) + 1) - i, NEW y \in 1 .. (Len(s) + 1) - i, b[x] = b[y]
                 PROVE x = y
    BY <1>3 DEF NoRepeats
  <2>2. (i + x) - 1 \in 1 .. Len(s) /\ (i + y) - 1 \in 1 .. Len(s)
    BY <1>1
  <2>3. (i + x) - 1 = (i + y) - 1
    BY <2>1, <2>2, <1>3 DEF NoRepeats
  <2> QED BY <2>3, <1>1
<1>6. Disjoint(a, b)
  <2>1. SUFFICES ASSUME NEW x \in 1 .. i - 1, NEW y \in 1 .. (Len(s) + 1) - i PROVE a[x] # b[y]
    BY <1>2, <1>3 DEF Disjoint
  <2>2. x \in 1 .. Len(s) /\ (i + y) - 1 \in 1 .. Len(s) /\ x # (i + y) - 1
    BY <1>1
  <2> QED BY <2>2, <1>2, <1>3 DEF NoRepeats
<1> QED BY <1>2, <1>3, <1>4, <1>5, <1>6 DEF a, b

-----------------------------------------------------------------------------
(* The lists of the model *)

LEMMA HoldIsHeld ==
  /\ ListsHold <=> Held(kind, mem, first, should.first) /\ Held(kind, mem, second, should.second)
  /\ ListsHold' <=> Held(kind', mem', first', should'.first) /\ Held(kind', mem', second', should'.second)
BY DEF ListsHold, ListHolds, Held, Doubly, HasTail

(* Where a node of the list is. *)
LEMMA PlaceFacts ==
  ASSUME NEW s \in Seq(Nodes), NEW n \in ToSet(s) \cup {Nil}
  PROVE  /\ Place(s, n) \in 1 .. Len(s) + 1 /\ ItemAt(s, Place(s, n)) = n
         /\ n # Nil => Place(s, n) \in 1 .. Len(s) /\ s[Place(s, n)] = n
<1>1. Len(s) \in Nat /\ DOMAIN s = 1 .. Len(s)
  BY LenProperties
<1>2. CASE n = Nil
  <2>1. Place(s, n) = Len(s) + 1
    BY <1>2 DEF Place
  <2> QED BY <1>1, <1>2, <2>1 DEF ItemAt
<1>3. CASE n # Nil
  <2>1. \E i \in 1 .. Len(s) : s[i] = n
    BY <1>1, <1>3 DEF ToSet
  <2>2. Place(s, n) \in 1 .. Len(s) /\ s[Place(s, n)] = n
    BY <1>3, <2>1 DEF Place
  <2>3. Place(s, n) \in 1 .. Len(s) + 1
    BY <1>1, <2>2
  <2> QED BY <2>2, <2>3 DEF ItemAt
<1> QED BY <1>2, <1>3

LEMMA ListTypeFacts ==
  ASSUME ListTypes
  PROVE  /\ should = [first |-> should.first, second |-> should.second]
         /\ should.first \in Seq(Nodes) /\ should.second \in Seq(Nodes)
         /\ first = [head |-> first.head, tail |-> first.tail]
         /\ first.head \in Pointers /\ first.tail \in Pointers
         /\ second = [head |-> second.head, tail |-> second.tail]
         /\ second.head \in Pointers /\ second.tail \in Pointers
         /\ mem \in Memory /\ iter \in Iterators /\ todo \in Seq(Nodes)
BY DEF ListTypes, ListEnds

(* A free node is in neither list. *)
LEMMA FreeFacts ==
  ASSUME ListTypes, NEW n \in Nodes, FreeNode(n)
  PROVE  /\ \A i \in 1 .. Len(should.first) : should.first[i] # n
         /\ \A i \in 1 .. Len(should.second) : should.second[i] # n
         /\ \A i \in 1 .. Len(todo) : todo[i] # n
<1>1. /\ DOMAIN should.first = 1 .. Len(should.first) /\ DOMAIN should.second = 1 .. Len(should.second)
      /\ DOMAIN todo = 1 .. Len(todo)
  BY ListTypeFacts, LenProperties
<1> QED BY <1>1 DEF FreeNode, ToSet

LEMMA IdleKept ==
  ASSUME IterPlaced, iter.on = "no", iter' = iter, todo' = todo
  PROVE  IterPlaced' /\ Remaining'
<1>1. iter' = NoIter /\ todo' = <<>> /\ iter'.on = "no"
  BY DEF IterPlaced, NoIter
<1>2. NoRepeats(<<>>)
  BY DEF NoRepeats
<1> QED BY <1>1, <1>2 DEF IterPlaced, Remaining

(* A step that changes the first list and only pointers of nodes that the
   second one does not hold. *)
FirstChanges ==
  /\ kind' = kind /\ second' = second
  /\ mem' \in Memory /\ first' \in ListEnds
  /\ \A x \in Nodes : (\A i \in 1 .. Len(should.second) : should.second[i] # x)
                        \/ (mem'.next[x] = mem.next[x] /\ (Doubly => mem'.prev[x] = mem.prev[x]))

LEMMA FirstChanged ==
  ASSUME ListInv, FirstChanges, NEW w \in Seq(Nodes),
         should' = [first |-> w, second |-> should.second],
         Held(kind, mem', first', w), NoRepeats(w), Disjoint(w, should.second),
         iter' \in Iterators, todo' \in Seq(Nodes), IterPlaced', Remaining'
  PROVE  ListInv'
<1>1. ListTypes'
  <2>1. should' \in [first : Seq(Nodes), second : Seq(Nodes)]
    BY ListTypeFacts DEF ListInv
  <2> QED BY <2>1 DEF ListInv, ListTypes, FirstChanges
<1>2. should'.first = w /\ should'.second = should.second
  OBVIOUS
<1>3. NodesApart'
  BY <1>2 DEF ListInv, NodesApart
<1>4. Held(kind, mem', second, should.second)
  <2>1. Held(kind, mem, second, should.second)
    BY HoldIsHeld DEF ListInv
  <2>2. ASSUME NEW i \in 1 .. Len(should.second)
        PROVE  /\ mem'.next[should.second[i]] = mem.next[should.second[i]]
               /\ Doubly => mem'.prev[should.second[i]] = mem.prev[should.second[i]]
    <3>1. should.second[i] \in Nodes
      BY ListTypeFacts, ElementOfSeq DEF ListInv
    <3> QED BY <3>1 DEF FirstChanges
  <2> QED BY <2>1, <2>2, UntouchedHeld DEF Doubly
<1>5. ListsHold'
  BY <1>2, <1>4, HoldIsHeld DEF FirstChanges
<1> QED BY <1>1, <1>3, <1>5 DEF ListInv

(* An item of the first list, or Nil, is no node of the second one. *)
LEMMA NotOfSecond ==
  ASSUME ListTypes, NodesApart, NEW x \in Nodes, NEW i \in Int,
         NEW h \in 1 .. Len(should.second), should.second[h] = x
  PROVE  x # ItemAt(should.first, i)
BY NilIsNoNode DEF ItemAt, NodesApart, Disjoint

LEMMA JoinStep ==
  ASSUME ListInv, NEW i \in 1 .. Len(should.first) + 1, NEW j \in i .. Len(should.first) + 1,
         kind' = kind, second' = second, mem' \in Memory, first' \in ListEnds,
         should' = [first |-> Without(should.first, i, j), second |-> should.second],
         JoinedAround(kind, mem, mem', first, first', ItemAt(should.first, i - 1), ItemAt(should.first, j)),
         iter' \in Iterators, todo' \in Seq(Nodes), IterPlaced', Remaining'
  PROVE  ListInv'
<1> DEFINE s == should.first
           w == Without(s, i, j)
<1>1. s \in Seq(Nodes) /\ i \in Int /\ j \in Int /\ i - 1 \in Int /\ Len(s) \in Nat
  <2>1. s \in Seq(Nodes)
    BY ListTypeFacts DEF ListInv
  <2>2. Len(s) \in Nat
    BY <2>1, LenProperties
  <2> QED BY <2>1, <2>2
<1>2. NoRepeats(s) /\ Disjoint(s, should.second)
  BY DEF ListInv, NodesApart
<1>3. w \in Seq(Nodes) /\ NoRepeats(w) /\ Disjoint(w, should.second)
  BY <1>1, <1>2, WithoutFacts, WithoutApart
<1>4. Held(kind, mem, first, s)
  BY HoldIsHeld DEF ListInv
<1>5. Held(kind, mem', first', w)
  BY <1>1, <1>2, <1>4, JoinHeld
<1>6. FirstChanges
  <2>1. ASSUME NEW x \in Nodes, NEW h \in 1 .. Len(should.second), should.second[h] = x
        PROVE  mem'.next[x] = mem.next[x] /\ (Doubly => mem'.prev[x] = mem.prev[x])
    <3>1. x # ItemAt(s, i - 1) /\ x # ItemAt(s, j)
      BY <1>1, <2>1, NotOfSecond DEF ListInv
    <3> HIDE DEF s
    <3> QED BY <3>1 DEF JoinedAround, Doubly, s
  <2> QED BY <2>1 DEF FirstChanges
<1> HIDE DEF w
<1>7. should' = [first |-> w, second |-> should.second]
  BY DEF w
<1> QED BY <1>3, <1>5, <1>6, <1>7, FirstChanged

LEMMA RemoveBeforeKeeps ==
  ASSUME ListInv, NEW n \in Nodes \cup {Nil}, RemoveBefore(n) PROVE ListInv'
<1> DEFINE s == should.first
           j == Place(s, n)
<1>1. /\ kind = "sent" /\ n \in ToSet(s) \cup {Nil} /\ mem' = Prev1(mem, n, Nil)
      /\ first' = [head |-> n, tail |-> IF n = Nil THEN Nil ELSE first.tail]
      /\ kind' = kind /\ second' = second /\ iter' = iter /\ todo' = todo
  BY DEF RemoveBefore
<1>2. /\ should = [first |-> s, second |-> should.second] /\ s \in Seq(Nodes) /\ mem \in Memory
      /\ first.tail \in Pointers /\ iter \in Iterators /\ todo \in Seq(Nodes)
  BY ListTypeFacts DEF ListInv
<1>3. j \in 1 .. Len(s) + 1 /\ ItemAt(s, j) = n
  BY <1>1, <1>2, PlaceFacts
<1>4. should' = [first |-> Without(s, 1, j), second |-> should.second]
  BY <1>2 DEF RemoveBefore
<1>5. ItemAt(s, 1 - 1) = Nil
  BY DEF ItemAt
<1>6. iter.on = "no"
  BY <1>1, <1>2 DEF ListInv, IterPlaced
<1>7. IterPlaced' /\ Remaining'
  BY <1>1, <1>6, IdleKept DEF ListInv
<1>8. /\ mem' \in Memory
      /\ \A x \in Nodes : /\ mem'.prev[x] = IF x = n THEN Nil ELSE mem.prev[x]
                          /\ mem'.next[x] = mem.next[x]
  <2>1. mem \in Memory /\ n \in Pointers /\ Nil \in Pointers
    BY <1>2 DEF Pointers
  <2> QED BY <1>1, <2>1, Prev1Facts
<1>9. first' \in ListEnds
  BY <1>1, <1>2 DEF ListEnds, Pointers
<1>10. JoinedAround(kind, mem, mem', first, first', Nil, n)
  BY <1>1, <1>8, NilIsNoNode DEF JoinedAround
<1>11. 1 \in 1 .. Len(s) + 1
  BY <1>3
<1> HIDE DEF j
<1> QED BY <1>1, <1>2, <1>3, <1>4, <1>5, <1>7, <1>8, <1>9, <1>10, <1>11, JoinStep

(* The item before one of the list is where its prev points to. *)
LEMMA NeighbourFacts ==
  ASSUME ListInv, NEW i \in 1 .. Len(should.first)
  PROVE  /\ mem.next[should.first[i]] = ItemAt(should.first, i + 1)
         /\ Doubly => mem.prev[should.first[i]] = ItemAt(should.first, i - 1)
BY HoldIsHeld DEF ListInv, Held, Doubly

LEMMA RemoveBetweenKeeps ==
  ASSUME ListInv, NEW a \in Nodes, NEW q \in Nodes \cup {Nil}, RemoveBetween(a, q) PROVE ListInv'
<1> DEFINE s == should.first
           i == Place(s, a)
           j == Place(s, q)
           p == mem.prev[a]
<1>1. /\ kind = "sent" /\ a \in ToSet(s) /\ q \in ToSet(s) \cup {Nil} /\ i < j
      /\ mem' = Prev1(Next1(mem, p, q), q, p)
      /\ first' = [head |-> IF p # Nil THEN first.head ELSE q, tail |-> IF q # Nil THEN first.tail ELSE p]
      /\ kind' = kind /\ second' = second /\ iter' = iter /\ todo' = todo
  BY DEF RemoveBetween, Joined
<1>2. /\ should = [first |-> s, second |-> should.second] /\ s \in Seq(Nodes) /\ mem \in Memory
      /\ first.head \in Pointers /\ first.tail \in Pointers /\ iter \in Iterators /\ todo \in Seq(Nodes)
  BY ListTypeFacts DEF ListInv
<1>3. j \in 1 .. Len(s) + 1 /\ ItemAt(s, j) = q
  BY <1>1, <1>2, PlaceFacts
<1>4. i \in 1 .. Len(s) /\ s[i] = a
  BY <1>1, <1>2, PlaceFacts, NilIsNoNode
<1>5. p = ItemAt(s, i - 1)
  BY <1>1, <1>4, NeighbourFacts DEF Doubly
<1>6. should' = [first |-> Without(s, i, j), second |-> should.second]
  BY <1>2 DEF RemoveBetween
<1>7. iter.on = "no"
  BY <1>1, <1>2 DEF ListInv, IterPlaced
<1>8. IterPlaced' /\ Remaining'
  BY <1>1, <1>7, IdleKept DEF ListInv
<1>9. p \in Pointers /\ q \in Pointers
  BY <1>2 DEF Memory, Pointers
<1> HIDE DEF i, j, p
<1>10. /\ mem' \in Memory
       /\ \A x \in Nodes : /\ mem'.prev[x] = IF x = q THEN p ELSE mem.prev[x]
                           /\ mem'.next[x] = IF x = p THEN q ELSE mem.next[x]
  <2>1. mem \in Memory
    BY <1>2
  <2> QED BY <1>1, <1>9, <2>1, BothFacts
<1>11. first' \in ListEnds
  BY <1>1, <1>2, <1>9 DEF ListEnds
<1>12. JoinedAround(kind, mem, mem', first, first', p, q)
  BY <1>1, <1>10 DEF JoinedAround
<1>13. i \in 1 .. Len(s) + 1 /\ j \in i .. Len(s) + 1
  <2>1. Len(s) \in Nat
    BY <1>2, LenProperties
  <2> QED BY <2>1, <1>1, <1>3, <1>4
<1> QED BY <1>1, <1>2, <1>3, <1>5, <1>6, <1>8, <1>10, <1>11, <1>12, <1>13, JoinStep

(* Erasing the iterator's own item takes nothing that is still to visit. *)
LEMMA ErasedUnderIter ==
  ASSUME ListInv, kind \in {"forward", "double"}, iter.on # "no",
         NEW i \in 1 .. Len(should.first), should.first[i] = iter.item,
         kind' = kind, iter' = iter, todo' = todo,
         should' = [first |-> Without(should.first, i, i + 1), second |-> should.second]
  PROVE  IterPlaced' /\ Remaining'
<1> DEFINE s == should.first
           w == Without(s, i, i + 1)
           z == Len(s) - Len(todo)
<1>1. IterPlaced /\ Remaining /\ s \in Seq(Nodes) /\ todo \in Seq(Nodes) /\ iter \in Iterators
  BY ListTypeFacts DEF ListInv
<1>2. Len(s) \in Nat /\ Len(todo) \in Nat /\ s[i] \in Nodes
  BY <1>1, LenProperties, ElementOfSeq
<1>3. iter.on \in {"forward", "back"}
  BY <1>1 DEF IterPlaced, Iterators
<1>4. Len(todo) >= 1 /\ todo[1] = s[i]
  <2>1. ItemAt(todo, 1) # Nil /\ ItemAt(todo, 1) = s[i]
    BY <1>1, <1>2, <1>3, NilIsNoNode DEF IterPlaced
  <2>2. 1 \in 1 .. Len(todo)
    BY <2>1 DEF ItemAt
  <2> QED BY <2>1, <2>2, <1>2 DEF ItemAt
<1>5. \A y \in 2 .. Len(todo) : todo[y] # s[i]
  <2>1. 1 \in 1 .. Len(todo) /\ \A y \in 2 .. Len(todo) : y \in 1 .. Len(todo) /\ y # 1
    BY <1>2, <1>4
  <2> QED BY <2>1, <1>1, <1>4 DEF IterPlaced, NoRepeats
<1>6. /\ i \in 1 .. Len(s) + 1 /\ i + 1 \in i .. Len(s) + 1 /\ (i + 1) - i = 1
  BY <1>2
<1>7. /\ Len(w) = Len(s) - 1
      /\ \A x \in 1 .. Len(s) - 1 : w[x] = IF x < i THEN s[x] ELSE s[x + 1]
  <2>1. /\ Len(w) = Len(s) - ((i + 1) - i)
        /\ \A x \in 1 .. Len(s) - ((i + 1) - i) : w[x] = IF x < i THEN s[x] ELSE s[x + ((i + 1) - i)]
    BY <1>1, <1>6, WithoutFacts
  <2> QED BY <2>1, <1>6
<1>8. IterPlaced'
  BY <1>1 DEF IterPlaced
<1>9. should'.first = w
  OBVIOUS
<1> HIDE DEF w
<1>10. z >= -1 /\ z \in Int /\ i \in Int /\ i >= 1 /\ i <= Len(s)
  BY <1>1, <1>2, <1>3 DEF Remaining
<1>11. ASSUME iter.on = "forward"
       PROVE  z >= 0 /\ \A y \in 2 .. Len(todo) : todo[y] = w[(z - 1) + y]
  <2>1. \A y \in 2 .. Len(todo) : todo[y] = s[z + y]
    BY <1>1, <1>11 DEF Remaining
  <2>2. i <= z + 1
    <3>1. SUFFICES ASSUME i > z + 1 PROVE FALSE
      BY <1>10
    <3>2. PICK y : y = i - z
      OBVIOUS
    <3>3. y \in Int /\ y >= 2 /\ z + y = i
      <4>1. z \in Int /\ i \in Int
        BY <1>10
      <4> HIDE DEF z
      <4> QED BY <3>1, <3>2, <4>1
    <3>4. y <= Len(todo)
      BY <3>3, <1>2, <1>10
    <3>5. y \in 2 .. Len(todo)
      BY <3>3, <3>4, <1>2
    <3> QED BY <3>3, <3>5, <2>1, <1>5
  <2>3. z >= 0
    BY <2>2, <1>10
  <2>4. ASSUME NEW y \in 2 .. Len(todo) PROVE todo[y] = w[(z - 1) + y]
    <3>1. (z - 1) + y \in 1 .. Len(s) - 1 /\ ~((z - 1) + y < i) /\ ((z - 1) + y) + 1 = z + y
      BY <2>2, <2>3, <1>2, <1>10
    <3> QED BY <3>1, <2>1, <1>7
  <2> QED BY <2>3, <2>4
<1>12. ASSUME iter.on = "back"
       PROVE  z >= 0 /\ \A y \in 2 .. Len(todo) : todo[y] = w[(Len(todo) - y) + 1]
  <2>1. \A y \in 2 .. Len(todo) : todo[y] = s[(Len(todo) - y) + 1]
    BY <1>1, <1>12 DEF Remaining
  <2>2. i >= Len(todo)
    <3>1. SUFFICES ASSUME i < Len(todo) PROVE FALSE
      BY <1>2, <1>10
    <3>2. (Len(todo) - i) + 1 \in 2 .. Len(todo) /\ (Len(todo) - ((Len(todo) - i) + 1)) + 1 = i
      BY <3>1, <1>2, <1>10
    <3> QED BY <3>2, <2>1, <1>5
  <2>3. ASSUME NEW y \in 2 .. Len(todo) PROVE todo[y] = w[(Len(todo) - y) + 1]
    <3>1. (Len(todo) - y) + 1 \in 1 .. Len(s) - 1 /\ (Len(todo) - y) + 1 < i
      BY <2>2, <1>2, <1>10
    <3> QED BY <3>1, <2>1, <1>7
  <2>4. z >= 0
    BY <2>2, <1>2, <1>10
  <2> QED BY <2>3, <2>4
<1>13. Len(w) - Len(todo) = z - 1 /\ z - 1 >= -1
  <2>1. z >= 0
    BY <1>3, <1>11, <1>12
  <2> QED BY <2>1, <1>2, <1>7
<1>14. kind # "single"
  OBVIOUS
<1> HIDE DEF z
<1> QED BY <1>3, <1>8, <1>9, <1>11, <1>12, <1>13, <1>14 DEF Remaining

LEMMA EraseKeeps ==
  ASSUME ListInv, NEW n \in Nodes, Erase(n) PROVE ListInv'
<1> DEFINE s == should.first
           i == Place(s, n)
           p == mem.prev[n]
           q == mem.next[n]
<1>1. /\ kind \in {"forward", "double"} /\ n \in ToSet(s) /\ (iter = NoIter \/ n = iter.item)
      /\ mem' = Prev1(Next1(mem, p, q), q, p)
      /\ first' = [head |-> IF p # Nil THEN first.head ELSE q,
                   tail |-> IF HasTail THEN (IF q # Nil THEN first.tail ELSE p) ELSE first.tail]
      /\ kind' = kind /\ second' = second /\ iter' = iter /\ todo' = todo
  BY DEF Erase, Erased, Idle0
<1>2. /\ should = [first |-> s, second |-> should.second] /\ s \in Seq(Nodes) /\ mem \in Memory
      /\ first.head \in Pointers /\ first.tail \in Pointers /\ iter \in Iterators /\ todo \in Seq(Nodes)
  BY ListTypeFacts DEF ListInv
<1>3. i \in 1 .. Len(s) /\ s[i] = n
  BY <1>1, <1>2, PlaceFacts, NilIsNoNode
<1>4. p = ItemAt(s, i - 1) /\ q = ItemAt(s, i + 1)
  BY <1>1, <1>3, NeighbourFacts DEF Doubly
<1>5. should' = [first |-> Without(s, i, i + 1), second |-> should.second]
  BY <1>2 DEF Erase
<1>6. p \in Pointers /\ q \in Pointers
  BY <1>2 DEF Memory, Pointers
<1> HIDE DEF i, p, q
<1>7. IterPlaced' /\ Remaining'
  <2>1. CASE iter.on = "no"
    BY <1>1, <2>1, IdleKept DEF ListInv
  <2>2. CASE iter.on # "no"
    <3>1. s[i] = iter.item
      BY <1>1, <1>3, <2>2 DEF NoIter
    <3> QED BY <1>1, <1>3, <1>5, <2>2, <3>1, ErasedUnderIter
  <2> QED BY <2>1, <2>2
<1>8. /\ mem' \in Memory
      /\ \A x \in Nodes : /\ mem'.prev[x] = IF x = q THEN p ELSE mem.prev[x]
                          /\ mem'.next[x] = IF x = p THEN q ELSE mem.next[x]
  <2>1. mem \in Memory
    BY <1>2
  <2> QED BY <1>1, <1>6, <2>1, BothFacts
<1>9. first' \in ListEnds
  BY <1>1, <1>2, <1>6 DEF ListEnds
<1>10. JoinedAround(kind, mem, mem', first, first', p, q)
  BY <1>1, <1>8 DEF JoinedAround, HasTail
<1>11. i \in 1 .. Len(s) + 1 /\ i + 1 \in i .. Len(s) + 1
  <2>1. Len(s) \in Nat
    BY <1>2, LenProperties
  <2> QED BY <2>1, <1>3
<1> QED BY <1>1, <1>2, <1>4, <1>5, <1>7, <1>8, <1>9, <1>10, <1>11, JoinStep

LEMMA EraseAfterKeeps ==
  ASSUME ListInv, EraseAfter PROVE ListInv'
<1> DEFINE s == should.first
           z == Len(s) - Len(todo)
           i == z + 1
           p == iter.prev
           q == mem.next[iter.item]
<1>1. /\ kind = "single" /\ iter.on = "forward" /\ iter.item # Nil
      /\ mem' = Next1(mem, p, q)
      /\ iter' = [[iter EXCEPT !.item = p] EXCEPT !.on = "erased"]
      /\ kind' = kind /\ second' = second /\ todo' = todo
  BY DEF EraseAfter, SteppedBack
<1>2. /\ should = [first |-> s, second |-> should.second] /\ s \in Seq(Nodes) /\ mem \in Memory
      /\ first = [head |-> first.head, tail |-> first.tail]
      /\ first.head \in Pointers /\ first.tail \in Pointers /\ iter \in Iterators /\ todo \in Seq(Nodes)
  BY ListTypeFacts DEF ListInv
<1>3. IterPlaced /\ Remaining /\ NodesApart
  BY DEF ListInv
<1>4. Len(s) \in Nat /\ Len(todo) \in Nat
  BY <1>2, LenProperties
<1>5. iter.item = ItemAt(todo, 1)
  BY <1>1, <1>3 DEF IterPlaced
<1>6. 1 \in 1 .. Len(todo) /\ Len(todo) >= 1 /\ iter.item = todo[1]
  BY <1>1, <1>4, <1>5 DEF ItemAt
<1>7. z >= 0 /\ todo[1] = s[i] /\ p = ItemAt(s, z) /\ \A y \in 2 .. Len(todo) : todo[y] = s[z + y]
  BY <1>1, <1>3, <1>6 DEF Remaining
<1>8. i \in 1 .. Len(s) /\ i \in 1 .. Len(s) + 1 /\ i + 1 \in i .. Len(s) + 1 /\ i - 1 = z /\ z \in Int
  BY <1>4, <1>6, <1>7
<1>9. Place(s, iter.item) = i
  <2>1. s[i] \in Nodes /\ s[i] = iter.item
    BY <1>2, <1>6, <1>7, <1>8, ElementOfSeq
  <2>2. s[i] \in ToSet(s)
    BY <1>2, <1>8, LenProperties DEF ToSet
  <2>3. Place(s, s[i]) \in 1 .. Len(s) /\ s[Place(s, s[i])] = s[i]
    BY <1>2, <2>1, <2>2, PlaceFacts, NilIsNoNode
  <2> QED BY <2>1, <2>3, <1>3, <1>8 DEF NodesApart, NoRepeats
<1>10. should' = [first |-> Without(s, i, i + 1), second |-> should.second]
  BY <1>2, <1>9 DEF EraseAfter
<1>11. q = ItemAt(s, i + 1)
  BY <1>6, <1>7, <1>8, NeighbourFacts
<1>12. p \in Pointers /\ q \in Pointers /\ iter.next \in Pointers /\ iter = [on |-> iter.on, prev |-> p, item |-> iter.item, next |-> iter.next]
  <2>1. iter.item \in Nodes
    BY <1>1, <1>2 DEF Iterators, Pointers
  <2> QED BY <1>2, <2>1 DEF Memory, Iterators
<1>13. iter' = [on |-> "erased", prev |-> p, item |-> p, next |-> iter.next]
  BY <1>1, <1>12
<1>14. first' = [head |-> IF p # Nil THEN first.head ELSE q, tail |-> first.tail]
  BY <1>2 DEF EraseAfter
<1> HIDE DEF i, p, q
<1>15. /\ mem' \in Memory
       /\ \A x \in Nodes : /\ mem'.next[x] = IF x = p THEN q ELSE mem.next[x]
                           /\ mem'.prev[x] = mem.prev[x]
  <2>1. mem \in Memory
    BY <1>2
  <2>2. /\ Next1(mem, p, q) \in Memory
        /\ \A x \in Nodes : /\ Next1(mem, p, q).next[x] = IF x = p THEN q ELSE mem.next[x]
                            /\ Next1(mem, p, q).prev[x] = mem.prev[x]
    <3>1. p \in Pointers /\ q \in Pointers
      BY <1>12
    <3> QED BY <2>1, <3>1, Next1Facts
  <2> QED BY <1>1, <2>2
<1>16. first' \in ListEnds
  BY <1>2, <1>12, <1>14 DEF ListEnds
<1>17. JoinedAround(kind, mem, mem', first, first', p, q)
  BY <1>1, <1>14, <1>15 DEF JoinedAround
<1>18. iter' \in Iterators /\ todo' \in Seq(Nodes)
  BY <1>1, <1>2, <1>12, <1>13 DEF Iterators
<1>19. IterPlaced'
  BY <1>1, <1>3, <1>6, <1>13 DEF IterPlaced
<1>20. Remaining'
  <2> DEFINE w == Without(s, i, i + 1)
  <2>1. (i + 1) - i = 1 /\ i = z + 1
    BY <1>8 DEF i
  <2>2. /\ Len(w) = Len(s) - 1
        /\ \A x \in 1 .. Len(s) - 1 : w[x] = IF x < i THEN s[x] ELSE s[x + 1]
    <3>1. /\ Len(w) = Len(s) - ((i + 1) - i)
          /\ \A x \in 1 .. Len(s) - ((i + 1) - i) : w[x] = IF x < i THEN s[x] ELSE s[x + ((i + 1) - i)]
      BY <1>2, <1>8, WithoutFacts
    <3> QED BY <3>1, <2>1
  <2>3. ItemAt(w, z) = ItemAt(s, z)
    <3>1. z < i
      BY <2>1, <1>8
    <3> QED BY <3>1, <1>2, <1>8, WithoutItems
  <2>4. should'.first = w
    BY <1>10
  <2> HIDE DEF w
  <2>5. ASSUME NEW y \in 2 .. Len(todo) PROVE todo[y] = w[(z - 1) + y]
    <3>1. (z - 1) + y \in 1 .. Len(s) - 1 /\ ~((z - 1) + y < i) /\ ((z - 1) + y) + 1 = z + y
      BY <2>1, <1>4, <1>7, <1>8
    <3> QED BY <3>1, <2>2, <1>7
  <2>6. Len(w) - Len(todo) = z - 1 /\ z - 1 >= -1 /\ (z - 1) + 1 = z
    BY <2>2, <1>4, <1>7
  <2>7. iter'.item = ItemAt(w, z) /\ iter'.on = "erased"
    BY <2>3, <1>7, <1>13 DEF p
  <2> HIDE DEF z
  <2> QED BY <2>4, <2>5, <2>6, <2>7, <1>1 DEF Remaining
<1> QED BY <1>1, <1>2, <1>7, <1>8, <1>10, <1>11, <1>15, <1>16, <1>17, <1>18, <1>19, <1>20, JoinStep DEF p

(* The memory in which a free node is a list of its own, and the lists are as
   they were. *)
LEMMA FreeApart ==
  ASSUME ListInv, NEW n \in Nodes, FreeNode(n)
  PROVE  LET m1 == Next1(Prev1(mem, n, Nil), n, Nil)
         IN  /\ m1 \in Memory
             /\ \A x \in Nodes : /\ m1.next[x] = IF x = n THEN Nil ELSE mem.next[x]
                                 /\ m1.prev[x] = IF x = n THEN Nil ELSE mem.prev[x]
             /\ Held(kind, m1, [head |-> n, tail |-> n], <<n>>)
             /\ Held(kind, m1, first, should.first)
             /\ NoRepeats(<<n>>) /\ <<n>> \in Seq(Nodes) /\ Len(<<n>>) = 1 /\ ItemAt(<<n>>, 1) = n
             /\ Disjoint(<<n>>, should.first) /\ Disjoint(should.first, <<n>>) /\ Disjoint(<<n>>, should.second)
<1>1. PICK m0 : m0 = Prev1(mem, n, Nil)
  OBVIOUS
<1>2. PICK m1 : m1 = Next1(m0, n, Nil)
  OBVIOUS
<1>3. mem \in Memory /\ n \in Pointers /\ Nil \in Pointers /\ should.first \in Seq(Nodes)
  BY ListTypeFacts DEF ListInv, Pointers
<1>4. /\ m0 \in Memory
      /\ \A x \in Nodes : /\ m0.prev[x] = IF x = n THEN Nil ELSE mem.prev[x]
                          /\ m0.next[x] = mem.next[x]
  BY <1>1, <1>3, Prev1Facts
<1>5. /\ m1 \in Memory
      /\ \A x \in Nodes : /\ m1.next[x] = IF x = n THEN Nil ELSE m0.next[x]
                          /\ m1.prev[x] = m0.prev[x]
  BY <1>2, <1>3, <1>4, Next1Facts
<1>6. /\ \A x \in Nodes : /\ m1.next[x] = IF x = n THEN Nil ELSE mem.next[x]
                          /\ m1.prev[x] = IF x = n THEN Nil ELSE mem.prev[x]
  BY <1>4, <1>5
<1>7. /\ \A i \in 1 .. Len(should.first) : should.first[i] # n
      /\ \A i \in 1 .. Len(should.second) : should.second[i] # n
  BY FreeFacts DEF ListInv
<1>8. PICK g : g = [head |-> n, tail |-> n]
  OBVIOUS
<1>9. Held(kind, m1, g, <<n>>) /\ NoRepeats(<<n>>) /\ <<n>> \in Seq(Nodes) /\ Len(<<n>>) = 1 /\ ItemAt(<<n>>, 1) = n
  <2>1. m1.next[n] = Nil /\ m1.prev[n] = Nil /\ g.head = n /\ g.tail = n
    BY <1>6, <1>8
  <2> QED BY <2>1, OneHeld
<1>10. Held(kind, m1, first, should.first)
  <2>1. Held(kind, mem, first, should.first)
    BY HoldIsHeld DEF ListInv
  <2>2. ASSUME NEW i \in 1 .. Len(should.first)
        PROVE  /\ m1.next[should.first[i]] = mem.next[should.first[i]]
               /\ m1.prev[should.first[i]] = mem.prev[should.first[i]]
    <3>1. should.first[i] \in Nodes /\ should.first[i] # n
      BY <1>3, <1>7, ElementOfSeq
    <3> QED BY <3>1, <1>6
  <2> QED BY <2>1, <2>2, UntouchedHeld
<1>11. /\ Disjoint(<<n>>, should.first) /\ Disjoint(should.first, <<n>>) /\ Disjoint(<<n>>, should.second)
  <2>1. \A i \in 1 .. Len(<<n>>) : <<n>>[i] = n
    OBVIOUS
  <2> QED BY <2>1, <1>7 DEF Disjoint
<1> QED BY <1>1, <1>2, <1>5, <1>6, <1>8, <1>9, <1>10, <1>11

LEMMA PushFrontMem ==
  ASSUME ListInv, NEW n \in Nodes, PushFront(n)
  PROVE  /\ mem' \in Memory
         /\ \A x \in Nodes : mem'.next[x] = IF x = n THEN first.head ELSE mem.next[x]
         /\ Doubly => \A x \in Nodes : mem'.prev[x] = IF x = first.head THEN n
                                                      ELSE IF x = n THEN Nil ELSE mem.prev[x]
<1>1. mem \in Memory /\ n \in Pointers /\ Nil \in Pointers /\ first.head \in Pointers
  BY ListTypeFacts DEF ListInv, Pointers
<1>2. CASE ~Doubly
  <2>1. mem' = Next1(mem, n, first.head)
    BY <1>2 DEF PushFront
  <2>2. NextSet(mem, n, first.head, mem')
    BY <1>1, <2>1, Next1Sets
  <2> QED BY <1>2, <2>2 DEF NextSet
<1>3. CASE Doubly
  <2>1. mem' = FrontLinked(mem, first, n)
    BY <1>3 DEF PushFront
  <2> QED BY <1>1, <2>1, FrontFacts
<1> QED BY <1>2, <1>3

(* New items in front are not among those still to visit. *)
LEMMA PushedUnderIter ==
  ASSUME ListInv, kind \in {"forward", "double"}, iter.on \notin {"no", "back"}, NEW n \in Nodes,
         kind' = kind, iter' = iter, todo' = todo,
         should' = [first |-> <<n>> \o should.first, second |-> should.second]
  PROVE  IterPlaced' /\ Remaining'
<1> DEFINE s == should.first
           w == <<n>> \o s
           z == Len(s) - Len(todo)
<1>1. IterPlaced /\ Remaining /\ s \in Seq(Nodes) /\ todo \in Seq(Nodes) /\ iter \in Iterators
  BY ListTypeFacts DEF ListInv
<1>2. Len(s) \in Nat /\ Len(todo) \in Nat
  BY <1>1, LenProperties
<1>3. iter.on = "forward"
  BY <1>1 DEF IterPlaced, Iterators
<1>4. IterPlaced'
  BY <1>1 DEF IterPlaced
<1>5. Len(w) = Len(s) + 1 /\ \A x \in 2 .. Len(s) + 1 : w[x] = s[x - 1]
  <2>1. <<n>> \in Seq(Nodes) /\ Len(<<n>>) = 1
    OBVIOUS
  <2>2. /\ Len(w) = 1 + Len(s)
        /\ \A x \in 1 .. 1 + Len(s) : w[x] = IF x <= 1 THEN <<n>>[x] ELSE s[x - 1]
    BY <1>1, <2>1, ConcatProperties
  <2> HIDE DEF w
  <2> QED BY <2>2, <1>2
<1>6. should'.first = w
  OBVIOUS
<1> HIDE DEF w
<1>7. z \in Int /\ z >= -1 /\ \A y \in 2 .. Len(todo) : todo[y] = s[z + y]
  BY <1>1, <1>2, <1>3 DEF Remaining
<1>8. Len(w) - Len(todo) = z + 1 /\ z + 1 >= -1
  BY <1>2, <1>5, <1>7
<1>9. ASSUME NEW y \in 2 .. Len(todo) PROVE todo[y] = w[(z + 1) + y]
  <2>1. (z + 1) + y \in 2 .. Len(s) + 1 /\ ((z + 1) + y) - 1 = z + y
    BY <1>2, <1>7
  <2> QED BY <2>1, <1>5, <1>7
<1>10. kind # "single"
  OBVIOUS
<1> HIDE DEF z
<1> QED BY <1>3, <1>4, <1>6, <1>8, <1>9, <1>10 DEF Remaining

LEMMA PushFrontKeeps ==
  ASSUME ListInv, NEW n \in Nodes, PushFront(n) PROVE ListInv'
<1> DEFINE s == should.first
           w == <<n>> \o s
           q == first.head
<1>1. /\ kind \in {"forward", "double", "single"} /\ FreeNode(n)
      /\ (kind = "single" => iter = NoIter) /\ iter.on # "back"
      /\ first' = [head |-> n, tail |-> IF HasTail /\ first.head = Nil THEN n ELSE first.tail]
      /\ kind' = kind /\ second' = second /\ iter' = iter /\ todo' = todo
  BY DEF PushFront, Idle0
<1>2. /\ should = [first |-> s, second |-> should.second] /\ s \in Seq(Nodes)
      /\ first.tail \in Pointers /\ iter \in Iterators /\ todo \in Seq(Nodes)
  BY ListTypeFacts DEF ListInv
<1>3. should' = [first |-> w, second |-> should.second]
  BY <1>2 DEF PushFront
<1>4. PICK m1 : m1 = Next1(Prev1(mem, n, Nil), n, Nil)
  OBVIOUS
<1>5. PICK g : g = [head |-> n, tail |-> n]
  OBVIOUS
<1>6. /\ \A x \in Nodes : /\ m1.next[x] = IF x = n THEN Nil ELSE mem.next[x]
                          /\ m1.prev[x] = IF x = n THEN Nil ELSE mem.prev[x]
      /\ Held(kind, m1, g, <<n>>) /\ Held(kind, m1, first, s)
      /\ NoRepeats(<<n>>) /\ <<n>> \in Seq(Nodes) /\ Len(<<n>>) = 1 /\ ItemAt(<<n>>, 1) = n
      /\ Disjoint(<<n>>, s) /\ Disjoint(<<n>>, should.second)
  BY <1>1, <1>4, <1>5, FreeApart
<1>7. /\ mem' \in Memory
      /\ \A x \in Nodes : mem'.next[x] = IF x = n THEN q ELSE mem.next[x]
      /\ Doubly => \A x \in Nodes : mem'.prev[x] = IF x = q THEN n ELSE IF x = n THEN Nil ELSE mem.prev[x]
  BY PushFrontMem
<1>8. NoRepeats(s) /\ Disjoint(s, should.second) /\ q = ItemAt(s, 1)
  <2>1. Held(kind, mem, first, s)
    BY HoldIsHeld DEF ListInv
  <2> QED BY <2>1 DEF ListInv, NodesApart, Held
<1>9. LinkedUp(kind, m1, mem', g, first, first', n, q)
  <2>1. g.head = n /\ g.tail = n /\ n # Nil
    BY <1>5, NilIsNoNode
  <2>2. \A x \in Nodes : mem'.next[x] = IF x = n THEN q ELSE m1.next[x]
    BY <1>6, <1>7
  <2>3. Doubly => \A x \in Nodes : mem'.prev[x] = IF x = q THEN n ELSE m1.prev[x]
    BY <1>6, <1>7
  <2>4. first'.head = n /\ (HasTail => first'.tail = IF q # Nil THEN first.tail ELSE n)
    BY <1>1
  <2> QED BY <2>1, <2>2, <2>3, <2>4 DEF LinkedUp, Doubly, HasTail
<1>10. Held(kind, mem', first', w)
  <2>1. LinkedUp(kind, m1, mem', g, first, first', ItemAt(<<n>>, Len(<<n>>)), ItemAt(s, 1))
    BY <1>6, <1>8, <1>9
  <2> HIDE DEF s, q
  <2> QED BY <2>1, <1>2, <1>6, <1>8, ConcatHeld
<1>11. w \in Seq(Nodes) /\ NoRepeats(w) /\ Disjoint(w, should.second)
  BY <1>2, <1>6, <1>8, ConcatFacts, ConcatApart
<1>12. first' \in ListEnds
  BY <1>1, <1>2 DEF ListEnds, Pointers
<1>13. FirstChanges
  <2>1. ASSUME NEW x \in Nodes, NEW h \in 1 .. Len(should.second), should.second[h] = x
        PROVE  mem'.next[x] = mem.next[x] /\ (Doubly => mem'.prev[x] = mem.prev[x])
    <3>1. x # n
      BY <1>1, <2>1, FreeFacts DEF ListInv
    <3>2. x # q
      BY <2>1, <1>8, NotOfSecond DEF ListInv
    <3> QED BY <3>1, <3>2, <1>7
  <2> QED BY <2>1, <1>1, <1>7, <1>12 DEF FirstChanges
<1>14. IterPlaced' /\ Remaining'
  <2>1. CASE iter.on = "no"
    BY <1>1, <2>1, IdleKept DEF ListInv
  <2>2. CASE iter.on # "no"
    <3>1. kind \in {"forward", "double"} /\ iter.on \notin {"no", "back"}
      BY <1>1, <2>2 DEF NoIter
    <3> QED BY <1>1, <1>3, <3>1, PushedUnderIter
  <2> QED BY <2>1, <2>2
<1>15. iter' \in Iterators /\ todo' \in Seq(Nodes)
  BY <1>1, <1>2
<1> HIDE DEF w
<1> QED BY <1>3, <1>10, <1>11, <1>13, <1>14, <1>15, FirstChanged

(* n is put behind h: m1, and in a doubly linked list m2. *)
AppendSet(m, h, n, m1, m2) ==
  /\ m1 \in Memory /\ m2 \in Memory
  /\ \A x \in Nodes : m1.next[x] = IF x = n THEN Nil ELSE IF x = h THEN n ELSE m.next[x]
  /\ \A x \in Nodes : m2.next[x] = m1.next[x] /\ m2.prev[x] = IF x = n THEN h ELSE m.prev[x]

LEMMA AppendMem ==
  ASSUME NEW m \in Memory, NEW h \in Pointers, NEW n \in Nodes,
         NEW m1, m1 = Next1(Next1(m, h, n), n, Nil), NEW m2, m2 = Prev1(m1, n, h)
  PROVE  AppendSet(m, h, n, m1, m2)
<1>1. n \in Pointers /\ Nil \in Pointers
  BY DEF Pointers
<1>2. PICK m0 : m0 = Next1(m, h, n)
  OBVIOUS
<1>3. NextSet(m, h, n, m0)
  BY <1>1, <1>2, Next1Sets
<1>4. m0 \in Memory
  BY <1>3 DEF NextSet
<1>5. NextSet(m0, n, Nil, m1)
  BY <1>1, <1>2, <1>4, Next1Sets
<1>6. m1 \in Memory
  BY <1>5 DEF NextSet
<1>7. PrevSet(m1, n, h, m2)
  BY <1>1, <1>6, Prev1Sets
<1> QED BY <1>3, <1>5, <1>7 DEF NextSet, PrevSet, AppendSet

LEMMA ListAppendKeeps ==
  ASSUME ListInv, NEW n \in Nodes, ListAppend(n) PROVE ListInv'
<1> DEFINE s == should.first
           w == s \o <<n>>
           p == first.tail
<1>1. /\ kind \in {"queue", "sent", "batch"} /\ FreeNode(n)
      /\ mem' = IF Doubly THEN Prev1(Next1(Next1(mem, p, n), n, Nil), n, p) ELSE Next1(Next1(mem, p, n), n, Nil)
      /\ first' = [head |-> IF p # Nil THEN first.head ELSE n, tail |-> n]
      /\ kind' = kind /\ second' = second /\ iter' = iter /\ todo' = todo
  BY DEF ListAppend, Appended
<1>2. /\ should = [first |-> s, second |-> should.second] /\ s \in Seq(Nodes) /\ mem \in Memory
      /\ first.head \in Pointers /\ p \in Pointers /\ iter \in Iterators /\ todo \in Seq(Nodes)
  BY ListTypeFacts DEF ListInv
<1>3. should' = [first |-> w, second |-> should.second]
  BY <1>2, AppendIsConcat DEF ListAppend
<1>4. PICK m1 : m1 = Next1(Prev1(mem, n, Nil), n, Nil)
  OBVIOUS
<1>5. PICK g : g = [head |-> n, tail |-> n]
  OBVIOUS
<1>6. /\ \A x \in Nodes : /\ m1.next[x] = IF x = n THEN Nil ELSE mem.next[x]
                          /\ m1.prev[x] = IF x = n THEN Nil ELSE mem.prev[x]
      /\ Held(kind, m1, g, <<n>>) /\ Held(kind, m1, first, s)
      /\ NoRepeats(<<n>>) /\ <<n>> \in Seq(Nodes) /\ Len(<<n>>) = 1 /\ ItemAt(<<n>>, 1) = n
      /\ Disjoint(s, <<n>>) /\ Disjoint(<<n>>, should.second)
  BY <1>1, <1>4, <1>5, FreeApart
<1>7. /\ mem' \in Memory
      /\ \A x \in Nodes : mem'.next[x] = IF x = n THEN Nil ELSE IF x = p THEN n ELSE mem.next[x]
      /\ Doubly => \A x \in Nodes : mem'.prev[x] = IF x = n THEN p ELSE mem.prev[x]
  <2> HIDE DEF p
  <2>1. PICK m2 : m2 = Next1(Next1(mem, p, n), n, Nil)
    OBVIOUS
  <2>2. PICK m3 : m3 = Prev1(m2, n, p)
    OBVIOUS
  <2>3. /\ m2 \in Memory /\ m3 \in Memory
        /\ \A x \in Nodes : m2.next[x] = IF x = n THEN Nil ELSE IF x = p THEN n ELSE mem.next[x]
        /\ \A x \in Nodes : m3.next[x] = m2.next[x] /\ m3.prev[x] = IF x = n THEN p ELSE mem.prev[x]
    <3>1. mem \in Memory /\ p \in Pointers
      BY <1>2
    <3>2. AppendSet(mem, p, n, m2, m3)
      BY <2>1, <2>2, <3>1, AppendMem
    <3> QED BY <3>2 DEF AppendSet
  <2>4. CASE Doubly
    <3>1. mem' = m3
      BY <1>1, <2>1, <2>2, <2>4
    <3> QED BY <2>3, <3>1
  <2>5. CASE ~Doubly
    <3>1. mem' = m2
      BY <1>1, <2>1, <2>5
    <3> QED BY <2>3, <2>5, <3>1
  <2> QED BY <2>4, <2>5
<1>8. NoRepeats(s) /\ Disjoint(s, should.second) /\ p = ItemAt(s, Len(s))
  <2>1. Held(kind, mem, first, s)
    BY HoldIsHeld DEF ListInv
  <2> QED BY <2>1, <1>1 DEF ListInv, NodesApart, Held
<1>9. p # n
  BY <1>1, <1>8, FreeFacts, NilIsNoNode DEF ListInv, ItemAt
<1>10. LinkedUp(kind, m1, mem', first, g, first', p, n)
  <2>1. g.head = n /\ g.tail = n /\ n # Nil
    BY <1>5, NilIsNoNode
  <2>2. \A x \in Nodes : mem'.next[x] = IF x = p THEN n ELSE m1.next[x]
    BY <1>6, <1>7, <1>9
  <2>3. Doubly => \A x \in Nodes : mem'.prev[x] = IF x = n THEN p ELSE m1.prev[x]
    BY <1>6, <1>7
  <2>4. first'.head = (IF p # Nil THEN first.head ELSE n) /\ first'.tail = n
    BY <1>1
  <2> QED BY <2>1, <2>2, <2>3, <2>4 DEF LinkedUp, Doubly
<1>11. Held(kind, mem', first', w)
  <2>1. LinkedUp(kind, m1, mem', first, g, first', ItemAt(s, Len(s)), ItemAt(<<n>>, 1))
    BY <1>6, <1>8, <1>10
  <2> HIDE DEF s, p
  <2> QED BY <2>1, <1>2, <1>6, <1>8, ConcatHeld
<1>12. w \in Seq(Nodes) /\ NoRepeats(w) /\ Disjoint(w, should.second)
  BY <1>2, <1>6, <1>8, ConcatFacts, ConcatApart
<1>13. first' \in ListEnds
  BY <1>1, <1>2 DEF ListEnds, Pointers
<1>14. FirstChanges
  <2>1. ASSUME NEW x \in Nodes, NEW h \in 1 .. Len(should.second), should.second[h] = x
        PROVE  mem'.next[x] = mem.next[x] /\ (Doubly => mem'.prev[x] = mem.prev[x])
    <3>1. x # n
      BY <1>1, <2>1, FreeFacts DEF ListInv
    <3>2. Len(s) \in Int
      BY <1>2, LenProperties
    <3>3. x # p
      BY <2>1, <1>8, <3>2, NotOfSecond DEF ListInv
    <3> QED BY <3>1, <3>3, <1>7
  <2> QED BY <2>1, <1>1, <1>7, <1>13 DEF FirstChanges
<1>15. iter.on = "no"
  BY <1>1, <1>2 DEF ListInv, IterPlaced
<1>16. IterPlaced' /\ Remaining'
  BY <1>1, <1>15, IdleKept DEF ListInv
<1>17. iter' \in Iterators /\ todo' \in Seq(Nodes)
  BY <1>1, <1>2
<1> HIDE DEF w
<1> QED BY <1>3, <1>11, <1>12, <1>14, <1>16, <1>17, FirstChanged

(* Both lists change, with no iterator. *)
LEMMA BothChanged ==
  ASSUME ListInv, iter = NoIter, kind' = kind, iter' = iter, todo' = todo, mem' \in Memory,
         first' \in ListEnds, second' \in ListEnds, NEW a \in Seq(Nodes), NEW b \in Seq(Nodes),
         should' = [first |-> a, second |-> b], NoRepeats(a), NoRepeats(b), Disjoint(a, b),
         Held(kind, mem', first', a), Held(kind, mem', second', b)
  PROVE  ListInv'
<1>1. should'.first = a /\ should'.second = b
  OBVIOUS
<1>2. ListTypes'
  BY DEF ListInv, ListTypes
<1>3. NodesApart'
  BY <1>1 DEF NodesApart
<1>4. ListsHold'
  BY <1>1, HoldIsHeld
<1>5. IterPlaced' /\ Remaining'
  <2>1. iter.on = "no"
    BY DEF NoIter
  <2> QED BY <2>1, IdleKept DEF ListInv
<1> QED BY <1>2, <1>3, <1>4, <1>5 DEF ListInv

LEMMA NoneHeld ==
  ASSUME NEW k, NEW m
  PROVE  /\ Held(k, m, EmptyList, <<>>) /\ EmptyList \in ListEnds /\ <<>> \in Seq(Nodes)
         /\ NoRepeats(<<>>) /\ \A u : Disjoint(u, <<>>) /\ Disjoint(<<>>, u)
<1>1. Len(<<>>) = 0 /\ <<>> \in Seq(Nodes) /\ 1 .. 0 = {} /\ 1 \notin 1 .. 0 /\ 0 \notin 1 .. 0
  OBVIOUS
<1>2. ItemAt(<<>>, 1) = Nil /\ ItemAt(<<>>, 0) = Nil
  BY <1>1 DEF ItemAt
<1> QED BY <1>1, <1>2 DEF Held, NoRepeats, Disjoint, EmptyList, ListEnds, Pointers

LEMMA NoHead ==
  ASSUME NEW k, NEW m, NEW l, NEW s \in Seq(Nodes), Held(k, m, l, s), l.head = Nil
  PROVE  s = <<>>
<1>1. 1 \notin 1 .. Len(s)
  BY ItemFacts, NilIsNoNode DEF Held
<1> QED BY <1>1, LenProperties, EmptySeq

LEMMA ExchangeKeeps ==
  ASSUME ListInv, Exchange PROVE ListInv'
<1>1. /\ iter = NoIter /\ first' = second /\ second' = first /\ mem' = mem /\ kind' = kind
      /\ iter' = iter /\ todo' = todo /\ should' = [first |-> should.second, second |-> should.first]
  BY DEF Exchange, Idle0
<1>2. /\ mem \in Memory /\ first \in ListEnds /\ second \in ListEnds
      /\ should.first \in Seq(Nodes) /\ should.second \in Seq(Nodes)
  BY ListTypeFacts DEF ListInv, ListTypes
<1>3. NoRepeats(should.first) /\ NoRepeats(should.second) /\ Disjoint(should.second, should.first)
  BY DEF ListInv, NodesApart, Disjoint
<1>4. Held(kind, mem, first, should.first) /\ Held(kind, mem, second, should.second)
  BY HoldIsHeld DEF ListInv
<1>5. PICK a \in Seq(Nodes) : a = should.second
  BY <1>2
<1>6. PICK b \in Seq(Nodes) : b = should.first
  BY <1>2
<1> QED BY <1>1, <1>2, <1>3, <1>4, <1>5, <1>6, BothChanged

LEMMA StealKeeps ==
  ASSUME ListInv, Steal PROVE ListInv'
<1> DEFINE s == should.first
           u == should.second
           w == s \o u
<1>1. /\ iter = NoIter /\ (kind \in {"forward", "double", "single"} => first.head = Nil) /\ kind # "sent"
      /\ second' = EmptyList /\ should' = [first |-> w, second |-> <<>>]
      /\ kind' = kind /\ iter' = iter /\ todo' = todo
  BY DEF Steal, Idle0
<1>2. /\ kind \in ListKinds /\ mem \in Memory /\ first \in ListEnds /\ second \in ListEnds /\ s \in Seq(Nodes) /\ u \in Seq(Nodes)
      /\ first.head \in Pointers /\ first.tail \in Pointers /\ second.head \in Pointers /\ second.tail \in Pointers
  BY ListTypeFacts DEF ListInv, ListTypes
<1>3. NoRepeats(s) /\ NoRepeats(u) /\ Disjoint(s, u)
  BY DEF ListInv, NodesApart
<1>4. Held(kind, mem, first, s) /\ Held(kind, mem, second, u)
  BY HoldIsHeld DEF ListInv
<1>5. w \in Seq(Nodes) /\ NoRepeats(w)
  BY <1>2, <1>3, ConcatFacts, ConcatApart
<1>6. mem' \in Memory /\ first' \in ListEnds /\ Held(kind, mem', first', w)
  <2>1. CASE kind \notin {"queue", "batch"}
    <3>1. first' = second /\ mem' = mem
      BY <2>1 DEF Steal
    <3>2. first.head = Nil
      BY <1>1, <1>2, <2>1, ListAssumption
    <3>3. s = <<>>
      BY <1>2, <1>4, <3>2, NoHead
    <3>4. w = u
      BY <1>2, <3>3, ConcatEmptySeq
    <3> QED BY <1>2, <1>4, <3>1, <3>4
  <2>2. CASE kind \in {"queue", "batch"} /\ second.head = Nil
    <3>1. first' = first /\ mem' = mem
      BY <2>2 DEF Steal
    <3>2. u = <<>>
      BY <1>2, <1>4, <2>2, NoHead
    <3>3. w = s
      BY <1>2, <3>2, ConcatEmptySeq
    <3> QED BY <1>2, <1>4, <3>1, <3>3
  <2>3. CASE kind \in {"queue", "batch"} /\ second.head # Nil
    <3>1. /\ mem' = Next1(mem, first.tail, second.head)
          /\ first' = [head |-> IF first.tail # Nil THEN first.head ELSE second.head, tail |-> second.tail]
      BY <2>3 DEF Steal
    <3>2. NextSet(mem, first.tail, second.head, mem')
      BY <1>2, <3>1, Next1Sets
    <3>3. first.tail = ItemAt(s, Len(s)) /\ second.head = ItemAt(u, 1)
      BY <1>4, <2>3 DEF Held
    <3>4. LinkedUp(kind, mem, mem', first, second, first', first.tail, second.head)
      BY <2>3, <3>1, <3>2 DEF LinkedUp, NextSet
    <3>5. LinkedUp(kind, mem, mem', first, second, first', ItemAt(s, Len(s)), ItemAt(u, 1))
      BY <3>3, <3>4
    <3>6. Held(kind, mem', first', w)
      BY <3>5, <1>2, <1>3, <1>4, ConcatHeld
    <3> QED BY <3>1, <3>2, <3>6, <1>2 DEF NextSet, ListEnds
  <2> QED BY <2>1, <2>2, <2>3
<1>7. /\ Held(kind, mem', EmptyList, <<>>) /\ EmptyList \in ListEnds /\ <<>> \in Seq(Nodes) /\ NoRepeats(<<>>)
      /\ Disjoint(w, <<>>)
  BY NoneHeld
<1> HIDE DEF w
<1>8. PICK b \in Seq(Nodes) : b = <<>>
  BY <1>7
<1> QED BY <1>1, <1>5, <1>6, <1>7, <1>8, BothChanged

LEMMA ChopKeeps ==
  ASSUME ListInv, NEW n \in Nodes, Chop(n) PROVE ListInv'
<1> DEFINE s == should.first
           i == Place(s, n)
           p == mem.prev[n]
           a == SubSeq(s, 1, i - 1)
           b == SubSeq(s, i, Len(s))
<1>1. /\ kind = "double" /\ iter = NoIter /\ n \in ToSet(s)
      /\ mem' = Next1(Prev1(mem, n, Nil), p, Nil)
      /\ second' = [head |-> n, tail |-> first.tail]
      /\ first' = [head |-> IF p # Nil THEN first.head ELSE Nil, tail |-> p]
      /\ should' = [first |-> a, second |-> b]
      /\ kind' = kind /\ iter' = iter /\ todo' = todo
  BY DEF Chop, Chopped, Idle0
<1>2. /\ mem \in Memory /\ s \in Seq(Nodes) /\ first.head \in Pointers /\ first.tail \in Pointers
  BY ListTypeFacts DEF ListInv
<1>3. NoRepeats(s) /\ Held(kind, mem, first, s)
  BY HoldIsHeld DEF ListInv, NodesApart
<1>4. i \in 1 .. Len(s) /\ s[i] = n
  BY <1>1, <1>2, PlaceFacts, NilIsNoNode
<1>5. p = ItemAt(s, i - 1)
  BY <1>1, <1>4, NeighbourFacts DEF Doubly
<1>6. p \in Pointers /\ n \in Pointers /\ Nil \in Pointers
  BY <1>2 DEF Memory, Pointers
<1> HIDE DEF i, p
<1>7. Len(s) \in Nat /\ i \in Nat /\ i >= 1 /\ i <= Len(s)
  BY <1>2, <1>4, LenProperties
<1>8. /\ a \in Seq(Nodes) /\ Len(a) = i - 1 /\ \A x \in 1 .. i - 1 : a[x] = s[x]
      /\ b \in Seq(Nodes) /\ Len(b) = (Len(s) + 1) - i
      /\ \A x \in 1 .. (Len(s) + 1) - i : b[x] = s[(i + x) - 1]
      /\ NoRepeats(a) /\ NoRepeats(b) /\ Disjoint(a, b)
  BY <1>2, <1>3, <1>4, CutFacts
<1> HIDE DEF a, b
<1>9. /\ mem' \in Memory
      /\ \A x \in Nodes : /\ mem'.next[x] = IF x = p THEN Nil ELSE mem.next[x]
                          /\ mem'.prev[x] = IF x = n THEN Nil ELSE mem.prev[x]
  <2>1. PICK m0 : m0 = Prev1(mem, n, Nil)
    OBVIOUS
  <2>2. PrevSet(mem, n, Nil, m0)
    BY <1>2, <1>6, <2>1, Prev1Sets
  <2>3. m0 \in Memory
    BY <2>2 DEF PrevSet
  <2>4. NextSet(m0, p, Nil, Next1(m0, p, Nil))
    BY <1>6, <2>3, Next1Sets
  <2>5. NextSet(m0, p, Nil, mem')
    BY <1>1, <2>1, <2>4
  <2> QED BY <2>2, <2>5 DEF PrevSet, NextSet
<1>10. \A x \in Int : x < i => ItemAt(a, x) = ItemAt(s, x)
  <2>1. \A x \in Int : x < i => ((x \in 1 .. i - 1) <=> (x \in 1 .. Len(s)))
    BY <1>7
  <2> QED BY <2>1, <1>8 DEF ItemAt
<1>11. \A x \in Int : x >= 1 => ItemAt(b, x) = ItemAt(s, (i + x) - 1)
  <2>1. \A x \in Int : x >= 1 => ((x \in 1 .. (Len(s) + 1) - i) <=> ((i + x) - 1 \in 1 .. Len(s)))
    BY <1>7
  <2> QED BY <2>1, <1>8 DEF ItemAt
<1>12. Held(kind, mem', first', a)
  <2>1. first'.head = ItemAt(a, 1)
    <3>1. CASE i = 1
      <4>1. i - 1 \notin 1 .. Len(s) /\ 1 \notin 1 .. Len(a)
        BY <3>1, <1>8
      <4> QED BY <4>1, <1>1, <1>5 DEF ItemAt
    <3>2. CASE i > 1
      <4>1. i - 1 \in 1 .. Len(s) /\ 1 < i
        BY <3>2, <1>7
      <4>2. p # Nil
        BY <4>1, <1>2, <1>5, ItemFacts, NilIsNoNode
      <4>3. first.head = ItemAt(s, 1)
        BY <1>3 DEF Held
      <4> QED BY <4>1, <4>2, <4>3, <1>1, <1>10
    <3> QED BY <3>1, <3>2, <1>7
  <2>2. first'.tail = ItemAt(a, Len(a))
    <3>1. i - 1 < i /\ i - 1 \in Int
      BY <1>7
    <3> QED BY <3>1, <1>1, <1>5, <1>8, <1>10
  <2>3. ASSUME NEW x \in 1 .. Len(a)
        PROVE  mem'.next[a[x]] = ItemAt(a, x + 1) /\ mem'.prev[a[x]] = ItemAt(a, x - 1)
    <3>1. x \in 1 .. Len(s) /\ x \in 1 .. i - 1 /\ x < i /\ x - 1 < i /\ x \in Int /\ x - 1 \in Int /\ x + 1 \in Int /\ i - 1 \in Int
      BY <1>7, <1>8
    <3>2. a[x] = s[x] /\ s[x] \in Nodes
      BY <3>1, <1>2, <1>8, ElementOfSeq
    <3>3. mem.next[s[x]] = ItemAt(s, x + 1) /\ mem.prev[s[x]] = ItemAt(s, x - 1)
      BY <3>1, <1>1, <1>3 DEF Held
    <3>4. s[x] # n
      BY <3>1, <1>3, <1>4, <1>7 DEF NoRepeats
    <3>5. s[x] = p <=> x = i - 1
      BY <3>1, <1>2, <1>3, <1>5, ItemPlace
    <3>6. ItemAt(a, x + 1) = IF x = i - 1 THEN Nil ELSE ItemAt(s, x + 1)
      <4>1. CASE x = i - 1
        <5>1. x + 1 \notin 1 .. Len(a)
          BY <4>1, <1>7, <1>8
        <5> QED BY <4>1, <5>1 DEF ItemAt
      <4>2. CASE x # i - 1
        <5>1. x + 1 < i
          BY <4>2, <3>1, <1>7
        <5> QED BY <4>2, <5>1, <3>1, <1>10
      <4> QED BY <4>1, <4>2
    <3> QED BY <3>1, <3>2, <3>3, <3>4, <3>5, <3>6, <1>9, <1>10
  <2> QED BY <2>1, <2>2, <2>3 DEF Held
<1>13. Held(kind, mem', second', b)
  <2>1. second'.head = ItemAt(b, 1)
    <3>1. 1 \in 1 .. Len(b) /\ 1 \in 1 .. (Len(s) + 1) - i /\ (i + 1) - 1 = i
      BY <1>7, <1>8
    <3> QED BY <3>1, <1>1, <1>4, <1>8 DEF ItemAt
  <2>2. second'.tail = ItemAt(b, Len(b))
    <3>1. Len(b) \in Int /\ Len(b) >= 1 /\ (i + Len(b)) - 1 = Len(s)
      <4>1. Len(b) = (Len(s) + 1) - i
        BY <1>8
      <4> QED BY <4>1, <1>7
    <3>2. first.tail = ItemAt(s, Len(s))
      BY <1>1, <1>3 DEF Held
    <3> QED BY <3>1, <3>2, <1>1, <1>11
  <2>3. ASSUME NEW x \in 1 .. Len(b)
        PROVE  mem'.next[b[x]] = ItemAt(b, x + 1) /\ mem'.prev[b[x]] = ItemAt(b, x - 1)
    <3>1. PICK y : y = (i + x) - 1
      OBVIOUS
    <3>2. y \in 1 .. Len(s) /\ y \in Int /\ y >= i /\ i - 1 \in Int /\ y # i - 1
      BY <3>1, <1>7, <1>8
    <3>3. b[x] = s[y] /\ s[y] \in Nodes
      BY <3>1, <3>2, <1>2, <1>8, ElementOfSeq
    <3>4. mem.next[s[y]] = ItemAt(s, y + 1) /\ mem.prev[s[y]] = ItemAt(s, y - 1)
      BY <3>2, <1>1, <1>3 DEF Held
    <3>5. s[y] = n <=> y = i
      BY <3>2, <1>3, <1>4 DEF NoRepeats
    <3>6. s[y] # p
      BY <3>2, <1>2, <1>3, <1>5, ItemPlace
    <3>7. ItemAt(b, x + 1) = ItemAt(s, y + 1)
      <4>1. x + 1 \in Int /\ x + 1 >= 1 /\ (i + (x + 1)) - 1 = y + 1
        BY <3>1, <1>7
      <4> QED BY <4>1, <1>11
    <3>8. ItemAt(b, x - 1) = IF y = i THEN Nil ELSE ItemAt(s, y - 1)
      <4>1. CASE y = i
        <5>1. x - 1 \notin 1 .. Len(b)
          BY <4>1, <3>1, <1>7
        <5> QED BY <4>1, <5>1 DEF ItemAt
      <4>2. CASE y # i
        <5>1. x - 1 \in Int /\ x - 1 >= 1 /\ (i + (x - 1)) - 1 = y - 1
          BY <4>2, <3>1, <3>2, <1>7
        <5> QED BY <4>2, <5>1, <1>11
      <4> QED BY <4>1, <4>2
    <3> QED BY <3>3, <3>4, <3>5, <3>6, <3>7, <3>8, <1>9
  <2> QED BY <2>1, <2>2, <2>3 DEF Held
<1>14. first' \in ListEnds /\ second' \in ListEnds
  BY <1>1, <1>2, <1>6 DEF ListEnds
<1> QED BY <1>1, <1>8, <1>9, <1>12, <1>13, <1>14, BothChanged

LEMMA IterMoves ==
  ASSUME ListInv, UNCHANGED <<kind, mem, first, second, should>>,
         iter' \in Iterators, todo' \in Seq(Nodes), IterPlaced', Remaining'
  PROVE  ListInv'
<1>1. ListTypes'
  BY DEF ListInv, ListTypes
<1>2. NodesApart'
  BY DEF ListInv, NodesApart
<1>3. ListsHold'
  BY HoldIsHeld DEF ListInv
<1> QED BY <1>1, <1>2, <1>3 DEF ListInv

LEMMA ReverseFacts ==
  ASSUME NEW s \in Seq(Nodes), NoRepeats(s)
  PROVE  /\ Reverse(s) \in Seq(Nodes) /\ Len(Reverse(s)) = Len(s) /\ NoRepeats(Reverse(s))
         /\ \A x \in 1 .. Len(s) : Reverse(s)[x] = s[(Len(s) - x) + 1]
<1> DEFINE r == Reverse(s)
<1>1. Len(s) \in Nat
  BY LenProperties
<1>2. \A x \in 1 .. Len(s) : (Len(s) - x) + 1 \in 1 .. Len(s)
  BY <1>1
<1>3. \A x \in 1 .. Len(s) : s[(Len(s) - x) + 1] \in Nodes
  BY <1>2, ElementOfSeq
<1>4. r = [x \in 1 .. Len(s) |-> s[(Len(s) - x) + 1]]
  BY DEF Reverse
<1> HIDE DEF r
<1>5. r \in [1 .. Len(s) -> Nodes]
  BY <1>3, <1>4
<1>6. r \in Seq(Nodes) /\ Len(r) = Len(s)
  BY <1>1, <1>5, SeqDef, LenProperties
<1>7. \A x \in 1 .. Len(s) : r[x] = s[(Len(s) - x) + 1]
  BY <1>4
<1>8. ASSUME NEW x \in 1 .. Len(s), NEW y \in 1 .. Len(s), r[x] = r[y] PROVE x = y
  <2>1. (Len(s) - x) + 1 = (Len(s) - y) + 1
    BY <1>2, <1>7, <1>8 DEF NoRepeats
  <2> QED BY <2>1, <1>1
<1>9. NoRepeats(r)
  BY <1>6, <1>8 DEF NoRepeats
<1> QED BY <1>6, <1>7, <1>9 DEF r

LEMMA IterBeginKeeps ==
  ASSUME ListInv, NEW way \in {"forward", "back"}, IterBegin(way) PROVE ListInv'
<1> DEFINE s == should.first
<1>1. /\ kind \in {"forward", "double", "single"} /\ (way = "back" => kind = "double")
      /\ UNCHANGED <<kind, mem, first, second, should>>
  BY DEF IterBegin
<1>2. s \in Seq(Nodes) /\ mem \in Memory /\ first.head \in Pointers /\ first.tail \in Pointers
  BY ListTypeFacts DEF ListInv
<1>3. NoRepeats(s) /\ Held(kind, mem, first, s)
  BY HoldIsHeld DEF ListInv, NodesApart
<1>4. Len(s) \in Nat
  BY <1>2, LenProperties
<1>5. CASE way = "forward"
  <2>1. PICK q : q = Neighbour(mem, way, first.head)
    OBVIOUS
  <2>2. iter' = [on |-> "forward", prev |-> Nil, item |-> first.head, next |-> q] /\ todo' = s
    BY <1>5, <2>1 DEF IterBegin
  <2>3. first.head = ItemAt(s, 1)
    BY <1>3 DEF Held
  <2>4. q = ItemAt(s, 2)
    <3>1. CASE first.head = Nil
      <4>1. s = <<>>
        BY <1>2, <1>3, <3>1, NoHead
      <4>2. 2 \notin 1 .. Len(s)
        BY <4>1
      <4> QED BY <2>1, <3>1, <4>2 DEF Neighbour, ItemAt
    <3>2. CASE first.head # Nil
      <4>1. 1 \in 1 .. Len(s) /\ first.head = s[1]
        BY <2>3, <3>2 DEF ItemAt
      <4>2. mem.next[s[1]] = ItemAt(s, 1 + 1)
        BY <1>3, <4>1 DEF Held
      <4> QED BY <1>5, <2>1, <3>2, <4>1, <4>2 DEF Neighbour
    <3> QED BY <3>1, <3>2
  <2>5. iter' \in Iterators /\ todo' \in Seq(Nodes)
    <3>1. q \in Pointers
      BY <1>2, <2>4, ItemFacts
    <3> QED BY <1>2, <2>2, <3>1 DEF Iterators, Pointers
  <2>6. IterPlaced'
    BY <1>1, <1>3, <2>2, <2>3, <2>4 DEF IterPlaced
  <2>7. Remaining'
    <3>1. Len(s) - Len(s) = 0 /\ ItemAt(s, 0) = Nil /\ \A y \in 2 .. Len(s) : s[0 + y] = s[y]
      BY <1>4 DEF ItemAt
    <3>2. should'.first = s /\ todo' = s /\ iter'.on = "forward" /\ iter'.prev = Nil
      BY <1>1, <2>2
    <3> HIDE DEF s
    <3> QED BY <3>1, <3>2, <1>4 DEF Remaining
  <2> QED BY <1>1, <2>5, <2>6, <2>7, IterMoves
<1>6. CASE way = "back"
  <2>1. PICK q : q = Neighbour(mem, way, first.tail)
    OBVIOUS
  <2>2. PICK r : r = Reverse(s)
    OBVIOUS
  <2>3. iter' = [on |-> "back", prev |-> Nil, item |-> first.tail, next |-> q] /\ todo' = r
    BY <1>6, <2>1, <2>2 DEF IterBegin
  <2>4. /\ r \in Seq(Nodes) /\ Len(r) = Len(s) /\ NoRepeats(r)
        /\ \A x \in 1 .. Len(s) : r[x] = s[(Len(s) - x) + 1]
    BY <1>2, <1>3, <2>2, ReverseFacts
  <2>5. first.tail = ItemAt(s, Len(s))
    BY <1>1, <1>3, <1>6 DEF Held
  <2>6. first.tail = ItemAt(r, 1)
    <3>1. /\ Len(s) \in 1 .. Len(s) <=> 1 \in 1 .. Len(s)
          /\ (Len(s) - 1) + 1 = Len(s)
      BY <1>4
    <3> QED BY <3>1, <2>4, <2>5 DEF ItemAt
  <2>7. q = ItemAt(r, 2)
    <3>1. CASE Len(s) = 0
      <4>1. first.tail = Nil /\ ItemAt(r, 2) = Nil
        BY <2>4, <2>5, <3>1 DEF ItemAt
      <4> QED BY <2>1, <4>1 DEF Neighbour
    <3>2. CASE Len(s) # 0
      <4>1. Len(s) \in 1 .. Len(s) /\ Len(s) - 1 \in Int
        BY <1>4, <3>2
      <4>2. first.tail = s[Len(s)] /\ s[Len(s)] \in Nodes
        BY <4>1, <2>5, <1>2, ElementOfSeq DEF ItemAt
      <4>3. mem.prev[s[Len(s)]] = ItemAt(s, Len(s) - 1)
        BY <1>1, <1>3, <1>6, <4>1 DEF Held
      <4>4. q = ItemAt(s, Len(s) - 1)
        BY <1>6, <2>1, <4>2, <4>3, NilIsNoNode DEF Neighbour
      <4>5. (Len(s) - 1 \in 1 .. Len(s) <=> 2 \in 1 .. Len(s)) /\ (Len(s) - 2) + 1 = Len(s) - 1
        BY <1>4
      <4> QED BY <4>4, <4>5, <2>4 DEF ItemAt
    <3> QED BY <3>1, <3>2
  <2>8. iter' \in Iterators /\ todo' \in Seq(Nodes)
    <3>1. q \in Pointers
      BY <2>4, <2>7, ItemFacts
    <3> QED BY <1>2, <2>3, <2>4, <3>1 DEF Iterators, Pointers
  <2>9. IterPlaced'
    BY <1>1, <1>6, <2>3, <2>4, <2>6, <2>7 DEF IterPlaced
  <2>10. Remaining'
    <3>1. \A y \in 2 .. Len(s) : r[y] = s[(Len(s) - y) + 1]
      <4>1. \A y \in 2 .. Len(s) : y \in 1 .. Len(s)
        BY <1>4
      <4> QED BY <4>1, <2>4
    <3>2. Len(s) - Len(s) >= -1
      BY <1>4
    <3>3. should'.first = s /\ todo' = r /\ iter'.on = "back" /\ kind' = "double"
      BY <1>1, <1>6, <2>3
    <3> HIDE DEF s
    <3> QED BY <3>1, <3>2, <3>3, <2>4 DEF Remaining
  <2> QED BY <1>1, <2>8, <2>9, <2>10, IterMoves
<1> QED BY <1>5, <1>6

LEMMA AdvanceKeeps ==
  ASSUME ListInv, Advance PROVE ListInv'
<1> DEFINE s == should.first
           z == Len(s) - Len(todo)
<1>1. iter # NoIter /\ UNCHANGED <<kind, mem, first, second, should>>
  BY DEF Advance, Idle0
<1>2. s \in Seq(Nodes) /\ mem \in Memory /\ iter \in Iterators /\ todo \in Seq(Nodes) /\ IterPlaced /\ Remaining
  BY ListTypeFacts DEF ListInv
<1>3. Len(s) \in Nat /\ Len(todo) \in Nat
  BY <1>2, LenProperties
<1>4. iter.on # "no" /\ iter.on \in {"forward", "back", "erased"}
  BY <1>1, <1>2 DEF IterPlaced, Iterators
<1>5. Held(kind, mem, first, s)
  BY HoldIsHeld DEF ListInv
<1>6. CASE iter.item = Nil /\ iter.on # "erased"
  <2>1. iter' = NoIter /\ todo' = todo
    BY <1>6 DEF Advance
  <2>2. todo = <<>>
    <3>1. ItemAt(todo, 1) = Nil
      BY <1>2, <1>4, <1>6 DEF IterPlaced
    <3>2. 1 \notin 1 .. Len(todo)
      BY <1>2, <3>1, ItemFacts, NilIsNoNode
    <3> QED BY <1>2, <1>3, <3>2, EmptySeq
  <2>3. iter' \in Iterators /\ todo' \in Seq(Nodes)
    BY <1>2, <2>1 DEF Iterators, NoIter, Pointers
  <2>4. iter'.on = "no"
    BY <2>1 DEF NoIter
  <2>5. IterPlaced' /\ Remaining'
    BY <1>2, <2>1, <2>2, <2>4 DEF IterPlaced, Remaining
  <2> QED BY <1>1, <2>3, <2>5, IterMoves
<1>7. CASE ~(iter.item = Nil /\ iter.on # "erased")
  <2>1. PICK way : way = IF iter.on = "erased" THEN "forward" ELSE iter.on
    OBVIOUS
  <2>2. PICK q : q = Neighbour(mem, way, iter.next)
    OBVIOUS
  <2>3. PICK t : t = Tail(todo)
    OBVIOUS
  <2>4. Len(todo) >= 1
    <3>1. CASE iter.on = "erased"
      BY <1>2, <3>1 DEF IterPlaced
    <3>2. CASE iter.on # "erased"
      <4>1. ItemAt(todo, 1) # Nil
        BY <1>2, <1>4, <1>7, <3>2 DEF IterPlaced
      <4>2. 1 \in 1 .. Len(todo)
        BY <4>1 DEF ItemAt
      <4> QED BY <4>2, <1>3
    <3> QED BY <3>1, <3>2
  <2>5. iter' = [on |-> way, prev |-> iter.item, item |-> iter.next, next |-> q] /\ todo' = t
    <3>1. todo # <<>>
      BY <2>4
    <3> QED BY <1>7, <2>1, <2>2, <2>3, <3>1 DEF Advance, Stepped
  <2>6. t \in Seq(Nodes) /\ Len(t) = Len(todo) - 1 /\ \A x \in 1 .. Len(todo) - 1 : t[x] = todo[x + 1]
    <3>1. todo # <<>>
      BY <2>4
    <3> QED BY <1>2, <2>3, <3>1, HeadTailProperties
  <2>7. \A x \in Int : x >= 1 => ItemAt(t, x) = ItemAt(todo, x + 1)
    <3>1. \A x \in Int : x >= 1 => ((x \in 1 .. Len(todo) - 1) <=> (x + 1 \in 1 .. Len(todo)))
      BY <1>3
    <3> QED BY <3>1, <2>6 DEF ItemAt
  <2>8. iter.next = ItemAt(todo, 2) /\ way \in {"forward", "back"}
    BY <1>2, <1>4, <2>1 DEF IterPlaced
  <2>9. ItemAt(t, 1) = ItemAt(todo, 2) /\ ItemAt(t, 2) = ItemAt(todo, 3)
    BY <2>7
  <2>10. /\ way = "forward" => \A y \in 2 .. Len(todo) : todo[y] = s[z + y]
         /\ way = "back" => kind = "double" /\ \A y \in 2 .. Len(todo) : todo[y] = s[(Len(todo) - y) + 1]
         /\ z >= -1 /\ z \in Int
    BY <1>2, <1>3, <1>4, <2>1 DEF Remaining, IterPlaced
  <2>11. q = ItemAt(t, 2)
    <3>1. CASE Len(todo) < 2
      <4>1. 2 \notin 1 .. Len(todo) /\ 3 \notin 1 .. Len(todo)
        BY <3>1
      <4>2. iter.next = Nil /\ ItemAt(todo, 3) = Nil
        BY <2>8, <4>1 DEF ItemAt
      <4> QED BY <2>2, <2>9, <4>2 DEF Neighbour
    <3>2. CASE Len(todo) >= 2
      <4>1. 2 \in 1 .. Len(todo) /\ 2 \in 2 .. Len(todo)
        BY <3>2, <1>3
      <4>2. iter.next = todo[2] /\ todo[2] \in Nodes
        BY <2>8, <4>1, <1>2, ElementOfSeq DEF ItemAt
      <4>3. iter.next # Nil
        BY <4>2, NilIsNoNode
      <4>4. CASE way = "forward"
        <5>1. z + 2 \in 1 .. Len(s) /\ (z + 2) + 1 = z + 3 /\ z + 3 \in Int
          BY <3>2, <1>3, <2>10
        <5>2. mem.next[s[z + 2]] = ItemAt(s, z + 3)
          BY <5>1, <1>5 DEF Held
        <5>3. todo[2] = s[z + 2]
          BY <4>1, <4>4, <2>10
        <5>4. ItemAt(s, z + 3) = ItemAt(todo, 3)
          <6>1. /\ z + 3 \in 1 .. Len(s) <=> 3 \in 1 .. Len(todo)
                /\ 3 \in 1 .. Len(todo) => 3 \in 2 .. Len(todo)
            BY <3>2, <1>3, <2>10
          <6>2. 3 \in 1 .. Len(todo) => todo[3] = s[z + 3]
            BY <6>1, <4>4, <2>10
          <6> QED BY <6>1, <6>2 DEF ItemAt
        <5> QED BY <2>2, <2>9, <4>2, <4>3, <4>4, <5>2, <5>3, <5>4 DEF Neighbour
      <4>5. CASE way = "back"
        <5>1. PICK y : y = Len(todo) - 1
          OBVIOUS
        <5>2. y \in 1 .. Len(s) /\ (Len(todo) - 2) + 1 = y /\ y - 1 \in Int
          BY <3>2, <1>3, <2>10, <5>1
        <5>3. mem.prev[s[y]] = ItemAt(s, y - 1)
          BY <5>2, <1>5, <2>10, <4>5 DEF Held
        <5>4. todo[2] = s[y]
          BY <4>1, <4>5, <5>2, <2>10
        <5>5. ItemAt(s, y - 1) = ItemAt(todo, 3)
          <6>1. /\ y - 1 \in 1 .. Len(s) <=> 3 \in 1 .. Len(todo)
                /\ 3 \in 1 .. Len(todo) => 3 \in 2 .. Len(todo)
                /\ (Len(todo) - 3) + 1 = y - 1
            BY <3>2, <1>3, <2>10, <5>1
          <6>2. 3 \in 1 .. Len(todo) => todo[3] = s[y - 1]
            BY <6>1, <4>5, <2>10
          <6> QED BY <6>1, <6>2 DEF ItemAt
        <5> QED BY <2>2, <2>9, <4>2, <4>3, <4>5, <5>3, <5>4, <5>5 DEF Neighbour
      <4> QED BY <4>4, <4>5, <2>8
    <3> QED BY <3>1, <3>2, <1>3
  <2>12. iter' \in Iterators /\ todo' \in Seq(Nodes)
    <3>1. q \in Pointers
      BY <2>6, <2>11, ItemFacts
    <3> QED BY <1>2, <2>5, <2>6, <2>8, <3>1 DEF Iterators
  <2>13. NoRepeats(t)
    <3>1. \A x \in 1 .. Len(todo) - 1 : x + 1 \in 1 .. Len(todo) /\ x \in Int
      BY <1>3
    <3>2. ASSUME NEW x \in 1 .. Len(todo) - 1, NEW y \in 1 .. Len(todo) - 1, t[x] = t[y] PROVE x = y
      <4>1. x + 1 = y + 1
        BY <3>1, <3>2, <2>6, <1>2 DEF IterPlaced, NoRepeats
      <4> QED BY <4>1, <3>1
    <3> QED BY <3>2, <2>6 DEF NoRepeats
  <2>14. IterPlaced'
    BY <1>1, <1>2, <1>4, <2>1, <2>5, <2>8, <2>9, <2>11, <2>13 DEF IterPlaced
  <2>15. Remaining'
    <3>1. Len(s) - Len(t) = z + 1 /\ z + 1 >= 0 /\ Len(t) \in Nat
      BY <1>3, <2>4, <2>6, <2>10
    <3>2. way = "forward" => \A y \in 1 .. Len(t) : t[y] = s[(z + 1) + y]
      <4>1. \A y \in 1 .. Len(todo) - 1 : y + 1 \in 2 .. Len(todo) /\ z + (y + 1) = (z + 1) + y
        <5>1. z \in Int
          BY <2>10
        <5> HIDE DEF z
        <5> QED BY <5>1, <1>3
      <4> QED BY <4>1, <2>6, <2>10
    <3>3. way = "back" => \A y \in 1 .. Len(t) : t[y] = s[(Len(t) - y) + 1]
      <4>1. \A y \in 1 .. Len(todo) - 1 : /\ y + 1 \in 2 .. Len(todo)
                                          /\ (Len(todo) - (y + 1)) + 1 = ((Len(todo) - 1) - y) + 1
        BY <1>3
      <4> QED BY <4>1, <2>6, <2>10
    <3>4. kind = "single" => way = "forward" /\ iter.item = ItemAt(s, z + 1)
      <4>1. SUFFICES ASSUME kind = "single" PROVE way = "forward" /\ iter.item = ItemAt(s, z + 1)
        OBVIOUS
      <4>2. way = "forward"
        BY <4>1, <2>8, <2>10
      <4>3. CASE iter.on = "erased"
        BY <4>2, <4>3, <1>2 DEF Remaining
      <4>4. CASE iter.on = "forward"
        <5>1. iter.item = ItemAt(todo, 1) /\ z >= 0 /\ todo[1] = s[z + 1]
          BY <4>1, <4>4, <1>2, <2>4 DEF IterPlaced, Remaining
        <5>2. 1 \in 1 .. Len(todo) /\ z + 1 \in 1 .. Len(s)
          BY <5>1, <2>4, <1>3
        <5> QED BY <4>2, <5>1, <5>2 DEF ItemAt
      <4> QED BY <4>2, <4>3, <4>4, <1>4, <2>1
    <3>5. \A y \in 2 .. Len(t) : y \in 1 .. Len(t)
      BY <3>1
    <3>6. Len(t) >= 1 => 1 \in 1 .. Len(t) /\ (z + 1) + 1 \in Int
      BY <3>1, <2>10
    <3>7. should'.first = s /\ todo' = t /\ iter'.on = way /\ iter'.prev = iter.item /\ kind' = kind
      BY <1>1, <2>5
    <3>8. way # "erased" /\ way # "no" /\ z + 1 >= -1
      BY <2>8, <2>10
    <3> HIDE DEF s, z
    <3> QED BY <3>1, <3>2, <3>3, <3>4, <3>5, <3>6, <3>7, <3>8, <2>8 DEF Remaining
  <2> QED BY <1>1, <2>12, <2>14, <2>15, IterMoves
<1> QED BY <1>6, <1>7

-----------------------------------------------------------------------------
LEMMA ListInitInv == ListInit => ListInv
<1> SUFFICES ASSUME ListInit PROVE ListInv
  OBVIOUS
<1>1. /\ first = EmptyList /\ second = EmptyList /\ iter = NoIter /\ todo = <<>>
      /\ should.first = <<>> /\ should.second = <<>> /\ should = [first |-> <<>>, second |-> <<>>]
  BY DEF ListInit
<1>2. /\ Held(kind, mem, EmptyList, <<>>) /\ EmptyList \in ListEnds /\ <<>> \in Seq(Nodes)
      /\ NoRepeats(<<>>) /\ Disjoint(<<>>, <<>>)
  BY NoneHeld
<1>3. ListTypes
  <2>1. mem \in Memory
    BY DEF ListInit, Memory, Pointers
  <2>2. iter \in Iterators
    BY <1>1 DEF Iterators, NoIter, Pointers
  <2>3. should \in [first : Seq(Nodes), second : Seq(Nodes)]
    BY <1>1, <1>2
  <2> QED BY <1>1, <1>2, <2>1, <2>2, <2>3 DEF ListTypes, ListInit
<1>4. NodesApart
  BY <1>1, <1>2 DEF NodesApart
<1>5. ListsHold
  BY <1>1, <1>2, HoldIsHeld
<1>6. iter.on = "no"
  BY <1>1 DEF NoIter
<1> QED BY <1>1, <1>2, <1>3, <1>4, <1>5, <1>6 DEF ListInv, IterPlaced, Remaining

LEMMA ListStep == ListInv /\ [ListNext]_listVars => ListInv'
<1> SUFFICES ASSUME ListInv, [ListNext]_listVars PROVE ListInv'
  OBVIOUS
<1>1. CASE UNCHANGED listVars
  <2>1. IterPlaced' /\ Remaining'
    BY <1>1 DEF listVars, ListInv, IterPlaced, Remaining
  <2>2. iter' \in Iterators /\ todo' \in Seq(Nodes)
    BY <1>1 DEF listVars, ListInv, ListTypes
  <2> QED BY <1>1, <2>1, <2>2, IterMoves DEF listVars
<1>2. CASE Steal
  BY <1>2, StealKeeps
<1>3. CASE Exchange
  BY <1>3, ExchangeKeeps
<1>4. CASE EraseAfter
  BY <1>4, EraseAfterKeeps
<1>5. CASE Advance
  BY <1>5, AdvanceKeeps
<1>6. CASE \E way \in {"forward", "back"} : IterBegin(way)
  BY <1>6, IterBeginKeeps
<1>7. CASE \E n \in Nodes : PushFront(n) \/ ListAppend(n) \/ Erase(n) \/ Chop(n)
  BY <1>7, PushFrontKeeps, ListAppendKeeps, EraseKeeps, ChopKeeps
<1>8. CASE \E n \in Nodes \cup {Nil} : RemoveBefore(n)
  BY <1>8, RemoveBeforeKeeps
<1>9. CASE \E a \in Nodes, q \in Nodes \cup {Nil} : RemoveBetween(a, q)
  BY <1>9, RemoveBetweenKeeps
<1> QED BY <1>1, <1>2, <1>3, <1>4, <1>5, <1>6, <1>7, <1>8, <1>9 DEF ListNext

(* For any number of nodes and lists of each kind: following the pointers from
   the head gives exactly the items that PushFront(), Append(), Erase(),
   Steal(), Chop(), RemoveBefore() and RemoveBetween() should have left, in
   their order, and from the tail the same backwards, and an iterator visits
   each item that was in the list when it began once and in order, though the
   loop erases its own item or pushes new ones. *)
THEOREM ListsCorrect == ListSpec => []ListsRight
<1>1. ListInv => ListsRight
  <2> SUFFICES ASSUME ListInv PROVE ListsRight
    OBVIOUS
  <2>1. todo \in Seq(Nodes) /\ IterPlaced /\ ListsHold
    BY ListTypeFacts DEF ListInv
  <2>2. ItemAt(todo, 1) = IF todo = <<>> THEN Nil ELSE Head(todo)
    <3>1. CASE todo = <<>>
      BY <3>1 DEF ItemAt
    <3>2. CASE todo # <<>>
      <4>1. 1 \in 1 .. Len(todo) /\ Head(todo) = todo[1]
        BY <2>1, <3>2, EmptySeq, HeadTailProperties
      <4> QED BY <3>2, <4>1 DEF ItemAt
    <3> QED BY <3>1, <3>2
  <2>3. VisitsAll
    BY <2>1, <2>2 DEF VisitsAll, IterPlaced
  <2> QED BY <2>1, <2>3 DEF ListsRight
<1> QED BY <1>1, ListInitInv, ListStep, PTL DEF ListSpec
=============================================================================
