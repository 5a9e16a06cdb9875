-------------------------- MODULE OwnershipProofs --------------------------
(***************************************************************************)
(* Who owns what: the server's table of connexions and their references,    *)
(* for every number of connexions, addresses and slots; the buffers of the  *)
(* allocators, for every number of buffers, threads and batch sizes, and    *)
(* the bins above them, for every number of bins; and the singletons, for   *)
(* every set of them and every order of first uses.                         *)
(***************************************************************************)
EXTENDS ConnexionMap, BufferPool, Singletons, FiniteSetTheorems, SequenceTheorems,
        WellFoundedInduction, NaturalsInduction, TLAPS

(* The connexions the table owns a reference of, those that came from one
   address, and those that own a reference of the server. *)
Holding == {c \in Conns : "map" \in owners[c]}
HoldingFrom(a) == {c \in Conns : "map" \in owners[c] /\ conn[c].floodKey = a}
Alive == {c \in Conns : conn[c].at \notin {"none", "freed"}}

(* A connexion has a slot number from Insert() on, and the table's reference
   from then until its Remove(). *)
Stages ==
  \A c \in Conns :
    /\ conn[c].at \in {"none", "created", "freed"} => conn[c].myId = InvalidKey
    /\ "map" \in owners[c] <=>
         conn[c].at \in {"inserted", "open", "destroy"} /\ conn[c].myId # InvalidKey
    /\ conn[c].myId # InvalidKey => conn[c].myId \in DOMAIN connTable

(* The table has exactly the connexions it owns, each in its slot, and is
   empty once ShutdownAll() has run. *)
TableMatches ==
  \A k \in DOMAIN connTable :
    /\ mapShutdown => connTable[k] = NoConn
    /\ ~mapShutdown =>
         \A c \in Conns : connTable[k] = c <=> "map" \in owners[c] /\ conn[c].myId = k

Counts ==
  /\ ~mapShutdown => count = Cardinality(Holding)
  /\ \A a \in Addrs : flood[a] = Cardinality(HoldingFrom(a))
  /\ serverRefs = Cardinality(Alive)

FloodBounded == \A a \in Addrs : flood[a] <= FloodThreshold + 1

MapInv == /\ MapTypeOK /\ Stages /\ TableMatches /\ Counts
          /\ FreeListExact /\ FloodBounded /\ ServerOutlivesConnexions
-----------------------------------------------------------------------------
(* The slots are numbered from 0 on, below the capacity. *)
LEMMA Shape ==
  ASSUME TableTypeOK
  PROVE  /\ Alloc \in 0 .. MaxPopulation
         /\ DOMAIN connTable = 0 .. Alloc - 1
         /\ connTable \in [0 .. Alloc - 1 -> Conns \cup {NoConn}]
         /\ freeTable \in [0 .. Alloc - 1 -> 0 .. Alloc - 1 \cup {InvalidKey, Garbage}]
<1>1. PICK n \in 0 .. MaxPopulation :
        /\ connTable \in [0 .. n - 1 -> Conns \cup {NoConn}]
        /\ freeTable \in [0 .. n - 1 -> 0 .. n - 1 \cup {InvalidKey, Garbage}]
  BY DEF TableTypeOK
<1>2. n \in Nat
  BY <1>1, MapAssumption
<1>3. DOMAIN connTable = 0 .. n - 1
  BY <1>1
<1>4. Cardinality(0 .. n - 1) = n
  BY <1>2, FS_Interval
<1>. QED  BY <1>1, <1>3, <1>4 DEF Alloc

(* The names of slots, of the end of a list and of stale memory differ. *)
LEMMA Keys ==
  /\ MaxPopulation \in Nat \ {0}
  /\ InvalidKey \notin 0 .. MaxPopulation - 1 /\ Garbage \notin 0 .. MaxPopulation - 1
  /\ InvalidKey # Garbage /\ InvalidKey >= HashTableSize
  /\ \A k \in 0 .. MaxPopulation - 1 : ~(k >= HashTableSize)
  BY MapAssumption DEF InvalidKey, Garbage, HashTableSize

(* A list without repetitions is no longer than the table. *)
LEMMA ListFits ==
  ASSUME NEW n \in Nat, NEW m \in Nat, NEW f \in [1 .. n -> 0 .. m - 1],
         \A i, j \in 1 .. n : f[i] = f[j] => i = j
  PROVE  n <= m
<1>1. IsFiniteSet(0 .. m - 1) /\ Cardinality(0 .. m - 1) = m
  BY FS_Interval
<1>2. IsFiniteSet(1 .. n) /\ Cardinality(1 .. n) = n
  BY FS_Interval
<1>3. f \in Injection(1 .. n, 0 .. m - 1)
  BY DEF Injection, IsInjective
<1>4. Cardinality(1 .. n) <= Cardinality(0 .. m - 1)
  BY <1>1, <1>3, FS_Injection
<1>. QED  BY <1>1, <1>2, <1>4

LEMMA FiniteSets ==
  /\ \A S \in SUBSET Conns : IsFiniteSet(S) /\ Cardinality(S) \in Nat
<1>. SUFFICES ASSUME NEW S \in SUBSET Conns PROVE IsFiniteSet(S) /\ Cardinality(S) \in Nat
  OBVIOUS
<1>1. IsFiniteSet(S)
  BY MapAssumption, FS_Subset
<1>. QED  BY <1>1, FS_CardinalityType

(* What a new connexion, and the memory of none, look like. *)
LEMMA NewMemory ==
  /\ \A a \in Addrs : /\ NewConn(a) \in ConnexionType
                      /\ NewConn(a).at = "created" /\ NewConn(a).myId = InvalidKey
  /\ \A at \in {"none", "freed"} :
       /\ NoMemory(at) \in ConnexionType
       /\ NoMemory(at).at = at /\ NoMemory(at).myId = InvalidKey
<1>1. (CHOOSE a \in Addrs : TRUE) \in Addrs
  BY MapAssumption
<1>. QED  BY <1>1 DEF NewConn, NoMemory, ConnexionType
-----------------------------------------------------------------------------
LEMMA InitMap == MapInit => MapInv
<1>. SUFFICES ASSUME MapInit PROVE MapInv
  OBVIOUS
<1>. USE DEF MapInit
<1>1. Alloc = 0 /\ DOMAIN connTable = {} /\ 0 .. 0 - 1 = {}
  <2>1. Cardinality({}) = 0
    BY FS_EmptySet
  <2>. QED  BY <2>1 DEF Alloc
<1>2. MapTypeOK
  <2>1. TableTypeOK
    <3>1. 0 \in 0 .. MaxPopulation
      BY Keys
    <3>2. /\ connTable \in [0 .. 0 - 1 -> Conns \cup {NoConn}]
          /\ freeTable \in [0 .. 0 - 1 -> 0 .. 0 - 1 \cup {InvalidKey, Garbage}]
      BY <1>1
    <3>3. \E n \in 0 .. MaxPopulation :
            /\ connTable \in [0 .. n - 1 -> Conns \cup {NoConn}]
            /\ freeTable \in [0 .. n - 1 -> 0 .. n - 1 \cup {InvalidKey, Garbage}]
      BY <3>1, <3>2, Zenon
    <3>4. /\ firstFree \in DOMAIN connTable \cup {InvalidKey}
          /\ count \in Int /\ flood \in [Addrs -> Int]
      BY <1>1
    <3>5. mapShutdown \in BOOLEAN
      BY Zenon
    <3>. QED  BY <3>3, <3>4, <3>5, Zenon DEF TableTypeOK
  <2>. QED  BY <2>1, NewMemory DEF MapTypeOK
<1>3. Stages /\ TableMatches
  BY <1>1, NewMemory DEF Stages, TableMatches
<1>4. Counts
  <2>1. Holding = {} /\ Alive = {} /\ \A a \in Addrs : HoldingFrom(a) = {}
    BY NewMemory DEF Holding, HoldingFrom, Alive
  <2>. QED  BY <2>1, FS_EmptySet DEF Counts
<1>5. FreeListExact
  <2>. DEFINE chain == [i \in 1 .. 0 |-> 0]
  <2>1. 1 .. 0 = {} /\ 0 \in 0 .. Alloc /\ chain \in [1 .. 0 -> DOMAIN connTable]
    BY <1>1
  <2>2. FreeList(0, chain)
    BY <2>1 DEF FreeList
  <2>. HIDE DEF chain
  <2>3. {chain[i] : i \in 1 .. 0} = {k \in DOMAIN connTable : connTable[k] = NoConn}
    BY <1>1, <2>1
  <2>. QED  BY <2>1, <2>2, <2>3 DEF FreeListExact
<1>6. FloodBounded /\ ServerOutlivesConnexions
  BY MapAssumption DEF FloodBounded, ServerOutlivesConnexions
<1>. QED  BY <1>2, <1>3, <1>4, <1>5, <1>6 DEF MapInv

(* What a step that leaves the table alone has to show. *)
LEMMA TableUntouched ==
  ASSUME MapInv, MapTypeOK', Stages', (serverRefs = Cardinality(Alive))',
         ServerOutlivesConnexions',
         UNCHANGED <<connTable, freeTable, firstFree, count, flood, mapShutdown>>,
         \A c \in Conns :
           /\ "map" \in owners'[c] <=> "map" \in owners[c]
           /\ "map" \in owners[c] => /\ conn'[c].myId = conn[c].myId
                                     /\ conn'[c].floodKey = conn[c].floodKey
  PROVE  MapInv'
<1>1. TableMatches'
  BY DEF MapInv, TableMatches
<1>2. Holding' = Holding
  BY DEF Holding
<1>3. \A a \in Addrs : HoldingFrom(a)' = HoldingFrom(a)
  BY DEF HoldingFrom
<1>4. Counts'
  BY <1>2, <1>3 DEF MapInv, Counts
<1>5. FreeListExact' /\ FloodBounded'
  BY DEF MapInv, FreeListExact, FreeList, Alloc, FloodBounded
<1>. QED  BY <1>1, <1>4, <1>5 DEF MapInv

LEMMA InsertRefusedKeeps ==
  ASSUME MapInv, NEW c \in Conns, InsertRefused(c)
  PROVE  MapInv'
<1>. USE DEF InsertRefused
<1>1. MapTypeOK'
  <2>1. TableTypeOK'
    BY DEF MapInv, MapTypeOK, TableTypeOK
  <2>2. conn' \in [Conns -> ConnexionType]
    <3>. DEFINE next == [conn[c] EXCEPT !.at = "destroy", !.accepting = FALSE]
    <3>1. conn[c] \in ConnexionType
      BY DEF MapInv, MapTypeOK
    <3>2. next \in ConnexionType
      BY <3>1 DEF ConnexionType
    <3>3. conn' = [conn EXCEPT ![c] = next]
      BY DEF MapInv, MapTypeOK
    <3>. QED  BY <3>2, <3>3 DEF MapInv, MapTypeOK
  <2>. QED  BY <2>1, <2>2 DEF MapInv, MapTypeOK
<1>2. Stages'
  BY DEF MapInv, MapTypeOK, ConnexionType, Stages
<1>3. Alive' = Alive
  BY DEF MapInv, MapTypeOK, ConnexionType, Alive
<1>4. (serverRefs = Cardinality(Alive))'
  BY <1>3 DEF MapInv, Counts
<1>5. ServerOutlivesConnexions'
  BY DEF MapInv, MapTypeOK, ConnexionType, ServerOutlivesConnexions
<1>6. \A d \in Conns :
        /\ "map" \in owners'[d] <=> "map" \in owners[d]
        /\ "map" \in owners[d] => /\ conn'[d].myId = conn[d].myId
                                  /\ conn'[d].floodKey = conn[d].floodKey
  BY DEF MapInv, MapTypeOK, ConnexionType
<1>. QED  BY <1>1, <1>2, <1>4, <1>5, <1>6, TableUntouched

LEMMA AcceptKeeps ==
  ASSUME MapInv, NEW c \in Conns, NEW posted \in BOOLEAN, Accept(c, posted)
  PROVE  MapInv'
<1>. USE DEF Accept
<1>1. MapTypeOK'
  <2>1. TableTypeOK'
    BY DEF MapInv, MapTypeOK, TableTypeOK
  <2>2. conn' \in [Conns -> ConnexionType]
    <3>. DEFINE next == [conn[c] EXCEPT !.accepting = FALSE,
              !.at = IF @ # "inserted" THEN @
                     ELSE IF posted /\ server = "open" THEN "open" ELSE "destroy"]
    <3>1. conn[c] \in ConnexionType
      BY DEF MapInv, MapTypeOK
    <3>2. next \in ConnexionType
      BY <3>1 DEF ConnexionType
    <3>3. conn' = [conn EXCEPT ![c] = next]
      BY DEF MapInv, MapTypeOK
    <3>. QED  BY <3>2, <3>3 DEF MapInv, MapTypeOK
  <2>. QED  BY <2>1, <2>2 DEF MapInv, MapTypeOK
<1>2. Stages'
  BY DEF MapInv, MapTypeOK, ConnexionType, Stages
<1>3. Alive' = Alive
  BY DEF MapInv, MapTypeOK, ConnexionType, Alive
<1>4. (serverRefs = Cardinality(Alive))'
  BY <1>3 DEF MapInv, Counts
<1>5. ServerOutlivesConnexions'
  BY DEF MapInv, MapTypeOK, ConnexionType, ServerOutlivesConnexions
<1>6. \A d \in Conns :
        /\ "map" \in owners'[d] <=> "map" \in owners[d]
        /\ "map" \in owners[d] => /\ conn'[d].myId = conn[d].myId
                                  /\ conn'[d].floodKey = conn[d].floodKey
  BY DEF MapInv, MapTypeOK, ConnexionType
<1>. QED  BY <1>1, <1>2, <1>4, <1>5, <1>6, TableUntouched

LEMMA OnRecvKeeps ==
  ASSUME MapInv, NEW c \in Conns, NEW a \in Addrs, OnRecv(c, a)
  PROVE  MapInv'
<1>. USE DEF OnRecv
<1>1. MapTypeOK'
  <2>1. TableTypeOK'
    BY DEF MapInv, MapTypeOK, TableTypeOK
  <2>2. conn' \in [Conns -> ConnexionType]
    BY DEF MapInv, MapTypeOK, ConnexionType
  <2>. QED  BY <2>1, <2>2 DEF MapInv, MapTypeOK
<1>2. Stages'
  BY DEF MapInv, MapTypeOK, ConnexionType, Stages
<1>3. Alive' = Alive
  BY DEF MapInv, MapTypeOK, ConnexionType, Alive
<1>4. (serverRefs = Cardinality(Alive))'
  BY <1>3 DEF MapInv, Counts
<1>5. ServerOutlivesConnexions'
  BY DEF MapInv, MapTypeOK, ConnexionType, ServerOutlivesConnexions
<1>6. \A d \in Conns :
        /\ "map" \in owners'[d] <=> "map" \in owners[d]
        /\ "map" \in owners[d] => /\ conn'[d].myId = conn[d].myId
                                  /\ conn'[d].floodKey = conn[d].floodKey
  BY DEF MapInv, MapTypeOK, ConnexionType
<1>. QED  BY <1>1, <1>2, <1>4, <1>5, <1>6, TableUntouched

LEMMA DisconnectCompleteKeeps ==
  ASSUME MapInv, NEW c \in Conns, DisconnectComplete(c)
  PROVE  MapInv'
<1>. USE DEF DisconnectComplete
<1>1. MapTypeOK'
  <2>1. TableTypeOK'
    BY DEF MapInv, MapTypeOK, TableTypeOK
  <2>2. conn' \in [Conns -> ConnexionType]
    BY DEF MapInv, MapTypeOK, ConnexionType
  <2>. QED  BY <2>1, <2>2 DEF MapInv, MapTypeOK
<1>2. Stages'
  BY DEF MapInv, MapTypeOK, ConnexionType, Stages
<1>3. Alive' = Alive
  BY DEF MapInv, MapTypeOK, ConnexionType, Alive
<1>4. (serverRefs = Cardinality(Alive))'
  BY <1>3 DEF MapInv, Counts
<1>5. ServerOutlivesConnexions'
  BY DEF MapInv, MapTypeOK, ConnexionType, ServerOutlivesConnexions
<1>6. \A d \in Conns :
        /\ "map" \in owners'[d] <=> "map" \in owners[d]
        /\ "map" \in owners[d] => /\ conn'[d].myId = conn[d].myId
                                  /\ conn'[d].floodKey = conn[d].floodKey
  BY DEF MapInv, MapTypeOK, ConnexionType
<1>. QED  BY <1>1, <1>2, <1>4, <1>5, <1>6, TableUntouched

LEMMA ReleaseTimerKeeps ==
  ASSUME MapInv, NEW c \in Conns, ReleaseTimer(c)
  PROVE  MapInv'
<1>. USE DEF ReleaseTimer
<1>1. MapTypeOK'
  <2>1. TableTypeOK'
    BY DEF MapInv, MapTypeOK, TableTypeOK
  <2>2. conn' \in [Conns -> ConnexionType]
    BY DEF MapInv, MapTypeOK, ConnexionType
  <2>. QED  BY <2>1, <2>2 DEF MapInv, MapTypeOK
<1>2. Stages'
  BY DEF MapInv, MapTypeOK, ConnexionType, Stages
<1>3. Alive' = Alive
  BY DEF MapInv, MapTypeOK, ConnexionType, Alive
<1>4. (serverRefs = Cardinality(Alive))'
  BY <1>3 DEF MapInv, Counts
<1>5. ServerOutlivesConnexions'
  BY DEF MapInv, MapTypeOK, ConnexionType, ServerOutlivesConnexions
<1>6. \A d \in Conns :
        /\ "map" \in owners'[d] <=> "map" \in owners[d]
        /\ "map" \in owners[d] => /\ conn'[d].myId = conn[d].myId
                                  /\ conn'[d].floodKey = conn[d].floodKey
  BY DEF MapInv, MapTypeOK, ConnexionType
<1>. QED  BY <1>1, <1>2, <1>4, <1>5, <1>6, TableUntouched

LEMMA SweepDestroyKeeps ==
  ASSUME MapInv, NEW c \in Conns, SweepDestroy(c)
  PROVE  MapInv'
<1>. USE DEF SweepDestroy
<1>1. MapTypeOK'
  <2>1. TableTypeOK'
    BY DEF MapInv, MapTypeOK, TableTypeOK
  <2>2. conn' \in [Conns -> ConnexionType]
    BY DEF MapInv, MapTypeOK, ConnexionType
  <2>. QED  BY <2>1, <2>2 DEF MapInv, MapTypeOK
<1>2. Stages'
  BY DEF MapInv, MapTypeOK, ConnexionType, Stages
<1>3. Alive' = Alive
  BY DEF MapInv, MapTypeOK, ConnexionType, Alive
<1>4. (serverRefs = Cardinality(Alive))'
  BY <1>3 DEF MapInv, Counts
<1>5. ServerOutlivesConnexions'
  BY DEF MapInv, MapTypeOK, ConnexionType, ServerOutlivesConnexions
<1>6. \A d \in Conns :
        /\ "map" \in owners'[d] <=> "map" \in owners[d]
        /\ "map" \in owners[d] => /\ conn'[d].myId = conn[d].myId
                                  /\ conn'[d].floodKey = conn[d].floodKey
  BY DEF MapInv, MapTypeOK, ConnexionType
<1>. QED  BY <1>1, <1>2, <1>4, <1>5, <1>6, TableUntouched

LEMMA SweepReleaseKeeps ==
  ASSUME MapInv, NEW c \in Conns, SweepRelease(c)
  PROVE  MapInv'
<1>. USE DEF SweepRelease
<1>1. MapTypeOK'
  <2>1. TableTypeOK'
    BY DEF MapInv, MapTypeOK, TableTypeOK
  <2>2. conn' \in [Conns -> ConnexionType]
    BY DEF MapInv, MapTypeOK, ConnexionType
  <2>. QED  BY <2>1, <2>2 DEF MapInv, MapTypeOK
<1>2. Stages'
  BY DEF MapInv, MapTypeOK, ConnexionType, Stages
<1>3. Alive' = Alive
  BY DEF MapInv, MapTypeOK, ConnexionType, Alive
<1>4. (serverRefs = Cardinality(Alive))'
  BY <1>3 DEF MapInv, Counts
<1>5. ServerOutlivesConnexions'
  BY DEF MapInv, MapTypeOK, ConnexionType, ServerOutlivesConnexions
<1>6. \A d \in Conns :
        /\ "map" \in owners'[d] <=> "map" \in owners[d]
        /\ "map" \in owners[d] => /\ conn'[d].myId = conn[d].myId
                                  /\ conn'[d].floodKey = conn[d].floodKey
  BY DEF MapInv, MapTypeOK, ConnexionType
<1>. QED  BY <1>1, <1>2, <1>4, <1>5, <1>6, TableUntouched

LEMMA ServerDestroyKeeps ==
  ASSUME MapInv, ServerDestroy
  PROVE  MapInv'
<1>. USE DEF ServerDestroy
<1>1. MapTypeOK'
  <2>1. TableTypeOK'
    BY DEF MapInv, MapTypeOK, TableTypeOK
  <2>2. conn' \in [Conns -> ConnexionType]
    BY DEF MapInv, MapTypeOK, ConnexionType
  <2>. QED  BY <2>1, <2>2 DEF MapInv, MapTypeOK
<1>2. Stages'
  BY DEF MapInv, MapTypeOK, ConnexionType, Stages
<1>3. Alive' = Alive
  BY DEF MapInv, MapTypeOK, ConnexionType, Alive
<1>4. (serverRefs = Cardinality(Alive))'
  BY <1>3 DEF MapInv, Counts
<1>5. ServerOutlivesConnexions'
  BY DEF MapInv, MapTypeOK, ConnexionType, ServerOutlivesConnexions
<1>6. \A d \in Conns :
        /\ "map" \in owners'[d] <=> "map" \in owners[d]
        /\ "map" \in owners[d] => /\ conn'[d].myId = conn[d].myId
                                  /\ conn'[d].floodKey = conn[d].floodKey
  BY DEF MapInv, MapTypeOK, ConnexionType
<1>. QED  BY <1>1, <1>2, <1>4, <1>5, <1>6, TableUntouched

LEMMA ServerClosedKeeps ==
  ASSUME MapInv, ServerClosed
  PROVE  MapInv'
<1>. USE DEF ServerClosed
<1>1. MapTypeOK'
  <2>1. TableTypeOK'
    BY DEF MapInv, MapTypeOK, TableTypeOK
  <2>2. conn' \in [Conns -> ConnexionType]
    BY DEF MapInv, MapTypeOK, ConnexionType
  <2>. QED  BY <2>1, <2>2 DEF MapInv, MapTypeOK
<1>2. Stages'
  BY DEF MapInv, MapTypeOK, ConnexionType, Stages
<1>3. Alive' = Alive
  BY DEF MapInv, MapTypeOK, ConnexionType, Alive
<1>4. (serverRefs = Cardinality(Alive))'
  BY <1>3 DEF MapInv, Counts
<1>5. ServerOutlivesConnexions'
  BY DEF MapInv, MapTypeOK, ConnexionType, ServerOutlivesConnexions
<1>6. \A d \in Conns :
        /\ "map" \in owners'[d] <=> "map" \in owners[d]
        /\ "map" \in owners[d] => /\ conn'[d].myId = conn[d].myId
                                  /\ conn'[d].floodKey = conn[d].floodKey
  BY DEF MapInv, MapTypeOK, ConnexionType
<1>. QED  BY <1>1, <1>2, <1>4, <1>5, <1>6, TableUntouched

LEMMA ServerFinalizeKeeps ==
  ASSUME MapInv, ServerFinalize
  PROVE  MapInv'
<1>. USE DEF ServerFinalize
<1>1. MapTypeOK'
  <2>1. TableTypeOK'
    BY DEF MapInv, MapTypeOK, TableTypeOK
  <2>2. conn' \in [Conns -> ConnexionType]
    BY DEF MapInv, MapTypeOK, ConnexionType
  <2>. QED  BY <2>1, <2>2 DEF MapInv, MapTypeOK
<1>2. Stages'
  BY DEF MapInv, MapTypeOK, ConnexionType, Stages
<1>3. Alive' = Alive
  BY DEF MapInv, MapTypeOK, ConnexionType, Alive
<1>4. (serverRefs = Cardinality(Alive))'
  BY <1>3 DEF MapInv, Counts
<1>5. ServerOutlivesConnexions'
  <2>1. Cardinality(Alive) = 0
    BY DEF MapInv, Counts
  <2>2. Alive \in SUBSET Conns
    BY DEF Alive
  <2>3. Alive = {}
    BY <2>1, <2>2, FiniteSets, FS_EmptySet
  <2>. QED  BY <2>3 DEF ServerOutlivesConnexions, Alive
<1>6. \A d \in Conns :
        /\ "map" \in owners'[d] <=> "map" \in owners[d]
        /\ "map" \in owners[d] => /\ conn'[d].myId = conn[d].myId
                                  /\ conn'[d].floodKey = conn[d].floodKey
  BY DEF MapInv, MapTypeOK, ConnexionType
<1>. QED  BY <1>1, <1>2, <1>4, <1>5, <1>6, TableUntouched

LEMMA LookupKeeps ==
  ASSUME MapInv, NEW k \in 0 .. MaxPopulation - 1, Lookup(k)
  PROVE  MapInv'
<1>. USE DEF Lookup
<1>0. connTable[k] \in Conns
  BY Shape DEF MapInv, MapTypeOK
<1>1. MapTypeOK'
  <2>1. TableTypeOK'
    BY DEF MapInv, MapTypeOK, TableTypeOK
  <2>. QED  BY <1>0, <2>1 DEF MapInv, MapTypeOK
<1>2. Stages'
  BY <1>0 DEF MapInv, MapTypeOK, ConnexionType, Stages
<1>3. Alive' = Alive
  BY DEF Alive
<1>4. (serverRefs = Cardinality(Alive))'
  BY <1>3 DEF MapInv, Counts
<1>5. ServerOutlivesConnexions'
  BY DEF MapInv, ServerOutlivesConnexions
<1>6. \A d \in Conns :
        /\ "map" \in owners'[d] <=> "map" \in owners[d]
        /\ "map" \in owners[d] => /\ conn'[d].myId = conn[d].myId
                                  /\ conn'[d].floodKey = conn[d].floodKey
  BY <1>0 DEF MapInv, MapTypeOK, ConnexionType
<1>. QED  BY <1>1, <1>2, <1>4, <1>5, <1>6, TableUntouched

LEMMA NewConnexionKeeps ==
  ASSUME MapInv, NEW c \in Conns, NEW a \in Addrs, NewConnexion(c, a)
  PROVE  MapInv'
<1>. USE DEF NewConnexion
<1>1. MapTypeOK'
  <2>1. TableTypeOK'
    BY DEF MapInv, MapTypeOK, TableTypeOK
  <2>2. conn' \in [Conns -> ConnexionType]
    BY NewMemory DEF MapInv, MapTypeOK
  <2>. QED  BY <2>1, <2>2 DEF MapInv, MapTypeOK
<1>2. Stages'
  BY NewMemory DEF MapInv, MapTypeOK, Stages
<1>4. (serverRefs = Cardinality(Alive))'
  <2>1. Alive' = Alive \cup {c} /\ c \notin Alive /\ Alive \in SUBSET Conns
    BY NewMemory DEF MapInv, MapTypeOK, Alive
  <2>2. Cardinality(Alive') = Cardinality(Alive) + 1
    BY <2>1, FiniteSets, FS_AddElement
  <2>. QED  BY <2>2 DEF MapInv, Counts
<1>5. ServerOutlivesConnexions'
  BY DEF ServerOutlivesConnexions
<1>6. \A d \in Conns :
        /\ "map" \in owners'[d] <=> "map" \in owners[d]
        /\ "map" \in owners[d] => /\ conn'[d].myId = conn[d].myId
                                  /\ conn'[d].floodKey = conn[d].floodKey
  BY DEF MapInv, MapTypeOK, ConnexionType, Stages
<1>. QED  BY <1>1, <1>2, <1>4, <1>5, <1>6, TableUntouched

LEMMA FinalizeKeeps ==
  ASSUME MapInv, NEW c \in Conns, Finalize(c)
  PROVE  MapInv'
<1>. USE DEF Finalize
<1>. DEFINE gone == [NoMemory("freed") EXCEPT !.accepting = conn[c].accepting]
<1>0. gone \in ConnexionType /\ gone.at = "freed" /\ gone.myId = InvalidKey
  BY NewMemory DEF MapInv, MapTypeOK, ConnexionType
<1>a. conn' = [conn EXCEPT ![c] = gone]
  OBVIOUS
<1>. HIDE DEF gone
<1>1. MapTypeOK'
  <2>1. TableTypeOK'
    BY DEF MapInv, MapTypeOK, TableTypeOK
  <2>2. conn' \in [Conns -> ConnexionType]
    BY <1>0, <1>a DEF MapInv, MapTypeOK
  <2>. QED  BY <2>1, <2>2 DEF MapInv, MapTypeOK
<1>2. Stages'
  BY <1>0, <1>a DEF MapInv, MapTypeOK, Stages
<1>4. (serverRefs = Cardinality(Alive))'
  <2>1. Alive' = Alive \ {c} /\ c \in Alive /\ Alive \in SUBSET Conns
    BY <1>0, <1>a DEF MapInv, MapTypeOK, Alive
  <2>2. Cardinality(Alive') = Cardinality(Alive) - 1
    BY <2>1, FiniteSets, FS_RemoveElement
  <2>. QED  BY <2>2 DEF MapInv, Counts
<1>5. ServerOutlivesConnexions'
  BY <1>0, <1>a DEF MapInv, MapTypeOK, ServerOutlivesConnexions
<1>6. \A d \in Conns :
        /\ "map" \in owners'[d] <=> "map" \in owners[d]
        /\ "map" \in owners[d] => /\ conn'[d].myId = conn[d].myId
                                  /\ conn'[d].floodKey = conn[d].floodKey
  BY <1>0, <1>a DEF MapInv, MapTypeOK, ConnexionType
<1>. QED  BY <1>1, <1>2, <1>4, <1>5, <1>6, TableUntouched

LEMMA ShutdownAllKeeps ==
  ASSUME MapInv, ShutdownAll
  PROVE  MapInv'
<1>. USE DEF ShutdownAll
<1>1. MapTypeOK'
  <2>1. TableTypeOK'
    <3>1. PICK n \in 0 .. MaxPopulation :
            /\ connTable \in [0 .. n - 1 -> Conns \cup {NoConn}]
            /\ freeTable \in [0 .. n - 1 -> 0 .. n - 1 \cup {InvalidKey, Garbage}]
      BY DEF MapInv, MapTypeOK, TableTypeOK
    <3>2. connTable' \in [0 .. n - 1 -> Conns \cup {NoConn}]
      BY <3>1
    <3>. QED  BY <3>1, <3>2 DEF MapInv, MapTypeOK, TableTypeOK
  <2>2. owners' \in [Conns -> SUBSET {"initial", "timer", "map", "recv", "sweep"}]
    BY DEF MapInv, MapTypeOK
  <2>. QED  BY <2>1, <2>2 DEF MapInv, MapTypeOK
<1>2. \A c \in Conns : "map" \in owners'[c] <=> "map" \in owners[c]
  BY DEF MapInv, MapTypeOK
<1>3. Stages'
  BY <1>2 DEF MapInv, Stages
<1>4. TableMatches'
  BY DEF TableMatches
<1>5. Counts'
  <2>1. Alive' = Alive /\ \A a \in Addrs : HoldingFrom(a)' = HoldingFrom(a)
    BY <1>2 DEF Alive, HoldingFrom
  <2>. QED  BY <2>1 DEF MapInv, Counts
<1>6. FreeListExact' /\ FloodBounded' /\ ServerOutlivesConnexions'
  BY DEF MapInv, FreeListExact, FloodBounded, ServerOutlivesConnexions
<1>. QED  BY <1>1, <1>3, <1>4, <1>5, <1>6 DEF MapInv

-----------------------------------------------------------------------------
(* Insert() has m slots to choose from: the old ones as they were, new ones
   empty, and chain lists the empty ones as the free list links them. *)
Ready(m, n, chain) ==
  /\ Tables.table \in [0 .. m - 1 -> Conns \cup {NoConn}]
  /\ Tables.free \in [0 .. m - 1 -> 0 .. m - 1 \cup {InvalidKey, Garbage}]
  /\ Alloc <= m
  /\ \A k \in 0 .. Alloc - 1 : Tables.table[k] = connTable[k]
  /\ \A k \in 0 .. m - 1 : k \notin 0 .. Alloc - 1 => Tables.table[k] = NoConn
  /\ Tables.first = chain[1]
  /\ \A i \in 1 .. n : Tables.free[chain[i]] = IF i = n THEN InvalidKey ELSE chain[i + 1]
  /\ \A i, j \in 1 .. n : chain[i] = chain[j] => i = j
  /\ {chain[i] : i \in 1 .. n} = {k \in 0 .. m - 1 : Tables.table[k] = NoConn}

LEMMA TablesReady ==
  ASSUME MapInv, NEW a \in Addrs, ~Refused(a)
  PROVE  \E m \in 1 .. MaxPopulation : \E n \in 1 .. m :
           \E chain \in [1 .. n -> 0 .. m - 1] : Ready(m, n, chain)
<1>0. /\ Alloc \in 0 .. MaxPopulation /\ DOMAIN connTable = 0 .. Alloc - 1
      /\ connTable \in [0 .. Alloc - 1 -> Conns \cup {NoConn}]
      /\ freeTable \in [0 .. Alloc - 1 -> 0 .. Alloc - 1 \cup {InvalidKey, Garbage}]
      /\ MaxPopulation \in Nat \ {0}
  BY Shape, Keys DEF MapInv, MapTypeOK
<1>1. PICK n \in 0 .. Alloc : \E chain \in [1 .. n -> 0 .. Alloc - 1] :
        /\ FreeList(n, chain)
        /\ {chain[i] : i \in 1 .. n} = {k \in 0 .. Alloc - 1 : connTable[k] = NoConn}
  <2>1. ~mapShutdown
    BY DEF Refused
  <2>2. \E n \in 0 .. Alloc : \E chain \in [1 .. n -> DOMAIN connTable] :
          /\ FreeList(n, chain)
          /\ {chain[i] : i \in 1 .. n} = {k \in DOMAIN connTable : connTable[k] = NoConn}
    BY <2>1, Zenon DEF MapInv, FreeListExact
  <2>3. DOMAIN connTable = 0 .. Alloc - 1
    BY <1>0
  <2>. QED  BY <2>2, <2>3
<1>2. PICK chain \in [1 .. n -> 0 .. Alloc - 1] :
        /\ FreeList(n, chain)
        /\ {chain[i] : i \in 1 .. n} = {k \in 0 .. Alloc - 1 : connTable[k] = NoConn}
  BY <1>1
<1>3. CASE firstFree # InvalidKey
  <2>1. n # 0
    BY <1>2, <1>3 DEF FreeList
  <2>2. Tables = [table |-> connTable, free |-> freeTable, first |-> firstFree]
    BY <1>3 DEF Tables
  <2>3. n \in 1 .. Alloc /\ Alloc \in 1 .. MaxPopulation /\ Alloc <= Alloc
    BY <1>0, <1>1, <2>1
  <2>4. Tables.first = chain[1]
    BY <1>2, <2>1, <2>2 DEF FreeList
  <2>5. /\ \A i \in 1 .. n :
             Tables.free[chain[i]] = IF i = n THEN InvalidKey ELSE chain[i + 1]
        /\ \A i, j \in 1 .. n : chain[i] = chain[j] => i = j
    BY <1>2, <2>2 DEF FreeList
  <2>6. {chain[i] : i \in 1 .. n} = {k \in 0 .. Alloc - 1 : Tables.table[k] = NoConn}
    BY <1>2, <2>2
  <2>7. /\ Tables.table \in [0 .. Alloc - 1 -> Conns \cup {NoConn}]
        /\ Tables.free \in [0 .. Alloc - 1 -> 0 .. Alloc - 1 \cup {InvalidKey, Garbage}]
        /\ \A k \in 0 .. Alloc - 1 : Tables.table[k] = connTable[k]
    BY <1>0, <2>2
  <2>8. \A k \in 0 .. Alloc - 1 : k \notin 0 .. Alloc - 1 => Tables.table[k] = NoConn
    OBVIOUS
  <2>9. Ready(Alloc, n, chain)
    BY <2>3, <2>4, <2>5, <2>6, <2>7, <2>8, Zenon DEF Ready
  <2>. QED  BY <1>2, <2>3, <2>9
<1>4. CASE firstFree = InvalidKey
  <2>. DEFINE m == NewAlloc
  <2>1. m \in Nat /\ Alloc < m /\ m <= MaxPopulation
    <3>1. Alloc < MaxPopulation
      BY <1>0, <1>4 DEF Refused
    <3>. HIDE DEF m
    <3>. QED  BY <1>0, <3>1, MapAssumption DEF m, NewAlloc
  <2>2. Tables = Expanded
    BY <1>4 DEF Tables
  <2>3. \A k \in 0 .. Alloc - 1 : connTable[k] # NoConn
    <3>1. n = 0
      <4>1. ASSUME n # 0 PROVE FALSE
        <5>1. firstFree = chain[1] /\ chain[1] \in 0 .. Alloc - 1
          BY <1>0, <1>2, <4>1 DEF FreeList
        <5>. QED  BY <1>0, <1>4, <5>1, Keys
      <4>. QED  BY <4>1
    <3>. QED  BY <1>2, <3>1
  <2>. DEFINE l == m - Alloc
              fresh == [i \in 1 .. l |-> (Alloc + i) - 1]
  <2>4. l \in 1 .. m /\ m \in 1 .. MaxPopulation /\ Alloc \in Nat /\ m = Alloc + l
    BY <1>0, <2>1
  <2>5. /\ Tables.table = [k \in 0 .. m - 1 |-> IF k < Alloc THEN connTable[k] ELSE NoConn]
        /\ Tables.free = [k \in 0 .. m - 1 |->
                           CASE k < Alloc -> Garbage
                             [] k >= Alloc /\ k < m - 1 -> k + 1
                             [] OTHER -> InvalidKey]
        /\ Tables.first = Alloc
    BY <2>2 DEF Expanded
  <2>. HIDE DEF m, l
  <2>6. /\ fresh \in [1 .. l -> 0 .. m - 1]
        /\ \A i, j \in 1 .. l : fresh[i] = fresh[j] => i = j
        /\ fresh[1] = Alloc
    BY <2>4
  <2>7. /\ Tables.table \in [0 .. m - 1 -> Conns \cup {NoConn}]
        /\ \A k \in 0 .. Alloc - 1 : Tables.table[k] = connTable[k]
        /\ \A k \in 0 .. m - 1 : k \notin 0 .. Alloc - 1 => Tables.table[k] = NoConn
        /\ Alloc <= m /\ Tables.first = fresh[1]
    BY <1>0, <2>1, <2>4, <2>5, <2>6
  <2>8. Tables.free \in [0 .. m - 1 -> 0 .. m - 1 \cup {InvalidKey, Garbage}]
    BY <2>1, <2>4, <2>5
  <2>9. ASSUME NEW i \in 1 .. l
        PROVE  Tables.free[fresh[i]] = IF i = l THEN InvalidKey ELSE fresh[i + 1]
    <3>1. fresh[i] = (Alloc + i) - 1 /\ fresh[i] \in 0 .. m - 1 /\ ~(fresh[i] < Alloc)
      BY <2>4
    <3>2. CASE i = l
      <4>1. ~(fresh[i] < m - 1)
        BY <2>4, <3>1, <3>2
      <4>. QED  BY <2>5, <3>1, <3>2, <4>1
    <3>3. CASE i # l
      <4>1. fresh[i] < m - 1 /\ fresh[i] >= Alloc /\ fresh[i + 1] = fresh[i] + 1
        BY <2>4, <3>1, <3>3
      <4>. QED  BY <2>5, <3>1, <3>3, <4>1
    <3>. QED  BY <3>2, <3>3
  <2>10. {fresh[i] : i \in 1 .. l} = {k \in 0 .. m - 1 : Tables.table[k] = NoConn}
    <3>1. ASSUME NEW k \in 0 .. m - 1, Tables.table[k] = NoConn
          PROVE  \E i \in 1 .. l : k = fresh[i]
      <4>1. ~(k < Alloc)
        BY <2>1, <2>3, <2>4, <2>5, <3>1
      <4>2. (k - Alloc) + 1 \in 1 .. l /\ fresh[(k - Alloc) + 1] = k
        BY <2>4, <4>1
      <4>. QED  BY <4>2
    <3>2. ASSUME NEW i \in 1 .. l
          PROVE  fresh[i] \in 0 .. m - 1 /\ Tables.table[fresh[i]] = NoConn
      <4>1. fresh[i] \in 0 .. m - 1 /\ fresh[i] \notin 0 .. Alloc - 1
        BY <2>4
      <4>. QED  BY <2>7, <4>1
    <3>. QED  BY <3>1, <3>2
  <2>. HIDE DEF fresh
  <2>11. Ready(m, l, fresh)
    BY <2>6, <2>7, <2>8, <2>9, <2>10, Zenon DEF Ready
  <2>. QED  BY <2>4, <2>6, <2>11
<1>. QED  BY <1>3, <1>4

LEMMA InsertKeeps ==
  ASSUME MapInv, NEW c \in Conns, Insert(c)
  PROVE  MapInv'
<1>. DEFINE a == conn[c].addr
            next == [conn[c] EXCEPT !.at = "inserted", !.myId = Tables.first, !.floodKey = a]
<1>1. /\ conn[c].at = "created" /\ ~Refused(a)
      /\ connTable' = [Tables.table EXCEPT ![Tables.first] = c]
      /\ freeTable' = Tables.free /\ firstFree' = Tables.free[Tables.first]
      /\ count' = count + 1 /\ flood' = [flood EXCEPT ![a] = @ + 1]
      /\ owners' = [owners EXCEPT ![c] = @ \cup {"map"}]
      /\ UNCHANGED <<mapShutdown, server, serverRefs>>
  BY DEF Insert
<1>2. conn' = [conn EXCEPT ![c] = next]
  BY DEF Insert, MapInv, MapTypeOK
<1>3. a \in Addrs /\ conn[c] \in ConnexionType
  BY DEF MapInv, MapTypeOK, ConnexionType
<1>4. PICK m \in 1 .. MaxPopulation : \E n \in 1 .. m :
        \E chain \in [1 .. n -> 0 .. m - 1] : Ready(m, n, chain)
  BY <1>1, <1>3, TablesReady
<1>5. PICK n \in 1 .. m : \E chain \in [1 .. n -> 0 .. m - 1] : Ready(m, n, chain)
  BY <1>4
<1>6. PICK chain \in [1 .. n -> 0 .. m - 1] : Ready(m, n, chain)
  BY <1>5
<1>7. /\ m \in 1 .. MaxPopulation /\ m \in Nat /\ n \in Nat /\ n >= 1 /\ n <= m
      /\ chain[1] \in 0 .. m - 1 /\ Tables.first = chain[1]
      /\ Tables.table[chain[1]] = NoConn /\ MaxPopulation \in Nat \ {0}
  BY <1>4, <1>5, <1>6, Keys DEF Ready
<1>8. /\ Alloc \in 0 .. MaxPopulation /\ DOMAIN connTable = 0 .. Alloc - 1 /\ Alloc <= m
      /\ connTable' \in [0 .. m - 1 -> Conns \cup {NoConn}]
      /\ freeTable' \in [0 .. m - 1 -> 0 .. m - 1 \cup {InvalidKey, Garbage}]
  BY <1>1, <1>6, <1>7, Shape DEF MapInv, MapTypeOK, Ready
<1>9. firstFree' = IF n = 1 THEN InvalidKey ELSE chain[2]
  BY <1>1, <1>6, <1>7 DEF Ready
<1>10. next \in ConnexionType /\ next.at = "inserted" /\ next.myId = chain[1] /\ next.floodKey = a
  <2>1. chain[1] \in 0 .. MaxPopulation - 1
    BY <1>7
  <2>. HIDE DEF a
  <2>. QED  BY <1>3, <1>7, <2>1 DEF ConnexionType
<1>. HIDE DEF next, a
<1>11. ~mapShutdown
  BY <1>1 DEF Refused
<1>12. MapTypeOK'
  <2>1. TableTypeOK'
    <3>1. firstFree' \in 0 .. m - 1 \cup {InvalidKey}
      BY <1>6, <1>7, <1>9
    <3>2. count' \in Int /\ flood' \in [Addrs -> Int] /\ mapShutdown' \in BOOLEAN
      BY <1>1, <1>3 DEF MapInv, MapTypeOK, TableTypeOK
    <3>3. m \in 0 .. MaxPopulation /\ DOMAIN connTable' = 0 .. m - 1
      BY <1>7, <1>8
    <3>. QED  BY <1>8, <3>1, <3>2, <3>3, Zenon DEF TableTypeOK
  <2>2. conn' \in [Conns -> ConnexionType]
    BY <1>2, <1>10 DEF MapInv, MapTypeOK
  <2>3. owners' \in [Conns -> SUBSET {"initial", "timer", "map", "recv", "sweep"}]
    BY <1>1 DEF MapInv, MapTypeOK
  <2>. QED  BY <1>1, <2>1, <2>2, <2>3 DEF MapInv, MapTypeOK
<1>13. DOMAIN connTable' = 0 .. m - 1 /\ chain[1] # InvalidKey
  BY <1>7, <1>8, Keys
<1>14. "map" \notin owners[c] /\ "map" \in owners'[c] /\ conn'[c] = next
  BY <1>1, <1>2 DEF MapInv, MapTypeOK, Stages
<1>15. \A d \in Conns \ {c} : conn'[d] = conn[d] /\ owners'[d] = owners[d]
  BY <1>1, <1>2 DEF MapInv, MapTypeOK
<1>16. Stages'
  <2>1. \A k \in DOMAIN connTable : k \in DOMAIN connTable'
    BY <1>7, <1>8, <1>13
  <2>2. \A d \in Conns \ {c} :
          /\ conn'[d].at \in {"none", "created", "freed"} => conn'[d].myId = InvalidKey
          /\ "map" \in owners'[d] <=>
               conn'[d].at \in {"inserted", "open", "destroy"} /\ conn'[d].myId # InvalidKey
          /\ conn'[d].myId # InvalidKey => conn'[d].myId \in DOMAIN connTable'
    BY <1>15, <2>1 DEF MapInv, Stages
  <2>3. /\ conn'[c].at = "inserted" /\ conn'[c].myId # InvalidKey
        /\ conn'[c].myId \in DOMAIN connTable' /\ "map" \in owners'[c]
    BY <1>7, <1>10, <1>13, <1>14
  <2>. QED  BY <2>2, <2>3 DEF Stages
<1>17. TableMatches'
  <2>. SUFFICES ASSUME NEW k \in 0 .. m - 1, NEW d \in Conns
                PROVE  connTable'[k] = d <=> "map" \in owners'[d] /\ conn'[d].myId = k
    BY <1>1, <1>11, <1>13 DEF TableMatches
  <2>1. CASE k = chain[1]
    <3>1. connTable'[k] = c
      BY <1>1, <1>6, <1>7, <2>1 DEF Ready
    <3>2. ASSUME d # c, "map" \in owners'[d], conn'[d].myId = k PROVE FALSE
      <4>1. "map" \in owners[d] /\ conn[d].myId = k /\ k \in DOMAIN connTable
        BY <1>13, <1>15, <2>1, <3>2 DEF MapInv, Stages
      <4>2. connTable[k] = d
        BY <1>11, <4>1 DEF MapInv, TableMatches
      <4>3. Tables.table[k] = d
        BY <1>6, <1>8, <4>1, <4>2 DEF Ready
      <4>. QED  BY <1>7, <2>1, <4>3, MapAssumption
    <3>. QED  BY <1>10, <1>14, <2>1, <3>1, <3>2
  <2>2. CASE k # chain[1]
    <3>1. connTable'[k] = Tables.table[k]
      BY <1>1, <1>6, <1>7, <2>2 DEF Ready
    <3>2. CASE k \in 0 .. Alloc - 1
      <4>1. connTable'[k] = connTable[k]
        BY <1>6, <3>1, <3>2 DEF Ready
      <4>2. connTable[k] = d <=> "map" \in owners[d] /\ conn[d].myId = k
        BY <1>8, <1>11, <3>2 DEF MapInv, TableMatches
      <4>. QED  BY <1>10, <1>14, <1>15, <2>2, <4>1, <4>2
    <3>3. CASE k \notin 0 .. Alloc - 1
      <4>1. connTable'[k] = NoConn
        BY <1>6, <3>1, <3>3 DEF Ready
      <4>2. d # c => conn[d].myId # k
        <5>1. conn[d].myId = InvalidKey \/ conn[d].myId \in DOMAIN connTable
          BY DEF MapInv, Stages
        <5>2. k \in 0 .. MaxPopulation - 1
          BY <1>7
        <5>3. k # InvalidKey
          BY <5>2, Keys
        <5>. QED  BY <5>1, <5>3, <1>8, <3>3
      <4>. QED  BY <1>10, <1>14, <1>15, <2>2, <4>1, <4>2, MapAssumption
    <3>. QED  BY <3>2, <3>3
  <2>. QED  BY <2>1, <2>2
<1>18. Counts'
  <2>1. Holding' = Holding \cup {c} /\ c \notin Holding /\ Holding \in SUBSET Conns
    BY <1>14, <1>15 DEF Holding
  <2>2. Cardinality(Holding') = Cardinality(Holding) + 1
    BY <2>1, FiniteSets, FS_AddElement
  <2>3. Alive' = Alive
    BY <1>1, <1>10, <1>14, <1>15 DEF Alive
  <2>4. ASSUME NEW b \in Addrs PROVE flood'[b] = Cardinality(HoldingFrom(b)')
    <3>0. flood[b] = Cardinality(HoldingFrom(b)) /\ flood \in [Addrs -> Int]
      BY DEF MapInv, Counts, MapTypeOK, TableTypeOK
    <3>1. CASE b = a
      <4>1. /\ HoldingFrom(b)' = HoldingFrom(b) \cup {c} /\ c \notin HoldingFrom(b)
            /\ HoldingFrom(b) \in SUBSET Conns
        BY <1>10, <1>14, <1>15, <3>1 DEF HoldingFrom
      <4>2. Cardinality(HoldingFrom(b)') = Cardinality(HoldingFrom(b)) + 1
        BY <4>1, FiniteSets, FS_AddElement
      <4>. QED  BY <1>1, <1>3, <3>0, <3>1, <4>2
    <3>2. CASE b # a
      <4>1. HoldingFrom(b)' = HoldingFrom(b)
        BY <1>10, <1>14, <1>15, <3>2 DEF HoldingFrom
      <4>. QED  BY <1>1, <3>0, <3>2, <4>1
    <3>. QED  BY <3>1, <3>2
  <2>. QED  BY <1>1, <1>11, <2>2, <2>3, <2>4 DEF MapInv, Counts
<1>19. FreeListExact'
  <2>. DEFINE l == n - 1
              rest == [i \in 1 .. l |-> chain[i + 1]]
  <2>1. /\ l \in 0 .. m /\ n = l + 1 /\ l \in Nat
        /\ \A i \in 1 .. l : i + 1 \in 1 .. n /\ i \in 1 .. n /\ (i + 1 = n <=> i = l)
    BY <1>7
  <2>2. rest \in [1 .. l -> 0 .. m - 1] /\ \A i, j \in 1 .. l : rest[i] = rest[j] => i = j
    BY <1>6, <2>1 DEF Ready
  <2>3. firstFree' = IF l = 0 THEN InvalidKey ELSE rest[1]
    BY <1>9, <2>1
  <2>4. ASSUME NEW i \in 1 .. l
        PROVE  freeTable'[rest[i]] = IF i = l THEN InvalidKey ELSE rest[i + 1]
    <3>1. rest[i] = chain[i + 1] /\ (i # l => rest[i + 1] = chain[(i + 1) + 1])
      BY <2>1
    <3>2. Tables.free[chain[i + 1]] = IF i + 1 = n THEN InvalidKey ELSE chain[(i + 1) + 1]
      BY <1>6, <2>1 DEF Ready
    <3>. QED  BY <1>1, <2>1, <3>1, <3>2
  <2>5. {rest[i] : i \in 1 .. l} = {k \in 0 .. m - 1 : connTable'[k] = NoConn}
    <3>1. \A k \in 0 .. m - 1 : connTable'[k] = NoConn <=> k # chain[1] /\ Tables.table[k] = NoConn
      BY <1>1, <1>6, <1>7, MapAssumption DEF Ready
    <3>2. \A k \in 0 .. m - 1 : Tables.table[k] = NoConn <=> \E i \in 1 .. n : k = chain[i]
      <4>1. {chain[i] : i \in 1 .. n} = {k \in 0 .. m - 1 : Tables.table[k] = NoConn}
        BY <1>6 DEF Ready
      <4>. QED  BY <4>1
    <3>3. ASSUME NEW k \in 0 .. m - 1, connTable'[k] = NoConn
          PROVE  \E i \in 1 .. l : k = rest[i]
      <4>1. PICK i \in 1 .. n : k = chain[i]
        BY <3>1, <3>2, <3>3
      <4>2. i # 1
        BY <3>1, <3>3, <4>1
      <4>3. i - 1 \in 1 .. l /\ (i - 1) + 1 = i
        BY <1>7, <4>2
      <4>4. rest[i - 1] = k
        BY <4>1, <4>3
      <4>. QED  BY <4>3, <4>4
    <3>4. ASSUME NEW i \in 1 .. l
          PROVE  rest[i] \in 0 .. m - 1 /\ connTable'[rest[i]] = NoConn
      <4>1. rest[i] = chain[i + 1] /\ i + 1 \in 1 .. n /\ i + 1 # 1 /\ 1 \in 1 .. n
        BY <1>7, <2>1
      <4>2. chain[i + 1] # chain[1]
        BY <1>6, <4>1 DEF Ready
      <4>. QED  BY <2>2, <3>1, <3>2, <4>1, <4>2
    <3>. QED  BY <3>3, <3>4
  <2>6. Alloc' = m
    <3>1. Cardinality(0 .. m - 1) = m
      BY <1>7, FS_Interval
    <3>. QED  BY <1>13, <3>1 DEF Alloc
  <2>. HIDE DEF l, rest
  <2>7. FreeList(l, rest)'
    BY <2>2, <2>3, <2>4 DEF FreeList
  <2>. QED  BY <1>13, <2>1, <2>2, <2>5, <2>6, <2>7, SMTT(40) DEF FreeListExact
<1>20. FloodBounded'
  <2>1. flood[a] <= FloodThreshold
    BY <1>1, <1>3, MapAssumption DEF Refused, MapInv, MapTypeOK, TableTypeOK
  <2>. QED  BY <1>1, <2>1, MapAssumption DEF MapInv, MapTypeOK, TableTypeOK, FloodBounded
<1>21. ServerOutlivesConnexions'
  BY <1>1 DEF MapInv, ServerOutlivesConnexions
<1>. QED  BY <1>12, <1>16, <1>17, <1>18, <1>19, <1>20, <1>21 DEF MapInv

LEMMA RemoveKeeps ==
  ASSUME MapInv, NEW c \in Conns, Remove(c)
  PROVE  MapInv'
<1>. DEFINE k == conn[c].myId
            next == [conn[c] EXCEPT !.at = "down"]
<1>1. conn[c].at = "destroy" /\ conn' = [conn EXCEPT ![c] = next] /\ conn[c] \in ConnexionType
  BY DEF Remove, MapInv, MapTypeOK
<1>2. next \in ConnexionType /\ next.at = "down" /\ next.myId = k /\ next.floodKey = conn[c].floodKey
  BY <1>1 DEF ConnexionType
<1>3. k \in 0 .. MaxPopulation - 1 \cup {InvalidKey}
  BY <1>1 DEF ConnexionType
<1>4. UNCHANGED <<mapShutdown, server, serverRefs>>
  BY DEF Remove
<1>. HIDE DEF next
<1>5. conn' \in [Conns -> ConnexionType]
  BY <1>1, <1>2 DEF MapInv, MapTypeOK
<1>6. conn'[c] = next /\ \A d \in Conns \ {c} : conn'[d] = conn[d]
  BY <1>1 DEF MapInv, MapTypeOK
<1>7. Alive' = Alive
  BY <1>1, <1>2, <1>6 DEF Alive
<1>8. (serverRefs = Cardinality(Alive))'
  BY <1>4, <1>7 DEF MapInv, Counts
<1>9. ServerOutlivesConnexions'
  BY <1>1, <1>4 DEF MapInv, ServerOutlivesConnexions
<1>10. CASE k = InvalidKey
  <2>1. /\ owners' = [owners EXCEPT ![c] = @ \ {"initial"}]
        /\ UNCHANGED <<connTable, freeTable, firstFree, count, flood>>
    BY <1>10, Keys DEF Remove
  <2>2. MapTypeOK'
    <3>1. TableTypeOK'
      BY <1>4, <2>1 DEF MapInv, MapTypeOK, TableTypeOK
    <3>. QED  BY <1>4, <1>5, <2>1, <3>1 DEF MapInv, MapTypeOK
  <2>3. Stages'
    BY <1>2, <1>6, <1>10, <2>1 DEF MapInv, MapTypeOK, Stages
  <2>4. \A d \in Conns :
          /\ "map" \in owners'[d] <=> "map" \in owners[d]
          /\ "map" \in owners[d] => /\ conn'[d].myId = conn[d].myId
                                    /\ conn'[d].floodKey = conn[d].floodKey
    BY <1>2, <1>6, <2>1 DEF MapInv, MapTypeOK
  <2>. QED  BY <1>4, <1>8, <1>9, <2>1, <2>2, <2>3, <2>4, TableUntouched
<1>11. CASE k # InvalidKey
  <2>. DEFINE a == conn[c].floodKey
  <2>1. /\ connTable' = [connTable EXCEPT ![k] = NoConn]
        /\ freeTable' = [freeTable EXCEPT ![k] = firstFree]
        /\ firstFree' = k /\ count' = count - 1
        /\ flood' = [flood EXCEPT ![a] = @ - 1]
        /\ owners' = [owners EXCEPT ![c] = @ \ {"map", "initial"}]
    BY <1>3, <1>11, Keys DEF Remove
  <2>2. /\ Alloc \in 0 .. MaxPopulation /\ DOMAIN connTable = 0 .. Alloc - 1
        /\ connTable \in [0 .. Alloc - 1 -> Conns \cup {NoConn}]
        /\ freeTable \in [0 .. Alloc - 1 -> 0 .. Alloc - 1 \cup {InvalidKey, Garbage}]
        /\ MaxPopulation \in Nat \ {0} /\ firstFree \in 0 .. Alloc - 1 \cup {InvalidKey}
    BY Shape, Keys DEF MapInv, MapTypeOK, TableTypeOK
  <2>3. k \in 0 .. Alloc - 1 /\ "map" \in owners[c] /\ a \in Addrs
    BY <1>1, <1>11, <2>2 DEF MapInv, Stages, ConnexionType
  <2>. HIDE DEF k, a
  <2>4. /\ connTable' \in [0 .. Alloc - 1 -> Conns \cup {NoConn}]
        /\ freeTable' \in [0 .. Alloc - 1 -> 0 .. Alloc - 1 \cup {InvalidKey, Garbage}]
        /\ DOMAIN connTable' = 0 .. Alloc - 1 /\ Alloc' = Alloc
    BY <2>1, <2>2, <2>3 DEF Alloc
  <2>5. MapTypeOK'
    <3>1. TableTypeOK'
      <4>1. count' \in Int /\ flood' \in [Addrs -> Int] /\ mapShutdown' \in BOOLEAN
        BY <1>4, <2>1, <2>3 DEF MapInv, MapTypeOK, TableTypeOK
      <4>2. firstFree' \in 0 .. Alloc - 1 \cup {InvalidKey}
        BY <2>1, <2>3
      <4>. QED  BY <2>2, <2>4, <4>1, <4>2, Zenon DEF TableTypeOK
    <3>2. owners' \in [Conns -> SUBSET {"initial", "timer", "map", "recv", "sweep"}]
      BY <2>1 DEF MapInv, MapTypeOK
    <3>. QED  BY <1>4, <1>5, <3>1, <3>2 DEF MapInv, MapTypeOK
  <2>6. "map" \notin owners'[c] /\ \A d \in Conns \ {c} : owners'[d] = owners[d]
    BY <2>1 DEF MapInv, MapTypeOK
  <2>7. Stages'
    BY <1>2, <1>6, <1>11, <2>2, <2>3, <2>4, <2>6 DEF MapInv, Stages
  <2>8. ~mapShutdown => connTable[k] = c
    BY <2>2, <2>3 DEF MapInv, TableMatches, k
  <2>9. TableMatches'
    <3>. SUFFICES ASSUME NEW j \in 0 .. Alloc - 1
                  PROVE  /\ mapShutdown => connTable'[j] = NoConn
                         /\ ~mapShutdown =>
                              \A d \in Conns : connTable'[j] = d <=>
                                "map" \in owners'[d] /\ conn'[d].myId = j
      BY <1>4, <2>4 DEF TableMatches
    <3>1. connTable'[j] = IF j = k THEN NoConn ELSE connTable[j]
      BY <2>1, <2>2
    <3>2. mapShutdown => connTable[j] = NoConn
      BY <2>2 DEF MapInv, TableMatches
    <3>3. ASSUME ~mapShutdown, NEW d \in Conns
          PROVE  connTable'[j] = d <=> "map" \in owners'[d] /\ conn'[d].myId = j
      <4>1. connTable[j] = d <=> "map" \in owners[d] /\ conn[d].myId = j
        BY <2>2, <3>3 DEF MapInv, TableMatches
      <4>2. connTable[k] = c /\ d # NoConn
        BY <2>8, <3>3, MapAssumption
      <4>3. CASE d = c
        BY <2>6, <3>1, <4>1, <4>2, <4>3 DEF k
      <4>4. CASE d # c
        BY <1>6, <2>6, <3>1, <4>1, <4>2, <4>4
      <4>. QED  BY <4>3, <4>4
    <3>. QED  BY <3>1, <3>2, <3>3
  <2>10. Counts'
    <3>1. Holding' = Holding \ {c} /\ c \in Holding /\ Holding \in SUBSET Conns
      BY <2>3, <2>6 DEF Holding
    <3>2. Cardinality(Holding') = Cardinality(Holding) - 1
      BY <3>1, FiniteSets, FS_RemoveElement
    <3>3. ASSUME NEW b \in Addrs PROVE flood'[b] = Cardinality(HoldingFrom(b)')
      <4>0. flood[b] = Cardinality(HoldingFrom(b)) /\ flood \in [Addrs -> Int]
        BY DEF MapInv, Counts, MapTypeOK, TableTypeOK
      <4>1. CASE b = a
        <5>1. /\ HoldingFrom(b)' = HoldingFrom(b) \ {c} /\ c \in HoldingFrom(b)
              /\ HoldingFrom(b) \in SUBSET Conns
          BY <1>6, <2>3, <2>6, <4>1 DEF HoldingFrom, a
        <5>2. Cardinality(HoldingFrom(b)') = Cardinality(HoldingFrom(b)) - 1
          BY <5>1, FiniteSets, FS_RemoveElement
        <5>. QED  BY <2>1, <2>3, <4>0, <4>1, <5>2
      <4>2. CASE b # a
        <5>1. HoldingFrom(b)' = HoldingFrom(b)
          BY <1>6, <2>3, <2>6, <4>2 DEF HoldingFrom, a
        <5>. QED  BY <2>1, <4>0, <4>2, <5>1
      <4>. QED  BY <4>1, <4>2
    <3>. QED  BY <1>4, <1>8, <2>1, <3>2, <3>3 DEF MapInv, Counts
  <2>11. FreeListExact'
    <3>. SUFFICES ASSUME ~mapShutdown PROVE FreeListExact'
      BY <1>4 DEF FreeListExact
    <3>0. \E n \in 0 .. Alloc : \E chain \in [1 .. n -> DOMAIN connTable] :
            /\ FreeList(n, chain)
            /\ {chain[i] : i \in 1 .. n} = {j \in DOMAIN connTable : connTable[j] = NoConn}
      BY Zenon DEF MapInv, FreeListExact
    <3>1. PICK n \in 0 .. Alloc : \E chain \in [1 .. n -> 0 .. Alloc - 1] :
            /\ FreeList(n, chain)
            /\ {chain[i] : i \in 1 .. n} = {j \in 0 .. Alloc - 1 : connTable[j] = NoConn}
      <4>1. DOMAIN connTable = 0 .. Alloc - 1
        BY <2>2
      <4>. QED  BY <3>0, <4>1
    <3>2. PICK chain \in [1 .. n -> 0 .. Alloc - 1] :
            /\ FreeList(n, chain)
            /\ {chain[i] : i \in 1 .. n} = {j \in 0 .. Alloc - 1 : connTable[j] = NoConn}
      BY <3>1
    <3>3. n \in Nat /\ Alloc \in Nat
      BY <2>2, <3>1
    <3>4. \A i \in 1 .. n : chain[i] # k
      <4>1. k \notin {chain[i] : i \in 1 .. n}
        BY <2>8, <3>2, MapAssumption
      <4>. QED  BY <4>1
    <3>. DEFINE l == n + 1
                more == [i \in 1 .. l |-> IF i = 1 THEN k ELSE chain[i - 1]]
    <3>5. /\ l \in Nat /\ l # 0 /\ 1 \in 1 .. l /\ n = l - 1
          /\ \A i \in 1 .. l : i = 1 \/ (i - 1 \in 1 .. n /\ (i = l <=> i - 1 = n))
      BY <3>3
    <3>6. more \in [1 .. l -> 0 .. Alloc - 1]
      BY <2>3, <3>2, <3>5
    <3>7. \A i, j \in 1 .. l : more[i] = more[j] => i = j
      <4>1. \A i, j \in 1 .. n : chain[i] = chain[j] => i = j
        BY <3>2 DEF FreeList
      <4>. QED  BY <3>4, <3>5, <4>1
    <3>8. l \in 0 .. Alloc
      <4>. HIDE DEF l, more
      <4>1. l <= Alloc
        BY <3>3, <3>5, <3>6, <3>7, ListFits
      <4>. QED  BY <3>3, <3>5, <4>1
    <3>9. ASSUME NEW i \in 1 .. l
          PROVE  freeTable'[more[i]] = IF i = l THEN InvalidKey ELSE more[i + 1]
      <4>1. CASE i = 1
        <5>1. freeTable'[more[i]] = firstFree
          BY <2>1, <2>2, <2>3, <4>1
        <5>2. firstFree = IF n = 0 THEN InvalidKey ELSE chain[1]
          BY <3>2 DEF FreeList
        <5>3. (i = l <=> n = 0) /\ (i # l => more[i + 1] = chain[1])
          BY <3>3, <4>1
        <5>. QED  BY <5>1, <5>2, <5>3
      <4>2. CASE i # 1
        <5>1. i - 1 \in 1 .. n /\ (i = l <=> i - 1 = n) /\ more[i] = chain[i - 1]
          BY <3>5, <4>2
        <5>2. freeTable'[more[i]] = freeTable[chain[i - 1]]
          BY <2>1, <2>2, <3>2, <3>4, <5>1
        <5>3. freeTable[chain[i - 1]] = IF i - 1 = n THEN InvalidKey ELSE chain[(i - 1) + 1]
          BY <3>2, <5>1 DEF FreeList
        <5>4. i # l => more[i + 1] = chain[(i - 1) + 1]
          BY <3>3, <4>2
        <5>. QED  BY <5>1, <5>2, <5>3, <5>4
      <4>. QED  BY <4>1, <4>2
    <3>10. {more[i] : i \in 1 .. l} = {j \in 0 .. Alloc - 1 : connTable'[j] = NoConn}
      <4>1. \A j \in 0 .. Alloc - 1 : connTable'[j] = NoConn <=> j = k \/ connTable[j] = NoConn
        BY <2>1, <2>2
      <4>2. ASSUME NEW j \in 0 .. Alloc - 1, connTable'[j] = NoConn
            PROVE  \E i \in 1 .. l : j = more[i]
        <5>1. CASE j = k
          <6>1. more[1] = k
            BY <3>5
          <6>. QED  BY <3>5, <5>1, <6>1
        <5>2. CASE j # k
          <6>1. j \in {chain[i] : i \in 1 .. n}
            BY <3>2, <4>1, <4>2, <5>2
          <6>2. PICK i \in 1 .. n : j = chain[i]
            BY <6>1
          <6>3. i + 1 \in 1 .. l /\ i + 1 # 1 /\ (i + 1) - 1 = i
            BY <3>3
          <6>4. more[i + 1] = j
            BY <6>2, <6>3
          <6>. QED  BY <6>3, <6>4
        <5>. QED  BY <5>1, <5>2
      <4>3. ASSUME NEW i \in 1 .. l
            PROVE  more[i] \in 0 .. Alloc - 1 /\ connTable'[more[i]] = NoConn
        <5>1. CASE i = 1
          BY <2>3, <3>6, <4>1, <5>1
        <5>2. CASE i # 1
          <6>1. i - 1 \in 1 .. n /\ more[i] = chain[i - 1]
            BY <3>5, <5>2
          <6>2. chain[i - 1] \in {j \in 0 .. Alloc - 1 : connTable[j] = NoConn}
            BY <3>2, <6>1
          <6>. QED  BY <4>1, <6>1, <6>2
        <5>. QED  BY <5>1, <5>2
      <4>. QED  BY <4>2, <4>3
    <3>11. firstFree' = IF l = 0 THEN InvalidKey ELSE more[1]
      BY <2>1, <3>5
    <3>. HIDE DEF l, more
    <3>12. PICK list \in [1 .. l -> 0 .. Alloc - 1] : list = more
      BY <3>6
    <3>13. FreeList(l, list)'
      BY <3>7, <3>9, <3>11, <3>12 DEF FreeList
    <3>14. {list[i] : i \in 1 .. l} = {j \in 0 .. Alloc - 1 : connTable'[j] = NoConn}
      BY <3>10, <3>12
    <3>. QED  BY <2>4, <3>8, <3>12, <3>13, <3>14 DEF FreeListExact
  <2>12. FloodBounded'
    BY <2>1, <2>3, MapAssumption DEF MapInv, MapTypeOK, TableTypeOK, FloodBounded
  <2>. QED  BY <1>9, <2>5, <2>7, <2>9, <2>10, <2>11, <2>12 DEF MapInv
<1>. QED  BY <1>10, <1>11

-----------------------------------------------------------------------------
(* The invariant says what the runs check of the table. *)
LEMMA InvIsExact == MapInv => TableExact
<1>. SUFFICES ASSUME MapInv PROVE TableExact
  OBVIOUS
<1>1. TableEntriesOwned
  BY Shape, MapAssumption DEF MapInv, MapTypeOK, TableEntriesOwned, TableMatches, Stages
<1>2. CountsMatchTable
  <2>1. ASSUME ~mapShutdown PROVE Listed = Holding
    BY <2>1 DEF MapInv, TableMatches, Stages, Listed, Holding
  <2>. QED  BY <2>1 DEF MapInv, Counts, CountsMatchTable, HoldingFrom
<1>3. Cardinality(Listed) <= MaxPopulation
  <2>. DEFINE slot == [c \in Listed |-> conn[c].myId]
  <2>1. Alloc \in 0 .. MaxPopulation /\ DOMAIN connTable = 0 .. Alloc - 1
    BY Shape DEF MapInv, MapTypeOK
  <2>2. ASSUME NEW c \in Listed
        PROVE  conn[c].myId \in 0 .. Alloc - 1 /\ connTable[conn[c].myId] = c
    <3>1. PICK k \in DOMAIN connTable : connTable[k] = c
      BY DEF Listed
    <3>2. c \in Conns /\ c # NoConn
      BY MapAssumption DEF Listed
    <3>. QED  BY <1>1, <2>1, <3>1, <3>2 DEF TableEntriesOwned
  <2>3. slot \in Injection(Listed, 0 .. Alloc - 1)
    BY <2>2 DEF Injection, IsInjective
  <2>4. IsFiniteSet(0 .. Alloc - 1) /\ Cardinality(0 .. Alloc - 1) = Alloc
    <3>1. Alloc \in Nat
      BY <2>1, Keys
    <3>. QED  BY <3>1, FS_Interval
  <2>5. Cardinality(Listed) <= Cardinality(0 .. Alloc - 1)
    BY <2>3, <2>4, FS_Injection
  <2>6. Cardinality(Listed) \in Nat
    BY FiniteSets DEF Listed
  <2>. QED  BY <2>1, <2>4, <2>5, <2>6, Keys
<1>. QED  BY <1>1, <1>2, <1>3 DEF MapInv, TableExact, PopulationBounded, FloodBounded

LEMMA MapStep == MapInv /\ [MapNext]_mapVars => MapInv'
<1>. SUFFICES ASSUME MapInv, [MapNext]_mapVars PROVE MapInv'
  OBVIOUS
<1>1. ASSUME NEW c \in Conns, ConnStep(c) PROVE MapInv'
  BY <1>1, InsertRefusedKeeps, InsertKeeps, AcceptKeeps, OnRecvKeeps, RemoveKeeps,
     ReleaseTimerKeeps, FinalizeKeeps, SweepDestroyKeeps, SweepReleaseKeeps DEF ConnStep
<1>2. ASSUME ServerStep PROVE MapInv'
  BY <1>2, ShutdownAllKeeps, ServerClosedKeeps, ServerFinalizeKeeps DEF ServerStep
<1>3. ASSUME UNCHANGED mapVars PROVE MapInv'
  <2>1. MapTypeOK'
    BY <1>3 DEF MapInv, MapTypeOK, TableTypeOK, mapVars
  <2>2. Stages'
    BY <1>3 DEF MapInv, Stages, mapVars
  <2>3. Alive' = Alive
    BY <1>3 DEF Alive, mapVars
  <2>4. (serverRefs = Cardinality(Alive))'
    BY <1>3, <2>3 DEF MapInv, Counts, mapVars
  <2>5. ServerOutlivesConnexions'
    BY <1>3 DEF MapInv, ServerOutlivesConnexions, mapVars
  <2>. QED  BY <1>3, <2>1, <2>2, <2>4, <2>5, TableUntouched DEF mapVars
<1>. QED
  BY <1>1, <1>2, <1>3, DisconnectCompleteKeeps, NewConnexionKeeps, LookupKeeps,
     ServerDestroyKeeps DEF MapNext

LEMMA MapInvariance == MapSpec => []MapInv
  BY InitMap, MapStep, PTL DEF MapSpec

(* However connexions are accepted, looked up, moved, dropped and swept, on
   any number of threads, the table, its free list, its counters and its
   limits agree with the connexions (ConnexionMap::Insert, Remove, Lookup,
   ShutdownAll). *)
THEOREM MapCorrect == MapSpec => []TableExact
  BY MapInvariance, InvIsExact, PTL

(* The server is not freed before every connexion that uses it is
   (Connexion::_parent, Server::OnDestroy). *)
THEOREM ServerStays == MapSpec => []ServerOutlivesConnexions
<1>1. MapInv => ServerOutlivesConnexions
  BY DEF MapInv
<1>. QED  BY <1>1, MapInvariance, PTL

-----------------------------------------------------------------------------
LEMMA LeastExists ==
  ASSUME NEW S, S \subseteq Nat, S # {}
  PROVE  \E x \in S : \A y \in S : x <= y
<1> DEFINE R == OpToRel(<, Nat)
<1>1. IsWellFoundedOn(R, Nat)
  BY NatLessThanWellFounded
<1>2. PICK x \in S : \A y \in S : ~(<<y, x>> \in R)
  <2> HIDE DEF R
  <2> QED BY <1>1, WFMin
<1>3. \A y \in S : y < x => <<y, x>> \in R
  BY DEF OpToRel
<1>4. \A y \in S : ~(y < x)
  BY <1>2, <1>3
<1> QED BY <1>4

-----------------------------------------------------------------------------
(* The allocators' lists *)

(* A buffer is in a place: one of the two lists, a thread's hands, or lost
   (or not yet made). *)
Acq == CHOOSE x : x \notin Users
Rel == CHOOSE x : x \notin Users \cup {Acq}
Owners == Users \cup {Acq, Rel}
Lost == CHOOSE x : x \notin Owners

(* Where each buffer is (w), and which one there (p): the owner o has n of
   them in a row, *)
Row(w, p, n, o) ==
  /\ \A b \in Buffers : w[b] = o => p[b] \in 1 .. n
  /\ \A i \in 1 .. n : \E b \in Buffers : w[b] = o /\ p[b] = i
  /\ \A b, c \in Buffers : w[b] = o /\ w[c] = o /\ p[b] = p[c] => b = c
(* which the links lead through, *)
Tied(w, p, n, o, link) ==
  /\ \A b \in Buffers : w[b] = o /\ p[b] = n => link[b] = NoBuffer
  /\ \A b, c \in Buffers : w[b] = o /\ w[c] = o /\ p[c] = p[b] + 1 => link[b] = c
(* from the head on. *)
Starts(w, p, n, o, head) ==
  /\ n = 0 => head = NoBuffer
  /\ \A b \in Buffers : w[b] = o /\ p[b] = 1 => head = b

BufferCount == Cardinality(Buffers)
Links == [Buffers -> Buffers \cup {NoBuffer}]

LEMMA OwnersDiffer ==
  Acq \notin Users /\ Rel \notin Users /\ Acq # Rel /\ Lost \notin Owners
<1>1. Acq \notin Users
  BY NoSetContainsEverything DEF Acq
<1>2. Rel \notin Users \cup {Acq}
  BY NoSetContainsEverything DEF Rel
<1>3. Lost \notin Owners
  BY NoSetContainsEverything DEF Lost
<1> QED BY <1>1, <1>2, <1>3

LEMMA BufferFacts ==
  /\ IsFiniteSet(Buffers) /\ BufferCount \in Nat /\ NoBuffer \notin Buffers
  /\ Buffers = 1 .. BufferCount /\ Buffers \subseteq Nat
<1>1. IsFiniteSet(Buffers) /\ Buffers = 1 .. BufferCount
  BY PoolAssumption DEF BufferCount
<1>2. BufferCount \in Nat
  BY <1>1, FS_CardinalityType DEF BufferCount
<1> QED BY <1>1, <1>2 DEF NoBuffer

(* No row is longer than there are buffers. *)
LEMMA RowFits ==
  ASSUME NEW w, NEW p, NEW n \in Nat, NEW o, Row(w, p, n, o)
  PROVE  n <= BufferCount
<1> DEFINE S == 1 .. n
           f == [i \in S |-> CHOOSE b \in Buffers : w[b] = o /\ p[b] = i]
<1>1. \A i \in S : f[i] \in Buffers /\ p[f[i]] = i
  BY DEF Row
<1>2. f \in [S -> Buffers] /\ \A i, j \in S : f[i] = f[j] => i = j
  BY <1>1
<1>3. Cardinality(S) = n
  <2>1. 1 \in Int /\ n \in Int
    OBVIOUS
  <2>2. Cardinality(S) = IF 1 > n THEN 0 ELSE (n - 1) + 1
    BY <2>1, FS_Interval, Zenon
  <2> QED BY <2>2
<1> HIDE DEF S, f
<1>4. f \in Injection(S, Buffers)
  BY <1>2 DEF Injection, IsInjective
<1>5. Cardinality(S) <= Cardinality(Buffers)
  BY <1>4, BufferFacts, FS_Injection
<1> QED BY <1>3, <1>5 DEF BufferCount

(* What Chain() computes is the row. *)
LEMMA ChainIsRow ==
  ASSUME NEW w, NEW p \in [Buffers -> Nat], NEW n \in Nat, NEW o, NEW link \in Links, NEW head,
         Row(w, p, n, o), Tied(w, p, n, o, link), Starts(w, p, n, o, head)
  PROVE  LET c == Chain(link, head) IN
         /\ DOMAIN c = 0 .. BufferCount
         /\ \A k \in 0 .. BufferCount :
              IF k < n THEN c[k] \in Buffers /\ w[c[k]] = o /\ p[c[k]] = k + 1
                       ELSE c[k] = NoBuffer
<1> DEFINE at(k) == IF k < n THEN CHOOSE b \in Buffers : w[b] = o /\ p[b] = k + 1 ELSE NoBuffer
           S == 0 .. BufferCount
           step(c, k) == IF k = 0 THEN head
                         ELSE IF c[k - 1] = NoBuffer THEN NoBuffer ELSE link[c[k - 1]]
           d == [k \in S |-> at(k)]
           c == Chain(link, head)
<1>1. BufferCount \in Nat /\ n <= BufferCount
  BY BufferFacts, RowFits
<1>2. ASSUME NEW k \in S PROVE k < n => at(k) \in Buffers /\ w[at(k)] = o /\ p[at(k)] = k + 1
  <2>1. CASE k < n
    <3>1. k + 1 \in 1 .. n
      BY <2>1, <1>1
    <3>2. \E b \in Buffers : w[b] = o /\ p[b] = k + 1
      BY <3>1 DEF Row
    <3> QED BY <3>2, <2>1
  <2> QED BY <2>1
<1>3. ASSUME NEW k \in S PROVE k >= n => at(k) = NoBuffer
  BY <1>1
<1> HIDE DEF at
<1>4. ASSUME NEW k \in S PROVE at(k) = step(d, k)
  <2>1. CASE k = 0
    <3>1. CASE n = 0
      BY <2>1, <3>1, <1>3 DEF Starts
    <3>2. CASE n # 0
      BY <2>1, <3>2, <1>2 DEF Starts
    <3> QED BY <2>1, <3>1, <3>2
  <2>2. CASE k # 0
    <3>1. k - 1 \in S /\ d[k - 1] = at(k - 1)
      BY <2>2, <1>1
    <3>2. CASE k < n
      <4>1. /\ at(k - 1) \in Buffers /\ w[at(k - 1)] = o /\ p[at(k - 1)] = k
            /\ at(k) \in Buffers /\ w[at(k)] = o /\ p[at(k)] = k + 1
        BY <3>1, <3>2, <1>1, <1>2
      <4>2. link[at(k - 1)] = at(k) /\ at(k - 1) # NoBuffer
        BY <4>1, BufferFacts DEF Tied
      <4> QED BY <2>2, <3>1, <4>2
    <3>3. CASE k = n
      <4>1. at(k - 1) \in Buffers /\ w[at(k - 1)] = o /\ p[at(k - 1)] = n
        BY <3>1, <3>3, <1>1, <1>2
      <4>2. link[at(k - 1)] = NoBuffer /\ at(k - 1) # NoBuffer /\ at(k) = NoBuffer
        BY <4>1, <3>3, <1>3, BufferFacts DEF Tied
      <4> QED BY <2>2, <3>1, <4>2
    <3>4. CASE k > n
      <4>1. at(k - 1) = NoBuffer /\ at(k) = NoBuffer
        BY <3>1, <3>4, <1>3
      <4> QED BY <2>2, <3>1, <4>1
    <3> QED BY <3>2, <3>3, <3>4
  <2> QED BY <2>1, <2>2
<1>5. d = [k \in S |-> step(d, k)]
  <2> HIDE DEF step
  <2> QED BY <1>4
<1>6. c = CHOOSE e : e = [k \in S |-> step(e, k)]
  BY DEF Chain, BufferCount
<1>7. c = [k \in S |-> step(c, k)]
  <2> HIDE DEF step, d, c
  <2> QED BY <1>5, <1>6
<1> HIDE DEF c
<1>8. DOMAIN c = S /\ \A k \in S : c[k] = step(c, k)
  <2> HIDE DEF step
  <2> QED BY <1>7
<1> DEFINE bad == {k \in S : c[k] # at(k)}
<1>9. bad = {}
  <2> SUFFICES ASSUME bad # {} PROVE FALSE
    OBVIOUS
  <2>1. PICK k \in bad : \A j \in bad : k <= j
    <3>1. bad \subseteq Nat
      OBVIOUS
    <3> QED BY <3>1, LeastExists
  <2>2. k \in S /\ c[k] # at(k)
    BY <2>1
  <2>3. k # 0
    BY <2>2, <1>4, <1>8
  <2>4. k - 1 \in S /\ k - 1 < k
    BY <2>2, <2>3, <1>1
  <2>5. c[k - 1] = at(k - 1)
    BY <2>1, <2>4
  <2>6. step(c, k) = step(d, k)
    BY <2>4, <2>5
  <2> QED BY <2>2, <2>6, <1>4, <1>8
<1>10. ASSUME NEW k \in S
       PROVE  IF k < n THEN c[k] \in Buffers /\ w[c[k]] = o /\ p[c[k]] = k + 1
              ELSE c[k] = NoBuffer
  <2>1. c[k] = at(k)
    BY <1>9
  <2> QED BY <2>1, <1>1, <1>2, <1>3
<1> QED BY <1>8, <1>10 DEF c

LEMMA ChainFacts ==
  ASSUME NEW w, NEW p \in [Buffers -> Nat], NEW n \in Nat, NEW o, NEW link \in Links, NEW head,
         Row(w, p, n, o), Tied(w, p, n, o, link), Starts(w, p, n, o, head)
  PROVE  /\ Length(link, head) = n
         /\ InChain(link, head) = {b \in Buffers : w[b] = o}
         /\ Chain(link, head)[BufferCount] = NoBuffer
         /\ \A k \in 0 .. n - 1 : LET b == Chain(link, head)[k] IN
              b \in Buffers /\ w[b] = o /\ p[b] = k + 1
<1> DEFINE c == Chain(link, head)
<1>1. /\ DOMAIN c = 0 .. BufferCount
      /\ \A k \in 0 .. BufferCount :
              IF k < n THEN c[k] \in Buffers /\ w[c[k]] = o /\ p[c[k]] = k + 1
                       ELSE c[k] = NoBuffer
  BY ChainIsRow
<1>2. Length(link, head) = Cardinality({k \in DOMAIN c : c[k] # NoBuffer})
  BY DEF Length
<1>3. InChain(link, head) = {c[k] : k \in DOMAIN c} \ {NoBuffer}
  BY DEF InChain
<1> HIDE DEF c
<1>4. BufferCount \in Nat /\ n <= BufferCount /\ NoBuffer \notin Buffers
  BY BufferFacts, RowFits
<1>5. {k \in DOMAIN c : c[k] # NoBuffer} = 0 .. n - 1
  BY <1>1, <1>4
<1>6. Cardinality(0 .. n - 1) = n
  <2>1. 0 \in Int /\ n - 1 \in Int
    OBVIOUS
  <2>2. Cardinality(0 .. n - 1) = IF 0 > n - 1 THEN 0 ELSE ((n - 1) - 0) + 1
    BY <2>1, FS_Interval, Zenon
  <2> QED BY <2>2
<1>7. ASSUME NEW b \in Buffers, w[b] = o PROVE b \in {c[k] : k \in DOMAIN c} \ {NoBuffer}
  <2>1. p[b] \in 1 .. n
    BY <1>7 DEF Row
  <2>2. p[b] - 1 \in 0 .. BufferCount /\ p[b] - 1 < n /\ (p[b] - 1) + 1 = p[b]
    BY <2>1, <1>4
  <2>3. c[p[b] - 1] \in Buffers /\ w[c[p[b] - 1]] = o /\ p[c[p[b] - 1]] = p[b]
    BY <2>2, <1>1
  <2>4. c[p[b] - 1] = b
    BY <2>3, <1>7 DEF Row
  <2> QED BY <2>2, <2>4, <1>1, <1>4
<1>8. {c[k] : k \in DOMAIN c} \ {NoBuffer} = {b \in Buffers : w[b] = o}
  BY <1>1, <1>7
<1>9. c[BufferCount] = NoBuffer
  BY <1>1, <1>4
<1>10. \A k \in 0 .. n - 1 : c[k] \in Buffers /\ w[c[k]] = o /\ p[c[k]] = k + 1
  BY <1>1, <1>4
<1> QED BY <1>2, <1>3, <1>5, <1>6, <1>8, <1>9, <1>10 DEF c

-----------------------------------------------------------------------------
(* The first k of o, and then the first l of u, are now the row of q. *)
Spliced(w, p, w2, p2, q, o, k, u, l) ==
  \A b \in Buffers :
    /\ w2[b] = q <=> (w[b] = o /\ p[b] \in 1 .. k) \/ (w[b] = u /\ p[b] \in 1 .. l)
    /\ w2[b] = q /\ w[b] = o => p2[b] = p[b]
    /\ w2[b] = q /\ w[b] = u => p2[b] = p[b] + k

LEMMA SplicedRow ==
  ASSUME NEW w, NEW p \in [Buffers -> Nat], NEW w2, NEW p2 \in [Buffers -> Nat],
         NEW q, NEW o, NEW k \in Nat, NEW u, NEW l \in Nat,
         NEW n \in Nat, NEW m \in Nat, o # u, k <= n, l <= m,
         Row(w, p, n, o), Row(w, p, m, u), Spliced(w, p, w2, p2, q, o, k, u, l)
  PROVE  Row(w2, p2, k + l, q)
<1>1. ASSUME NEW b \in Buffers, w2[b] = q PROVE p2[b] \in 1 .. k + l
  <2>1. p[b] \in Nat /\ p2[b] \in Nat
    OBVIOUS
  <2> QED BY <1>1, <2>1 DEF Spliced
<1>2. ASSUME NEW i \in 1 .. k + l PROVE \E b \in Buffers : w2[b] = q /\ p2[b] = i
  <2>1. CASE i <= k
    <3>1. i \in 1 .. n /\ i \in 1 .. k
      BY <2>1
    <3>2. PICK b \in Buffers : w[b] = o /\ p[b] = i
      BY <3>1 DEF Row
    <3>3. w2[b] = q
      BY <3>1, <3>2 DEF Spliced
    <3>4. p2[b] = i
      BY <3>2, <3>3 DEF Spliced
    <3> QED BY <3>3, <3>4
  <2>2. CASE i > k
    <3>1. i - k \in 1 .. m /\ i - k \in 1 .. l
      BY <2>2
    <3>2. PICK b \in Buffers : w[b] = u /\ p[b] = i - k
      BY <3>1 DEF Row
    <3>3. w2[b] = q
      BY <3>1, <3>2 DEF Spliced
    <3>4. p2[b] = i
      BY <3>2, <3>3 DEF Spliced
    <3> QED BY <3>3, <3>4
  <2> QED BY <2>1, <2>2
<1>3. ASSUME NEW b \in Buffers, NEW d \in Buffers, w2[b] = q, w2[d] = q, p2[b] = p2[d]
      PROVE  b = d
  <2>1. p[b] \in Nat /\ p[d] \in Nat
    OBVIOUS
  <2>2. w[b] = w[d] /\ p[b] = p[d] /\ w[b] \in {o, u}
    BY <1>3, <2>1 DEF Spliced
  <2> QED BY <2>2 DEF Row
<1> QED BY <1>1, <1>2, <1>3 DEF Row

(* The link of the last of o that is taken leads to u. *)
Relinked(w, p, o, k, u, l, link, link2) ==
  \A b \in Buffers :
    /\ w[b] = o /\ p[b] < k => link2[b] = link[b]
    /\ w[b] = u /\ p[b] < l => link2[b] = link[b]
    /\ w[b] = o /\ p[b] = k => Starts(w, p, l, u, link2[b])
    /\ w[b] = u /\ p[b] = l => link2[b] = NoBuffer

LEMMA SplicedTied ==
  ASSUME NEW w, NEW p \in [Buffers -> Nat], NEW w2, NEW p2 \in [Buffers -> Nat],
         NEW q, NEW o, NEW k \in Nat, NEW u, NEW l \in Nat,
         NEW n, NEW m, o # u, NEW s \in Nat, s = k + l, NEW link, NEW link2,
         Tied(w, p, n, o, link), Tied(w, p, m, u, link), Spliced(w, p, w2, p2, q, o, k, u, l),
         Relinked(w, p, o, k, u, l, link, link2)
  PROVE  Tied(w2, p2, s, q, link2)
<1>1. ASSUME NEW b \in Buffers, w2[b] = q, p2[b] = s PROVE link2[b] = NoBuffer
  <2>1. p[b] \in Nat
    OBVIOUS
  <2>2. CASE w[b] = o
    <3>1. p[b] \in 1 .. k /\ p2[b] = p[b]
      BY <2>2, <1>1 DEF Spliced
    <3>2. l = 0 /\ p[b] = k
      BY <3>1, <2>1, <1>1
    <3> QED BY <2>2, <3>2 DEF Relinked, Starts
  <2>3. CASE w[b] = u
    <3>1. p[b] \in 1 .. l /\ p2[b] = p[b] + k
      BY <2>3, <1>1 DEF Spliced
    <3>2. p[b] = l
      BY <3>1, <2>1, <1>1
    <3> QED BY <2>3, <3>2 DEF Relinked
  <2> QED BY <2>2, <2>3, <1>1 DEF Spliced
<1>2. ASSUME NEW b \in Buffers, NEW d \in Buffers, w2[b] = q, w2[d] = q, p2[d] = p2[b] + 1
      PROVE  link2[b] = d
  <2>1. p[b] \in Nat /\ p[d] \in Nat
    OBVIOUS
  <2>2. CASE w[b] = o /\ w[d] = o
    <3>1. p2[b] = p[b] /\ p[d] \in 1 .. k /\ p2[d] = p[d]
      BY <2>2, <1>2 DEF Spliced
    <3>2. p[d] = p[b] + 1 /\ p[b] < k
      BY <3>1, <2>1, <1>2
    <3> QED BY <2>2, <3>2 DEF Relinked, Tied
  <2>3. CASE w[b] = u /\ w[d] = u
    <3>1. p2[b] = p[b] + k /\ p[d] \in 1 .. l /\ p2[d] = p[d] + k
      BY <2>3, <1>2 DEF Spliced
    <3>2. p[d] = p[b] + 1 /\ p[b] < l
      BY <3>1, <2>1, <1>2
    <3> QED BY <2>3, <3>2 DEF Relinked, Tied
  <2>4. CASE w[b] = o /\ w[d] = u
    <3>1. p[b] \in 1 .. k /\ p2[b] = p[b] /\ p[d] \in 1 .. l /\ p2[d] = p[d] + k
      BY <2>4, <1>2 DEF Spliced
    <3>2. p[d] = 1 /\ p[b] = k
      BY <3>1, <2>1, <1>2
    <3> QED BY <2>4, <3>2 DEF Relinked, Starts
  <2>5. CASE w[b] = u /\ w[d] = o
    <3>1. p[d] \in 1 .. k /\ p2[d] = p[d] /\ p[b] \in 1 .. l /\ p2[b] = p[b] + k
      BY <2>5, <1>2 DEF Spliced
    <3> QED BY <3>1, <2>1, <1>2
  <2> QED BY <2>2, <2>3, <2>4, <2>5, <1>2 DEF Spliced
<1> QED BY <1>1, <1>2 DEF Tied

(* What was of o and in places a + 1 .. a + k is now the row of q. *)
Slice(w, p, w2, p2, q, o, a, k) ==
  \A b \in Buffers :
    /\ w2[b] = q <=> w[b] = o /\ a < p[b] /\ p[b] <= a + k
    /\ w2[b] = q => p2[b] = p[b] - a

LEMMA SliceRow ==
  ASSUME NEW w, NEW p \in [Buffers -> Nat], NEW w2, NEW p2 \in [Buffers -> Nat],
         NEW q, NEW o, NEW a \in Nat, NEW k \in Nat, NEW n \in Nat, a + k <= n,
         Row(w, p, n, o), Slice(w, p, w2, p2, q, o, a, k)
  PROVE  Row(w2, p2, k, q)
<1>1. ASSUME NEW b \in Buffers, w2[b] = q PROVE p2[b] \in 1 .. k
  BY <1>1 DEF Slice
<1>2. ASSUME NEW i \in 1 .. k PROVE \E b \in Buffers : w2[b] = q /\ p2[b] = i
  <2>1. i + a \in 1 .. n
    OBVIOUS
  <2>2. PICK b \in Buffers : w[b] = o /\ p[b] = i + a
    BY <2>1 DEF Row
  <2>3. w2[b] = q /\ p2[b] = i
    BY <2>2 DEF Slice
  <2> QED BY <2>3
<1>3. ASSUME NEW b \in Buffers, NEW d \in Buffers, w2[b] = q, w2[d] = q, p2[b] = p2[d]
      PROVE  b = d
  <2>1. p[b] \in Nat /\ p[d] \in Nat
    OBVIOUS
  <2>2. w[b] = o /\ w[d] = o /\ p[b] = p[d]
    BY <1>3, <2>1 DEF Slice
  <2> QED BY <2>2 DEF Row
<1> QED BY <1>1, <1>2, <1>3 DEF Row

LEMMA SliceTied ==
  ASSUME NEW w, NEW p \in [Buffers -> Nat], NEW w2, NEW p2 \in [Buffers -> Nat],
         NEW q, NEW o, NEW a \in Nat, NEW k \in Nat, NEW n \in Nat, NEW link, NEW link2,
         Tied(w, p, n, o, link), Slice(w, p, w2, p2, q, o, a, k),
         \A b \in Buffers : w[b] = o /\ a < p[b] /\ p[b] < a + k => link2[b] = link[b],
         \A b \in Buffers : w[b] = o /\ a < p[b] /\ p[b] = a + k => link2[b] = NoBuffer
  PROVE  Tied(w2, p2, k, q, link2)
<1>1. ASSUME NEW b \in Buffers, w2[b] = q, p2[b] = k PROVE link2[b] = NoBuffer
  <2>1. w[b] = o /\ a < p[b] /\ p2[b] = p[b] - a /\ p[b] \in Nat
    BY <1>1 DEF Slice
  <2>2. p[b] = a + k
    BY <2>1, <1>1
  <2> QED BY <2>1, <2>2
<1>2. ASSUME NEW b \in Buffers, NEW d \in Buffers, w2[b] = q, w2[d] = q, p2[d] = p2[b] + 1
      PROVE  link2[b] = d
  <2>1. /\ w[b] = o /\ a < p[b] /\ p2[b] = p[b] - a /\ p[b] \in Nat
        /\ w[d] = o /\ p[d] <= a + k /\ p2[d] = p[d] - a /\ p[d] \in Nat
    BY <1>2 DEF Slice
  <2>2. p[d] = p[b] + 1 /\ p[b] < a + k
    BY <2>1, <1>2
  <2> QED BY <2>1, <2>2 DEF Tied
<1> QED BY <1>1, <1>2 DEF Tied

(* A row that nothing was moved to or from, and whose links stay. *)
SameRow(w, p, w2, p2, o) ==
  \A b \in Buffers : (w2[b] = o <=> w[b] = o) /\ (w[b] = o => p2[b] = p[b])

LEMMA SameRowKept ==
  ASSUME NEW w, NEW p, NEW w2, NEW p2, NEW n, NEW o, SameRow(w, p, w2, p2, o)
  PROVE  /\ Row(w, p, n, o) => Row(w2, p2, n, o)
         /\ \A head : Starts(w, p, n, o, head) => Starts(w2, p2, n, o, head)
<1>1. ASSUME Row(w, p, n, o) PROVE Row(w2, p2, n, o)
  <2>1. \A b \in Buffers : w2[b] = o => p2[b] \in 1 .. n
    BY <1>1 DEF Row, SameRow
  <2>2. \A i \in 1 .. n : \E b \in Buffers : w2[b] = o /\ p2[b] = i
    BY <1>1 DEF Row, SameRow
  <2>3. \A b, c \in Buffers : w2[b] = o /\ w2[c] = o /\ p2[b] = p2[c] => b = c
    BY <1>1 DEF Row, SameRow
  <2> QED BY <2>1, <2>2, <2>3 DEF Row
<1>2. ASSUME NEW head, Starts(w, p, n, o, head) PROVE Starts(w2, p2, n, o, head)
  BY <1>2 DEF Starts, SameRow
<1> QED BY <1>1, <1>2

LEMMA SameTied ==
  ASSUME NEW w, NEW p, NEW w2, NEW p2, NEW n, NEW o, SameRow(w, p, w2, p2, o),
         NEW link, NEW link2, \A b \in Buffers : w[b] = o => link2[b] = link[b],
         Tied(w, p, n, o, link)
  PROVE  Tied(w2, p2, n, o, link2)
<1>1. \A b \in Buffers : w2[b] = o /\ p2[b] = n => link2[b] = NoBuffer
  BY DEF Tied, SameRow
<1>2. \A b, c \in Buffers : w2[b] = o /\ w2[c] = o /\ p2[c] = p2[b] + 1 => link2[b] = c
  BY DEF Tied, SameRow
<1> QED BY <1>1, <1>2 DEF Tied

LEMMA EmptyRow ==
  ASSUME NEW w2, NEW p2, NEW o, \A b \in Buffers : w2[b] # o
  PROVE  /\ Row(w2, p2, 0, o) /\ \A link : Tied(w2, p2, 0, o, link)
         /\ Starts(w2, p2, 0, o, NoBuffer)
BY DEF Row, Tied, Starts

LEMMA EmptyRowHas ==
  ASSUME NEW w, NEW p, NEW o, Row(w, p, 0, o)
  PROVE  \A b \in Buffers : w[b] # o
BY DEF Row

-----------------------------------------------------------------------------
PoolPcs == {"idle", "short", "lock", "peek", "steal", "new", "put", "has"}
Hand == [pc : PoolPcs, head : Buffers \cup {NoBuffer}, tail : Buffers \cup {NoBuffer}, want : Nat]

PoolTypes ==
  /\ batch_next \in Links
  /\ acquire_head \in Buffers \cup {NoBuffer} /\ release_head \in Buffers \cup {NoBuffer}
  /\ made \subseteq Buffers /\ user \in [Users -> Hand]

(* A thread has a row of its own: a batch that ends at its tail, one buffer of
   the ReuseAllocator, whose link is old, or what it stole and will put back.
   One that ran short has the lock and the ends of the acquire list. *)
HandGood(w, p, n, t) ==
  /\ user[t].pc \notin {"put", "has"} => n[t] = 0
  /\ user[t].pc \in {"put", "has"} => n[t] >= 1 /\ Starts(w, p, n[t], t, user[t].head)
  /\ user[t].pc = "put" => Tied(w, p, n[t], t, batch_next)
  /\ user[t].pc = "has" /\ pool = "fixed" =>
       /\ Tied(w, p, n[t], t, batch_next)
       /\ user[t].tail \in Buffers /\ w[user[t].tail] = t /\ p[user[t].tail] = n[t]
  /\ user[t].pc = "has" /\ pool # "fixed" =>
       pool = "reuse" /\ n[t] = 1 /\ user[t].tail = user[t].head
  /\ user[t].pc = "short" =>
       /\ pool = "fixed" /\ lockedBy = t /\ user[t].head = acquire_head /\ user[t].want >= 1
       /\ n[Acq] = 0 => user[t].tail = NoBuffer
       /\ n[Acq] > 0 => /\ user[t].tail \in Buffers /\ w[user[t].tail] = Acq
                        /\ p[user[t].tail] = n[Acq]
  /\ user[t].pc \in {"lock", "peek", "steal", "new", "put"} => pool = "reuse"

ListGood(w, p, n, o, head) ==
  Row(w, p, n, o) /\ Tied(w, p, n, o, batch_next) /\ Starts(w, p, n, o, head)

Layout(w, p, n) ==
  /\ w \in [Buffers -> Owners \cup {Lost}] /\ p \in [Buffers -> Nat] /\ n \in [Owners -> Nat]

PoolShape(w, p, n) ==
  /\ Layout(w, p, n)
  /\ ListGood(w, p, n[Acq], Acq, acquire_head) /\ ListGood(w, p, n[Rel], Rel, release_head)
  /\ \A t \in Users : Row(w, p, n[t], t) /\ HandGood(w, p, n, t)
  /\ \A b \in Buffers : w[b] # Lost => b \in made
  /\ pool = "fixed" => \A b \in Buffers : w[b] # Lost

PoolInv == PoolTypes /\ \E w, p, n : PoolShape(w, p, n)

(* What the other threads have is left alone by the step of a thread t. *)
OthersAlone(w, p, n, w2, p2, n2, t) ==
  \A v \in Users \ {t} :
    /\ user'[v] = user[v] /\ n2[v] = n[v] /\ SameRow(w, p, w2, p2, v)
    /\ \A b \in Buffers : w[b] = v => batch_next'[b] = batch_next[b]
    /\ user[v].pc = "short" =>
         /\ lockedBy' = lockedBy /\ acquire_head' = acquire_head
         /\ n2[Acq] = n[Acq] /\ SameRow(w, p, w2, p2, Acq)

LEMMA ShapeStep ==
  ASSUME PoolTypes, PoolTypes', pool' = pool, NEW w, NEW p, NEW n, PoolShape(w, p, n),
         NEW w2, NEW p2, NEW n2, Layout(w2, p2, n2), NEW t \in Users,
         OthersAlone(w, p, n, w2, p2, n2, t),
         ListGood(w2, p2, n2[Acq], Acq, acquire_head)',
         ListGood(w2, p2, n2[Rel], Rel, release_head)',
         Row(w2, p2, n2[t], t), HandGood(w2, p2, n2, t)',
         \A b \in Buffers : w2[b] # Lost => b \in made',
         pool = "fixed" => \A b \in Buffers : w2[b] # Lost
  PROVE  PoolInv'
<1>1. ASSUME NEW v \in Users PROVE Row(w2, p2, n2[v], v) /\ HandGood(w2, p2, n2, v)'
  <2>1. CASE v = t
    BY <2>1
  <2>2. CASE v # t
    <3>1. /\ user'[v] = user[v] /\ n2[v] = n[v] /\ SameRow(w, p, w2, p2, v)
          /\ \A b \in Buffers : w[b] = v => batch_next'[b] = batch_next[b]
          /\ user[v].pc = "short" =>
               /\ lockedBy' = lockedBy /\ acquire_head' = acquire_head
               /\ n2[Acq] = n[Acq] /\ SameRow(w, p, w2, p2, Acq)
      BY <2>2 DEF OthersAlone
    <3>2. Row(w, p, n[v], v) /\ HandGood(w, p, n, v)
      BY DEF PoolShape
    <3>3. Row(w2, p2, n2[v], v)
      BY <3>1, <3>2, SameRowKept
    <3>4. Tied(w, p, n[v], v, batch_next) => Tied(w2, p2, n2[v], v, batch_next')
      BY <3>1, SameTied
    <3>5. Starts(w, p, n[v], v, user[v].head) => Starts(w2, p2, n2[v], v, user'[v].head)
      <4>1. Starts(w, p, n[v], v, user[v].head) => Starts(w2, p2, n[v], v, user[v].head)
        BY <3>1 DEF Starts, SameRow
      <4> QED BY <4>1, <3>1
    <3>6. /\ user'[v].pc \notin {"put", "has"} => n2[v] = 0
          /\ user'[v].pc \in {"put", "has"} => n2[v] >= 1 /\ Starts(w2, p2, n2[v], v, user'[v].head)
          /\ user'[v].pc = "put" => Tied(w2, p2, n2[v], v, batch_next')
      BY <3>1, <3>2, <3>4, <3>5 DEF HandGood
    <3>7. user'[v].pc = "has" /\ pool' = "fixed" =>
            /\ Tied(w2, p2, n2[v], v, batch_next')
            /\ user'[v].tail \in Buffers /\ w2[user'[v].tail] = v /\ p2[user'[v].tail] = n2[v]
      BY <3>1, <3>2, <3>4 DEF HandGood, SameRow
    <3>8. user'[v].pc = "has" /\ pool' # "fixed" =>
            pool' = "reuse" /\ n2[v] = 1 /\ user'[v].tail = user'[v].head
      BY <3>1, <3>2 DEF HandGood
    <3>9. user'[v].pc = "short" =>
            /\ pool' = "fixed" /\ lockedBy' = v /\ user'[v].head = acquire_head' /\ user'[v].want >= 1
            /\ n2[Acq] = 0 => user'[v].tail = NoBuffer
            /\ n2[Acq] > 0 => /\ user'[v].tail \in Buffers /\ w2[user'[v].tail] = Acq
                              /\ p2[user'[v].tail] = n2[Acq]
      BY <3>1, <3>2 DEF HandGood, SameRow
    <3>10. user'[v].pc \in {"lock", "peek", "steal", "new", "put"} => pool' = "reuse"
      BY <3>1, <3>2 DEF HandGood
    <3> QED BY <3>3, <3>6, <3>7, <3>8, <3>9, <3>10 DEF HandGood
  <2> QED BY <2>1, <2>2
<1>2. PoolShape(w2, p2, n2)'
  BY <1>1 DEF PoolShape, Layout
<1> QED BY <1>2 DEF PoolInv

(* The steps that move no buffer. *)
LEMMA StayStep ==
  ASSUME PoolTypes, PoolTypes', pool' = pool, NEW w, NEW p, NEW n, PoolShape(w, p, n),
         NEW t \in Users, \A v \in Users \ {t} : user'[v] = user[v],
         UNCHANGED <<batch_next, acquire_head, release_head, made>>,
         \A v \in Users \ {t} : user[v].pc = "short" => lockedBy' = lockedBy,
         HandGood(w, p, n, t)'
  PROVE  PoolInv'
<1>1. OthersAlone(w, p, n, w, p, n, t)
  BY DEF OthersAlone, SameRow
<1>2. /\ Layout(w, p, n) /\ Row(w, p, n[t], t)
      /\ ListGood(w, p, n[Acq], Acq, acquire_head) /\ ListGood(w, p, n[Rel], Rel, release_head)
      /\ \A b \in Buffers : w[b] # Lost => b \in made
      /\ pool = "fixed" => \A b \in Buffers : w[b] # Lost
  BY DEF PoolShape
<1>3. /\ ListGood(w, p, n[Acq], Acq, acquire_head)' /\ ListGood(w, p, n[Rel], Rel, release_head)'
      /\ \A b \in Buffers : w[b] # Lost => b \in made'
  BY <1>2 DEF ListGood
<1> QED BY <1>1, <1>2, <1>3, ShapeStep

LEMMA GoesFacts ==
  ASSUME user \in [Users -> Hand], NEW t \in Users, NEW pc \in PoolPcs, Goes(t, pc)
  PROVE  /\ user' \in [Users -> Hand] /\ user'[t].pc = pc
         /\ user'[t].head = user[t].head /\ user'[t].tail = user[t].tail
         /\ user'[t].want = user[t].want /\ \A v \in Users \ {t} : user'[v] = user[v]
<1> DEFINE h == [user[t] EXCEPT !.pc = pc]
<1>1. user[t] \in Hand
  OBVIOUS
<1>2. h \in Hand /\ h.pc = pc /\ h.head = user[t].head /\ h.tail = user[t].tail /\ h.want = user[t].want
  BY <1>1 DEF Hand
<1>3. user' = [user EXCEPT ![t] = h]
  BY DEF Goes
<1> HIDE DEF h
<1>4. user' \in [Users -> Hand] /\ user'[t] = h /\ \A v \in Users \ {t} : user'[v] = user[v]
  BY <1>2, <1>3
<1> QED BY <1>2, <1>4

LEMMA HoldsFacts ==
  ASSUME user \in [Users -> Hand], NEW t \in Users, NEW h \in Buffers, NEW l \in Buffers,
         Holds(t, h, l)
  PROVE  /\ user' \in [Users -> Hand] /\ user'[t].pc = "has"
         /\ user'[t].head = h /\ user'[t].tail = l
         /\ \A v \in Users \ {t} : user'[v] = user[v]
<1> DEFINE r == [pc |-> "has", head |-> h, tail |-> l, want |-> 0]
<1>1. r \in Hand /\ r.pc = "has" /\ r.head = h /\ r.tail = l
  BY DEF Hand, PoolPcs
<1>2. user' = [user EXCEPT ![t] = r]
  BY DEF Holds
<1> HIDE DEF r
<1>3. user' \in [Users -> Hand] /\ user'[t] = r /\ \A v \in Users \ {t} : user'[v] = user[v]
  BY <1>1, <1>2
<1> QED BY <1>1, <1>3

LEMMA PoolInitially == PoolInit => PoolInv
<1> SUFFICES ASSUME PoolInit PROVE PoolInv
  OBVIOUS
<1>0. /\ BufferCount \in Nat /\ Buffers = 1 .. BufferCount /\ NoBuffer \notin Buffers
      /\ BufferCount >= 1 /\ 1 \in Buffers
  <2>1. 1 \in Buffers
    BY PoolAssumption
  <2> QED BY <2>1, BufferFacts
<1>1. Free \in Hand /\ Free.pc = "idle"
  BY DEF Free, Hand, PoolPcs
<1>2. user \in [Users -> Hand] /\ \A t \in Users : user[t].pc = "idle"
  BY <1>1 DEF PoolInit
<1>3. release_head = NoBuffer
  BY DEF PoolInit
<1>4. CASE pool = "fixed"
  <2>1. /\ batch_next = [b \in Buffers |-> IF b + 1 \in Buffers THEN b + 1 ELSE NoBuffer]
        /\ acquire_head = 1 /\ made = Buffers
    BY <1>4 DEF PoolInit
  <2>2. PoolTypes
    BY <2>1, <1>0, <1>2, <1>3 DEF PoolTypes, Links
  <2> DEFINE w == [b \in Buffers |-> Acq]
             p == [b \in Buffers |-> b]
             n == [o \in Owners |-> IF o = Acq THEN BufferCount ELSE 0]
  <2>3. Acq \in Owners /\ Rel \in Owners /\ Users \subseteq Owners
    BY DEF Owners
  <2>4. Layout(w, p, n) /\ n[Acq] = BufferCount /\ n[Rel] = 0 /\ \A t \in Users : n[t] = 0
    BY <2>3, <1>0, OwnersDiffer DEF Layout
  <2>5. \A b \in Buffers : w[b] = Acq /\ p[b] = b
    OBVIOUS
  <2> HIDE DEF w, p, n
  <2>6. ListGood(w, p, n[Acq], Acq, acquire_head)
    <3>1. Row(w, p, BufferCount, Acq)
      BY <2>5, <1>0 DEF Row
    <3>2. Tied(w, p, BufferCount, Acq, batch_next)
      <4>1. \A b \in Buffers : b = BufferCount => b + 1 \notin Buffers
        BY <1>0
      <4> QED BY <4>1, <2>1, <2>5, <1>0 DEF Tied
    <3>3. Starts(w, p, BufferCount, Acq, acquire_head)
      BY <2>1, <2>5, <1>0 DEF Starts
    <3> QED BY <3>1, <3>2, <3>3, <2>4 DEF ListGood
  <2>7. ASSUME NEW o \in Owners, o # Acq
        PROVE  Row(w, p, 0, o) /\ ListGood(w, p, 0, o, NoBuffer)
    BY <2>5, <2>7, EmptyRow DEF ListGood
  <2>8. ASSUME NEW t \in Users PROVE Row(w, p, n[t], t) /\ HandGood(w, p, n, t)
    BY <2>3, <2>4, <2>7, <1>2, OwnersDiffer DEF HandGood
  <2>9. \A b \in Buffers : w[b] # Lost /\ b \in made
    BY <2>1, <2>3, <2>5, OwnersDiffer
  <2>10. PoolShape(w, p, n)
    BY <2>3, <2>4, <2>6, <2>7, <2>8, <2>9, <1>3, OwnersDiffer DEF PoolShape
  <2> QED BY <2>2, <2>10 DEF PoolInv
<1>5. CASE pool # "fixed"
  <2>1. batch_next = [b \in Buffers |-> NoBuffer] /\ acquire_head = NoBuffer /\ made = {}
    BY <1>5 DEF PoolInit
  <2>2. PoolTypes
    BY <2>1, <1>0, <1>2, <1>3 DEF PoolTypes, Links
  <2> DEFINE w == [b \in Buffers |-> Lost]
             p == [b \in Buffers |-> 0]
             n == [o \in Owners |-> 0]
  <2>3. Acq \in Owners /\ Rel \in Owners /\ Users \subseteq Owners
    BY DEF Owners
  <2>4. Layout(w, p, n) /\ n[Acq] = 0 /\ n[Rel] = 0 /\ \A t \in Users : n[t] = 0
    BY <2>3 DEF Layout
  <2>5. \A b \in Buffers : w[b] = Lost
    OBVIOUS
  <2> HIDE DEF w, p, n
  <2>6. ASSUME NEW o \in Owners
        PROVE  Row(w, p, 0, o) /\ ListGood(w, p, 0, o, NoBuffer)
    BY <2>5, EmptyRow, OwnersDiffer DEF ListGood
  <2>7. ASSUME NEW t \in Users PROVE Row(w, p, n[t], t) /\ HandGood(w, p, n, t)
    BY <2>3, <2>4, <2>6, <1>2 DEF HandGood
  <2>8. PoolShape(w, p, n)
    BY <2>1, <2>3, <2>4, <2>5, <2>6, <2>7, <1>3, <1>5 DEF PoolShape
  <2> QED BY <2>2, <2>8 DEF PoolInv
<1> QED BY <1>4, <1>5

-----------------------------------------------------------------------------
LEMMA ShapeFacts ==
  ASSUME PoolTypes, NEW w, NEW p, NEW n, PoolShape(w, p, n)
  PROVE  /\ w \in [Buffers -> Owners \cup {Lost}] /\ p \in [Buffers -> Nat] /\ n \in [Owners -> Nat]
         /\ Acq \in Owners /\ Rel \in Owners /\ Users \subseteq Owners
         /\ n[Acq] \in Nat /\ n[Rel] \in Nat
         /\ ListGood(w, p, n[Acq], Acq, acquire_head) /\ ListGood(w, p, n[Rel], Rel, release_head)
         /\ Row(w, p, n[Acq], Acq) /\ Row(w, p, n[Rel], Rel)
         /\ Tied(w, p, n[Acq], Acq, batch_next) /\ Tied(w, p, n[Rel], Rel, batch_next)
         /\ Starts(w, p, n[Acq], Acq, acquire_head) /\ Starts(w, p, n[Rel], Rel, release_head)
         /\ \A b \in Buffers : w[b] # Lost => b \in made
         /\ pool = "fixed" => \A b \in Buffers : w[b] # Lost
         /\ \A b \in Buffers : p[b] \in Nat
BY DEF PoolShape, Layout, ListGood, Owners

LEMMA HandFacts ==
  ASSUME PoolTypes, NEW w, NEW p, NEW n, PoolShape(w, p, n), NEW t \in Users
  PROVE  /\ n[t] \in Nat /\ Row(w, p, n[t], t) /\ HandGood(w, p, n, t) /\ user[t] \in Hand
         /\ t # Acq /\ t # Rel /\ t \in Owners
BY OwnersDiffer DEF PoolShape, Layout, Owners, PoolTypes

(* The head of a list is its first, if it has one. *)
LEMMA HeadIsFirst ==
  ASSUME NEW w, NEW p, NEW n \in Nat, NEW o, NEW head, Row(w, p, n, o), Starts(w, p, n, o, head)
  PROVE  /\ head = NoBuffer <=> n = 0
         /\ n > 0 => head \in Buffers /\ w[head] = o /\ p[head] = 1
<1>1. CASE n = 0
  BY <1>1 DEF Starts
<1>2. CASE n > 0
  <2>1. 1 \in 1 .. n
    BY <1>2
  <2>2. PICK b \in Buffers : w[b] = o /\ p[b] = 1
    BY <2>1 DEF Row
  <2>3. head = b /\ b # NoBuffer
    BY <2>2, BufferFacts DEF Starts
  <2> QED BY <2>2, <2>3, <1>2
<1> QED BY <1>1, <1>2

(* AcquireBatch() *)
LEMMA TakeAcquiredKeeps ==
  ASSUME PoolInv, NEW t \in Users, NEW many \in BatchSizes, AcquireBatch(t, many),
         TakeAcquired(t, many)
  PROVE  PoolInv'
<1>1. PoolTypes
  BY DEF PoolInv
<1>2. PICK w, p, n : PoolShape(w, p, n)
  BY DEF PoolInv
<1>3. many \in Nat /\ many >= 1
  BY PoolAssumption
<1>4. /\ pool = "fixed" /\ user[t].pc = "idle" /\ lockedBy = Nobody
      /\ UNCHANGED <<pool, release_head, made>> /\ UNCHANGED lockedBy
  BY DEF AcquireBatch, TakeAcquired, At
<1> USE <1>1, <1>2
<1>5. /\ w \in [Buffers -> Owners \cup {Lost}] /\ p \in [Buffers -> Nat] /\ n \in [Owners -> Nat]
      /\ Acq \in Owners /\ Rel \in Owners /\ Users \subseteq Owners
      /\ n[Acq] \in Nat /\ n[Rel] \in Nat
      /\ Row(w, p, n[Acq], Acq) /\ Row(w, p, n[Rel], Rel)
      /\ Tied(w, p, n[Acq], Acq, batch_next) /\ Tied(w, p, n[Rel], Rel, batch_next)
      /\ Starts(w, p, n[Acq], Acq, acquire_head) /\ Starts(w, p, n[Rel], Rel, release_head)
      /\ \A b \in Buffers : w[b] # Lost => b \in made
      /\ \A b \in Buffers : w[b] # Lost
      /\ \A b \in Buffers : p[b] \in Nat
  BY <1>4, ShapeFacts
<1>6. n[t] = 0 /\ Row(w, p, 0, t) /\ t # Acq /\ t # Rel /\ t \in Owners
  BY <1>4, HandFacts DEF HandGood
<1>7. batch_next \in Links /\ user \in [Users -> Hand]
  BY DEF PoolTypes
<1>8. PICK last : last = Chain(batch_next, acquire_head)[many - 1]
  OBVIOUS
<1>9. /\ n[Acq] >= many /\ acquire_head' = batch_next[last]
      /\ batch_next' = [batch_next EXCEPT ![last] = NoBuffer]
      /\ Holds(t, acquire_head, last)
  BY <1>5, <1>7, <1>8, ChainFacts DEF TakeAcquired
<1>10. last \in Buffers /\ w[last] = Acq /\ p[last] = many
  <2>1. many - 1 \in 0 .. n[Acq] - 1 /\ (many - 1) + 1 = many
    BY <1>3, <1>5, <1>9
  <2> QED BY <2>1, <1>5, <1>7, <1>8, ChainFacts
<1>11. acquire_head \in Buffers /\ w[acquire_head] = Acq /\ p[acquire_head] = 1
  BY <1>3, <1>5, <1>9, HeadIsFirst
<1>12. /\ user' \in [Users -> Hand] /\ user'[t].pc = "has"
       /\ user'[t].head = acquire_head /\ user'[t].tail = last
       /\ \A v \in Users \ {t} : user'[v] = user[v]
  BY <1>7, <1>9, <1>10, <1>11, HoldsFacts
<1>13. /\ batch_next' \in Links /\ acquire_head' \in Buffers \cup {NoBuffer}
       /\ batch_next'[last] = NoBuffer
       /\ \A b \in Buffers : b # last => batch_next'[b] = batch_next[b]
  BY <1>7, <1>9, <1>10 DEF Links
<1>14. PoolTypes'
  BY <1>4, <1>12, <1>13 DEF PoolTypes
<1>15. PICK w2 : w2 = [b \in Buffers |-> IF w[b] = Acq /\ p[b] <= many THEN t ELSE w[b]]
  OBVIOUS
<1>16. PICK p2 : p2 = [b \in Buffers |-> IF w[b] = Acq /\ ~(p[b] <= many) THEN p[b] - many ELSE p[b]]
  OBVIOUS
<1>17. PICK n2 : n2 = [n EXCEPT ![Acq] = n[Acq] - many, ![t] = many]
  OBVIOUS
<1>18. /\ Layout(w2, p2, n2) /\ n2[Acq] = n[Acq] - many /\ n2[t] = many /\ n2[Rel] = n[Rel]
       /\ \A v \in Users \ {t} : n2[v] = n[v]
  <2>1. w2 \in [Buffers -> Owners \cup {Lost}]
    BY <1>5, <1>6, <1>15
  <2>2. p2 \in [Buffers -> Nat]
    BY <1>3, <1>5, <1>16
  <2>3. n[Acq] - many \in Nat
    BY <1>3, <1>5, <1>9
  <2>4. /\ n2 \in [Owners -> Nat] /\ n2[Acq] = n[Acq] - many /\ n2[t] = many /\ n2[Rel] = n[Rel]
        /\ \A v \in Users \ {t} : n2[v] = n[v]
    BY <2>3, <1>3, <1>5, <1>6, <1>17, OwnersDiffer
  <2> QED BY <2>1, <2>2, <2>4 DEF Layout
<1>19. ASSUME NEW v, v # t, v # Acq PROVE SameRow(w, p, w2, p2, v)
  BY <1>5, <1>15, <1>16, <1>19 DEF SameRow
<1>20. OthersAlone(w, p, n, w2, p2, n2, t)
  <2>1. ASSUME NEW v \in Users \ {t} PROVE user[v].pc # "short"
    BY <1>4, HandFacts, PoolAssumption DEF HandGood
  <2> QED BY <2>1, <1>10, <1>12, <1>13, <1>18, <1>19, OwnersDiffer DEF OthersAlone
<1>21. \A b \in Buffers : w[b] # t
  BY <1>6, EmptyRowHas
<1>22. Slice(w, p, w2, p2, t, Acq, 0, many)
  <2>1. ASSUME NEW b \in Buffers
        PROVE  /\ w2[b] = t <=> w[b] = Acq /\ 0 < p[b] /\ p[b] <= 0 + many
               /\ w2[b] = t => p2[b] = p[b] - 0
    <3>1. w[b] = Acq => p[b] \in 1 .. n[Acq]
      BY <1>5 DEF Row
    <3> QED BY <3>1, <1>3, <1>5, <1>6, <1>15, <1>16, <1>21
  <2> QED BY <2>1 DEF Slice
<1>23. Slice(w, p, w2, p2, Acq, Acq, many, n2[Acq])
  <2>1. ASSUME NEW b \in Buffers
        PROVE  /\ w2[b] = Acq <=> w[b] = Acq /\ many < p[b] /\ p[b] <= many + n2[Acq]
               /\ w2[b] = Acq => p2[b] = p[b] - many
    <3>1. w[b] = Acq => p[b] \in 1 .. n[Acq]
      BY <1>5 DEF Row
    <3> QED BY <3>1, <1>3, <1>5, <1>6, <1>15, <1>16, <1>18
  <2> QED BY <2>1 DEF Slice
<1>24. n2[Acq] \in Nat /\ 0 + many <= n[Acq] /\ many + n2[Acq] = n[Acq] /\ n[Acq] <= n[Acq]
  BY <1>3, <1>5, <1>9, <1>18
<1>25. p2 \in [Buffers -> Nat]
  BY <1>18 DEF Layout
<1>26. Row(w2, p2, many, t) /\ Row(w2, p2, n2[Acq], Acq)
  BY <1>3, <1>5, <1>22, <1>23, <1>24, <1>25, SliceRow
<1>27. \A b \in Buffers : w[b] = Acq /\ p[b] = many => b = last
  BY <1>5, <1>10 DEF Row
<1>28. Tied(w2, p2, many, t, batch_next')
  <2>1. \A b \in Buffers : w[b] = Acq /\ 0 < p[b] /\ p[b] < 0 + many => batch_next'[b] = batch_next[b]
    BY <1>3, <1>5, <1>10, <1>13
  <2>2. \A b \in Buffers : w[b] = Acq /\ 0 < p[b] /\ p[b] = 0 + many => batch_next'[b] = NoBuffer
    BY <1>3, <1>13, <1>27
  <2> QED BY <2>1, <2>2, <1>3, <1>5, <1>22, <1>25, SliceTied
<1>29. Tied(w2, p2, n2[Acq], Acq, batch_next')
  <2>1. \A b \in Buffers : w[b] = Acq /\ many < p[b] => batch_next'[b] = batch_next[b]
    BY <1>3, <1>5, <1>10, <1>13
  <2>2. \A b \in Buffers : w[b] = Acq /\ many < p[b] /\ p[b] = many + n2[Acq]
                           => batch_next'[b] = NoBuffer
    BY <2>1, <1>5, <1>24 DEF Tied
  <2> QED BY <2>1, <2>2, <1>3, <1>5, <1>23, <1>24, <1>25, SliceTied
<1>30. Starts(w2, p2, many, t, acquire_head) /\ Starts(w2, p2, n2[Acq], Acq, acquire_head')
  <2>1. Starts(w2, p2, many, t, acquire_head)
    BY <1>3, <1>5, <1>15, <1>16, <1>21 DEF Starts
  <2>2. \A c \in Buffers : w2[c] = Acq /\ p2[c] = 1 => w[c] = Acq /\ p[c] = p[last] + 1
    BY <1>3, <1>5, <1>6, <1>10, <1>15, <1>16
  <2>3. p[last] + n2[Acq] = n[Acq]
    BY <1>3, <1>5, <1>10, <1>18
  <2>4. Starts(w2, p2, n2[Acq], Acq, batch_next[last])
    <3>1. n2[Acq] = 0 => batch_next[last] = NoBuffer
      BY <2>3, <1>5, <1>10, <1>24 DEF Tied
    <3>2. \A c \in Buffers : w2[c] = Acq /\ p2[c] = 1 => batch_next[last] = c
      BY <2>2, <1>5, <1>10 DEF Tied
    <3> QED BY <3>1, <3>2 DEF Starts
  <2> QED BY <2>1, <2>4, <1>9
<1>31. ListGood(w2, p2, n2[Acq], Acq, acquire_head)'
  BY <1>26, <1>29, <1>30 DEF ListGood
<1>32. ListGood(w2, p2, n2[Rel], Rel, release_head)'
  <2>1. SameRow(w, p, w2, p2, Rel)
    BY <1>6, <1>19, OwnersDiffer
  <2>2. \A b \in Buffers : w[b] = Rel => batch_next'[b] = batch_next[b]
    BY <1>10, <1>13, OwnersDiffer
  <2> QED BY <2>1, <2>2, <1>4, <1>5, <1>18, SameRowKept, SameTied DEF ListGood
<1>33. HandGood(w2, p2, n2, t)'
  <2>1. w2[last] = t /\ p2[last] = many
    BY <1>3, <1>10, <1>15, <1>16
  <2> QED BY <2>1, <1>3, <1>4, <1>10, <1>12, <1>18, <1>28, <1>30 DEF HandGood
<1>34. \A b \in Buffers : w2[b] # Lost /\ b \in made'
  BY <1>4, <1>5, <1>6, <1>15, OwnersDiffer
<1> QED BY <1>4, <1>14, <1>18, <1>20, <1>26, <1>31, <1>32, <1>33, <1>34, ShapeStep

(* The thread that ran short has the lock, so no other did. *)
LEMMA NobodyElseShort ==
  ASSUME PoolTypes, NEW w, NEW p, NEW n, PoolShape(w, p, n), NEW t \in Users,
         user[t].pc = "short" \/ lockedBy = Nobody \/ pool # "fixed"
  PROVE  \A v \in Users \ {t} : user[v].pc # "short"
<1> SUFFICES ASSUME NEW v \in Users \ {t}, user[v].pc = "short" PROVE FALSE
  OBVIOUS
<1>1. pool = "fixed" /\ lockedBy = v
  BY HandFacts DEF HandGood
<1>2. user[t].pc = "short" => lockedBy = t
  BY HandFacts DEF HandGood
<1> QED BY <1>1, <1>2, PoolAssumption

(* The lengths of the two lists and of one thread's row may change. *)
Lengths(n, t, a, r, k) ==
  [o \in Owners |-> IF o = Acq THEN a ELSE IF o = Rel THEN r ELSE IF o = t THEN k ELSE n[o]]

LEMMA RunOutKeeps ==
  ASSUME PoolInv, NEW t \in Users, NEW many \in BatchSizes, AcquireBatch(t, many),
         RunOut(t, many)
  PROVE  PoolInv'
<1>1. PoolTypes
  BY DEF PoolInv
<1>2. PICK w, p, n : PoolShape(w, p, n)
  BY DEF PoolInv
<1> USE <1>1, <1>2
<1>3. many \in Nat /\ many >= 1
  BY PoolAssumption
<1>4. /\ pool = "fixed" /\ user[t].pc = "idle" /\ lockedBy = Nobody /\ lockedBy' = t
      /\ UNCHANGED <<pool, release_head, made>> /\ UNCHANGED <<batch_next, acquire_head>>
  BY DEF AcquireBatch, RunOut, At
<1>5. /\ p \in [Buffers -> Nat] /\ n[Acq] \in Nat /\ Row(w, p, n[Acq], Acq)
      /\ Tied(w, p, n[Acq], Acq, batch_next) /\ Starts(w, p, n[Acq], Acq, acquire_head)
  BY ShapeFacts
<1>6. batch_next \in Links /\ user \in [Users -> Hand] /\ acquire_head \in Buffers \cup {NoBuffer}
  BY DEF PoolTypes
<1>7. PICK tail : tail = IF n[Acq] = 0 THEN NoBuffer ELSE Chain(batch_next, acquire_head)[n[Acq] - 1]
  OBVIOUS
<1>8. /\ n[Acq] < many
      /\ user' = [user EXCEPT ![t] = [pc |-> "short", head |-> acquire_head, want |-> many - n[Acq],
                                      tail |-> tail]]
  <2>1. Length(batch_next, acquire_head) = n[Acq]
    <3>1. n[Acq] \in Nat
      BY <1>5
    <3>2. batch_next \in Links
      BY <1>6
    <3> QED BY <3>1, <3>2, <1>5, ChainFacts, SMTT(30)
  <2> QED BY <2>1, <1>7 DEF RunOut
<1>9. n[Acq] > 0 => tail \in Buffers /\ w[tail] = Acq /\ p[tail] = n[Acq]
  <2>1. CASE n[Acq] > 0
    <3>1. n[Acq] - 1 \in 0 .. n[Acq] - 1 /\ (n[Acq] - 1) + 1 = n[Acq]
      BY <2>1, <1>5
    <3> QED BY <3>1, <2>1, <1>5, <1>6, <1>7, ChainFacts
  <2> QED BY <2>1
<1>10. tail \in Buffers \cup {NoBuffer} /\ (n[Acq] = 0 => tail = NoBuffer)
  BY <1>5, <1>7, <1>9
<1>11. many - n[Acq] \in Nat /\ many - n[Acq] >= 1
  BY <1>3, <1>5, <1>8
<1> DEFINE r == [pc |-> "short", head |-> acquire_head, want |-> many - n[Acq], tail |-> tail]
<1>12. /\ r \in Hand /\ r.pc = "short" /\ r.head = acquire_head /\ r.tail = tail /\ r.want >= 1
  BY <1>6, <1>10, <1>11 DEF Hand, PoolPcs
<1>13. user' = [user EXCEPT ![t] = r]
  BY <1>8
<1> HIDE DEF r
<1>14. /\ user' \in [Users -> Hand] /\ user'[t] = r
       /\ \A v \in Users \ {t} : user'[v] = user[v]
  BY <1>6, <1>12, <1>13
<1>15. PoolTypes'
  BY <1>4, <1>14 DEF PoolTypes
<1>16. n[t] = 0
  BY <1>4, HandFacts DEF HandGood
<1>17. HandGood(w, p, n, t)'
  BY <1>4, <1>9, <1>10, <1>12, <1>14, <1>16 DEF HandGood
<1>18. \A v \in Users \ {t} : user[v].pc # "short"
  BY <1>4, NobodyElseShort
<1> QED BY <1>4, <1>14, <1>15, <1>17, <1>18, StayStep

LEMMA NoneReleasedKeeps ==
  ASSUME PoolInv, NEW t \in Users, NoneReleased(t)
  PROVE  PoolInv'
<1>1. PoolTypes
  BY DEF PoolInv
<1>2. PICK w, p, n : PoolShape(w, p, n)
  BY DEF PoolInv
<1> USE <1>1, <1>2
<1>3. /\ user[t].pc = "short" /\ acquire_head' = NoBuffer
      /\ UNCHANGED <<pool, batch_next, release_head, made>>
  BY DEF NoneReleased, At
<1>4. /\ w \in [Buffers -> Owners \cup {Lost}] /\ p \in [Buffers -> Nat] /\ n \in [Owners -> Nat]
      /\ n[Acq] \in Nat /\ n[Rel] \in Nat
      /\ Row(w, p, n[Acq], Acq) /\ Row(w, p, n[Rel], Rel)
      /\ Tied(w, p, n[Acq], Acq, batch_next) /\ Tied(w, p, n[Rel], Rel, batch_next)
      /\ Starts(w, p, n[Acq], Acq, acquire_head) /\ Starts(w, p, n[Rel], Rel, release_head)
      /\ \A b \in Buffers : w[b] # Lost => b \in made
  BY ShapeFacts
<1>5. /\ pool = "fixed" /\ user[t].head = acquire_head /\ n[t] = 0 /\ Row(w, p, 0, t)
      /\ n[Acq] > 0 => user[t].tail \in Buffers /\ w[user[t].tail] = Acq /\ p[user[t].tail] = n[Acq]
      /\ t # Acq /\ t # Rel /\ t \in Owners
  BY <1>3, HandFacts DEF HandGood
<1>6. batch_next \in Links /\ user \in [Users -> Hand] /\ release_head \in Buffers \cup {NoBuffer}
  BY DEF PoolTypes
<1>7. \A v \in Users \ {t} : user[v].pc # "short"
  BY <1>3, NobodyElseShort
<1>8. CASE user[t].head = NoBuffer
  <2>1. user' = [user EXCEPT ![t] = Free]
    BY <1>8 DEF NoneReleased
  <2>2. Free \in Hand /\ Free.pc = "idle"
    BY DEF Free, Hand, PoolPcs
  <2>3. /\ user' \in [Users -> Hand] /\ user'[t].pc = "idle"
        /\ \A v \in Users \ {t} : user'[v] = user[v]
    BY <2>1, <2>2, <1>6
  <2>4. acquire_head' = acquire_head
    BY <1>3, <1>5, <1>8
  <2>5. PoolTypes'
    BY <2>3, <2>4, <1>3 DEF PoolTypes
  <2>6. HandGood(w, p, n, t)'
    BY <2>3, <1>5 DEF HandGood
  <2> QED BY <2>3, <2>4, <2>5, <2>6, <1>3, <1>7, StayStep
<1>9. CASE user[t].head # NoBuffer
  <2>1. n[Acq] > 0 /\ acquire_head \in Buffers /\ w[acquire_head] = Acq /\ p[acquire_head] = 1
    BY <1>4, <1>5, <1>9, HeadIsFirst
  <2>2. Holds(t, acquire_head, user[t].tail)
    BY <1>5, <1>9 DEF NoneReleased
  <2>3. /\ user' \in [Users -> Hand] /\ user'[t].pc = "has"
        /\ user'[t].head = acquire_head /\ user'[t].tail = user[t].tail
        /\ \A v \in Users \ {t} : user'[v] = user[v]
    BY <2>1, <2>2, <1>5, <1>6, HoldsFacts
  <2>4. PoolTypes'
    BY <2>3, <1>3 DEF PoolTypes
  <2>5. PICK w2 : w2 = [b \in Buffers |-> IF w[b] = Acq THEN t ELSE w[b]]
    OBVIOUS
  <2>19. PICK n2 : n2 = Lengths(n, t, 0, n[Rel], n[Acq])
    OBVIOUS
  <2>6. /\ n2 \in [Owners -> Nat] /\ n2[Acq] = 0 /\ n2[Rel] = n[Rel] /\ n2[t] = n[Acq]
        /\ \A v \in Users \ {t} : n2[v] = n[v]
    BY <2>19, <1>4, <1>5, ShapeFacts, OwnersDiffer DEF Lengths
  <2>7. Layout(w2, p, n2)
    BY <2>5, <2>6, <1>4, <1>5 DEF Layout
  <2>8. ASSUME NEW v, v # t, v # Acq PROVE SameRow(w, p, w2, p, v)
    BY <2>5, <2>8 DEF SameRow
  <2>9. OthersAlone(w, p, n, w2, p, n2, t)
    BY <2>3, <2>6, <2>8, <1>3, <1>7, OwnersDiffer DEF OthersAlone
  <2>10. \A b \in Buffers : w[b] # t
    BY <1>5, EmptyRowHas
  <2>11. Slice(w, p, w2, p, t, Acq, 0, n[Acq])
    <3>1. \A b \in Buffers : w[b] = Acq => p[b] \in 1 .. n[Acq]
      BY <1>4 DEF Row
    <3> QED BY <3>1, <2>5, <2>10, <1>4 DEF Slice
  <2>12. Row(w2, p, n[Acq], t)
    BY <2>11, <1>4, SliceRow
  <2>13. Tied(w2, p, n[Acq], t, batch_next) /\ Starts(w2, p, n[Acq], t, acquire_head)
    BY <2>5, <2>10, <1>4 DEF Tied, Starts
  <2>14. HandGood(w2, p, n2, t)'
    <3>1. w2[user[t].tail] = t /\ p[user[t].tail] = n[Acq] /\ user[t].tail \in Buffers
      BY <2>1, <2>5, <1>5
    <3> QED BY <3>1, <2>1, <2>3, <2>6, <2>13, <1>3, <1>4, <1>5 DEF HandGood
  <2>15. ListGood(w2, p, n2[Acq], Acq, acquire_head)'
    <3>1. \A b \in Buffers : w2[b] # Acq
      BY <2>5, <1>5
    <3> QED BY <3>1, <2>6, <1>3, EmptyRow DEF ListGood
  <2>16. ListGood(w2, p, n2[Rel], Rel, release_head)'
    <3>1. SameRow(w, p, w2, p, Rel)
      BY <2>8, <1>5, OwnersDiffer
    <3> QED BY <3>1, <2>6, <1>3, <1>4, SameRowKept, SameTied DEF ListGood
  <2>17. \A b \in Buffers : w2[b] # Lost /\ b \in made'
    <3>1. \A b \in Buffers : w[b] # Lost
      BY <1>5, ShapeFacts
    <3> QED BY <3>1, <2>5, <1>3, <1>4, <1>5, OwnersDiffer
  <2> QED BY <2>4, <2>6, <2>7, <2>9, <2>12, <2>14, <2>15, <2>16, <2>17, <1>3, ShapeStep
<1> QED BY <1>8, <1>9

(* ReuseAllocator::Acquire() *)
LEMMA PeekAcquireKeeps ==
  ASSUME PoolInv, NEW t \in Users, PeekAcquire(t)
  PROVE  PoolInv'
<1>1. PoolTypes
  BY DEF PoolInv
<1>2. PICK w, p, n : PoolShape(w, p, n)
  BY DEF PoolInv
<1> USE <1>1, <1>2
<1>3. PICK pc : pc = IF acquire_head # NoBuffer THEN "lock" ELSE "peek"
  OBVIOUS
<1>4. /\ pool = "reuse" /\ user[t].pc = "idle" /\ Goes(t, pc)
      /\ UNCHANGED <<pool, batch_next, acquire_head, release_head, lockedBy, made>>
  BY <1>3 DEF PeekAcquire, At
<1>5. pc \in {"lock", "peek"} /\ pc \in PoolPcs
  BY <1>3 DEF PoolPcs
<1>6. /\ user' \in [Users -> Hand] /\ user'[t].pc = pc /\ \A v \in Users \ {t} : user'[v] = user[v]
  BY <1>4, <1>5, GoesFacts DEF PoolTypes
<1>7. PoolTypes'
  BY <1>4, <1>6 DEF PoolTypes
<1>8. n[t] = 0
  BY <1>4, HandFacts DEF HandGood
<1>9. HandGood(w, p, n, t)'
  BY <1>4, <1>5, <1>6, <1>8 DEF HandGood
<1> QED BY <1>4, <1>6, <1>7, <1>9, StayStep

LEMMA PeekReleaseKeeps ==
  ASSUME PoolInv, NEW t \in Users, PeekRelease(t)
  PROVE  PoolInv'
<1>1. PoolTypes
  BY DEF PoolInv
<1>2. PICK w, p, n : PoolShape(w, p, n)
  BY DEF PoolInv
<1> USE <1>1, <1>2
<1>3. PICK pc : pc = IF release_head # NoBuffer THEN "steal" ELSE "new"
  OBVIOUS
<1>4. /\ user[t].pc = "peek" /\ Goes(t, pc)
      /\ UNCHANGED <<pool, batch_next, acquire_head, release_head, made>>
  BY <1>3 DEF PeekRelease, At
<1>5. pc \in {"steal", "new"} /\ pc \in PoolPcs
  BY <1>3 DEF PoolPcs
<1>6. /\ user' \in [Users -> Hand] /\ user'[t].pc = pc /\ \A v \in Users \ {t} : user'[v] = user[v]
  BY <1>4, <1>5, GoesFacts DEF PoolTypes
<1>7. PoolTypes'
  BY <1>4, <1>6 DEF PoolTypes
<1>8. n[t] = 0 /\ pool = "reuse"
  BY <1>4, HandFacts DEF HandGood
<1>9. HandGood(w, p, n, t)'
  BY <1>4, <1>5, <1>6, <1>8 DEF HandGood
<1>10. \A v \in Users \ {t} : user[v].pc # "short"
  BY <1>8, NobodyElseShort
<1> QED BY <1>4, <1>6, <1>7, <1>9, <1>10, StayStep

LEMMA PopAcquireKeeps ==
  ASSUME PoolInv, NEW t \in Users, PopAcquire(t)
  PROVE  PoolInv'
<1>1. PoolTypes
  BY DEF PoolInv
<1>2. PICK w, p, n : PoolShape(w, p, n)
  BY DEF PoolInv
<1> USE <1>1, <1>2
<1>3. user[t].pc = "lock" /\ UNCHANGED <<pool, batch_next, release_head, made>>
  BY DEF PopAcquire, At
<1>4. /\ w \in [Buffers -> Owners \cup {Lost}] /\ p \in [Buffers -> Nat] /\ n \in [Owners -> Nat]
      /\ n[Acq] \in Nat /\ n[Rel] \in Nat /\ Acq \in Owners /\ Rel \in Owners
      /\ Row(w, p, n[Acq], Acq) /\ Row(w, p, n[Rel], Rel)
      /\ Tied(w, p, n[Acq], Acq, batch_next) /\ Tied(w, p, n[Rel], Rel, batch_next)
      /\ Starts(w, p, n[Acq], Acq, acquire_head) /\ Starts(w, p, n[Rel], Rel, release_head)
      /\ \A b \in Buffers : w[b] # Lost => b \in made
  BY ShapeFacts
<1>5. n[t] = 0 /\ pool = "reuse" /\ Row(w, p, 0, t) /\ t # Acq /\ t # Rel /\ t \in Owners
  BY <1>3, HandFacts DEF HandGood
<1>6. \A v \in Users \ {t} : user[v].pc # "short"
  BY <1>5, NobodyElseShort
<1>7. batch_next \in Links /\ user \in [Users -> Hand]
  BY DEF PoolTypes
<1>8. CASE acquire_head = NoBuffer
  <2>1. Goes(t, "peek") /\ UNCHANGED acquire_head /\ "peek" \in PoolPcs
    BY <1>8 DEF PopAcquire, PoolPcs
  <2>2. /\ user' \in [Users -> Hand] /\ user'[t].pc = "peek"
        /\ \A v \in Users \ {t} : user'[v] = user[v]
    BY <2>1, <1>7, GoesFacts
  <2>3. PoolTypes'
    BY <2>1, <2>2, <1>3 DEF PoolTypes
  <2>4. HandGood(w, p, n, t)'
    BY <2>2, <1>3, <1>5 DEF HandGood
  <2> QED BY <2>1, <2>2, <2>3, <2>4, <1>3, <1>6, StayStep
<1>9. CASE acquire_head # NoBuffer
  <2>1. n[Acq] > 0 /\ acquire_head \in Buffers /\ w[acquire_head] = Acq /\ p[acquire_head] = 1
    BY <1>4, <1>9, HeadIsFirst
  <2>2. acquire_head' = batch_next[acquire_head] /\ Holds(t, acquire_head, acquire_head)
    BY <1>9 DEF PopAcquire
  <2>3. /\ user' \in [Users -> Hand] /\ user'[t].pc = "has"
        /\ user'[t].head = acquire_head /\ user'[t].tail = acquire_head
        /\ \A v \in Users \ {t} : user'[v] = user[v]
    BY <2>1, <2>2, <1>7, HoldsFacts
  <2>4. acquire_head' \in Buffers \cup {NoBuffer}
    BY <2>1, <2>2, <1>7 DEF Links
  <2>5. PoolTypes'
    BY <2>3, <2>4, <1>3 DEF PoolTypes
  <2>6. PICK w2 : w2 = [b \in Buffers |-> IF b = acquire_head THEN t ELSE w[b]]
    OBVIOUS
  <2>7. PICK p2 : p2 = [b \in Buffers |-> IF w[b] = Acq /\ b # acquire_head THEN p[b] - 1 ELSE p[b]]
    OBVIOUS
  <2>8. PICK n2 : n2 = Lengths(n, t, n[Acq] - 1, n[Rel], 1)
    OBVIOUS
  <2>9. n[Acq] - 1 \in Nat
    BY <2>1, <1>4
  <2>10. /\ n2 \in [Owners -> Nat] /\ n2[Acq] = n[Acq] - 1 /\ n2[Rel] = n[Rel] /\ n2[t] = 1
         /\ \A v \in Users \ {t} : n2[v] = n[v]
    BY <2>8, <2>9, <1>4, <1>5, ShapeFacts, OwnersDiffer DEF Lengths
  <2>11. ASSUME NEW b \in Buffers, w[b] = Acq
         PROVE  p[b] \in 1 .. n[Acq] /\ (b = acquire_head <=> p[b] = 1)
    BY <2>1, <2>11, <1>4 DEF Row
  <2>12. p2 \in [Buffers -> Nat]
    BY <2>7, <2>11, <1>4
  <2>13. Layout(w2, p2, n2)
    BY <2>6, <2>10, <2>12, <1>4, <1>5 DEF Layout
  <2>14. ASSUME NEW v, v # t, v # Acq PROVE SameRow(w, p, w2, p2, v)
    BY <2>1, <2>6, <2>7, <2>14 DEF SameRow
  <2>15. OthersAlone(w, p, n, w2, p2, n2, t)
    BY <2>3, <2>10, <2>14, <1>3, <1>6, OwnersDiffer DEF OthersAlone
  <2>16. \A b \in Buffers : w[b] # t
    BY <1>5, EmptyRowHas
  <2>17. Slice(w, p, w2, p2, t, Acq, 0, 1)
    <3>1. ASSUME NEW b \in Buffers
          PROVE  /\ w2[b] = t <=> w[b] = Acq /\ 0 < p[b] /\ p[b] <= 0 + 1
                 /\ w2[b] = t => p2[b] = p[b] - 0
      BY <2>1, <2>6, <2>7, <2>11, <2>16, <1>4, <1>5
    <3> QED BY <3>1 DEF Slice
  <2>18. Slice(w, p, w2, p2, Acq, Acq, 1, n2[Acq])
    <3>1. ASSUME NEW b \in Buffers
          PROVE  /\ w2[b] = Acq <=> w[b] = Acq /\ 1 < p[b] /\ p[b] <= 1 + n2[Acq]
                 /\ w2[b] = Acq => p2[b] = p[b] - 1
      BY <2>1, <2>6, <2>7, <2>10, <2>11, <1>4, <1>5
    <3> QED BY <3>1 DEF Slice
  <2>19. n2[Acq] \in Nat /\ 0 + 1 <= n[Acq] /\ 1 + n2[Acq] = n[Acq] /\ n[Acq] <= n[Acq]
    BY <2>1, <2>9, <2>10, <1>4
  <2>20. Row(w2, p2, 1, t) /\ Row(w2, p2, n2[Acq], Acq)
    BY <2>12, <2>17, <2>18, <2>19, <1>4, SliceRow
  <2>21. Starts(w2, p2, 1, t, acquire_head)
    BY <2>6, <2>16 DEF Starts
  <2>22. Tied(w2, p2, n2[Acq], Acq, batch_next)
    <3>1. \A b \in Buffers : w[b] = Acq /\ 1 < p[b] /\ p[b] = 1 + n2[Acq] => batch_next[b] = NoBuffer
      BY <2>19, <1>4 DEF Tied
    <3> QED BY <3>1, <2>12, <2>18, <2>19, <1>4, SliceTied
  <2>23. Starts(w2, p2, n2[Acq], Acq, acquire_head')
    <3>1. n2[Acq] = 0 => batch_next[acquire_head] = NoBuffer
      BY <2>1, <2>19, <1>4 DEF Tied
    <3>2. ASSUME NEW b \in Buffers, w2[b] = Acq, p2[b] = 1 PROVE batch_next[acquire_head] = b
      <4>1. w[b] = Acq /\ p[b] = p[acquire_head] + 1
        BY <3>2, <2>1, <2>18, <1>4 DEF Slice
      <4> QED BY <4>1, <2>1, <1>4 DEF Tied
    <3> QED BY <3>1, <3>2, <2>2 DEF Starts
  <2>24. ListGood(w2, p2, n2[Acq], Acq, acquire_head)'
    BY <2>20, <2>22, <2>23, <1>3 DEF ListGood
  <2>25. ListGood(w2, p2, n2[Rel], Rel, release_head)'
    <3>1. SameRow(w, p, w2, p2, Rel)
      BY <2>14, <1>5, OwnersDiffer
    <3> QED BY <3>1, <2>10, <1>3, <1>4, SameRowKept, SameTied DEF ListGood
  <2>26. HandGood(w2, p2, n2, t)'
    BY <2>3, <2>10, <2>21, <1>3, <1>5 DEF HandGood
  <2>27. \A b \in Buffers : w2[b] # Lost => b \in made'
    BY <2>1, <2>6, <1>3, <1>4, OwnersDiffer
  <2> QED BY <2>5, <2>10, <2>13, <2>15, <2>20, <2>24, <2>25, <2>26, <2>27, <1>3, <1>5, ShapeStep
<1> QED BY <1>8, <1>9

LEMMA StealAllKeeps ==
  ASSUME PoolInv, NEW t \in Users, StealAll(t)
  PROVE  PoolInv'
<1>1. PoolTypes
  BY DEF PoolInv
<1>2. PICK w, p, n : PoolShape(w, p, n)
  BY DEF PoolInv
<1> USE <1>1, <1>2
<1>3. /\ user[t].pc = "steal" /\ release_head' = NoBuffer
      /\ UNCHANGED <<pool, batch_next, acquire_head, made>>
  BY DEF StealAll, At, LeftReleased
<1>4. /\ w \in [Buffers -> Owners \cup {Lost}] /\ p \in [Buffers -> Nat] /\ n \in [Owners -> Nat]
      /\ n[Acq] \in Nat /\ n[Rel] \in Nat /\ Acq \in Owners /\ Rel \in Owners
      /\ Row(w, p, n[Acq], Acq) /\ Row(w, p, n[Rel], Rel)
      /\ Tied(w, p, n[Acq], Acq, batch_next) /\ Tied(w, p, n[Rel], Rel, batch_next)
      /\ Starts(w, p, n[Acq], Acq, acquire_head) /\ Starts(w, p, n[Rel], Rel, release_head)
      /\ \A b \in Buffers : w[b] # Lost => b \in made
  BY ShapeFacts
<1>5. n[t] = 0 /\ pool = "reuse" /\ Row(w, p, 0, t) /\ t # Acq /\ t # Rel /\ t \in Owners
  BY <1>3, HandFacts DEF HandGood
<1>6. \A v \in Users \ {t} : user[v].pc # "short"
  BY <1>5, NobodyElseShort
<1>7. batch_next \in Links /\ user \in [Users -> Hand] /\ acquire_head \in Buffers \cup {NoBuffer}
  BY DEF PoolTypes
<1>8. CASE release_head = NoBuffer
  <2>1. Goes(t, "new") /\ UNCHANGED release_head /\ "new" \in PoolPcs
    BY <1>3, <1>8 DEF StealAll, PoolPcs
  <2>2. /\ user' \in [Users -> Hand] /\ user'[t].pc = "new"
        /\ \A v \in Users \ {t} : user'[v] = user[v]
    BY <2>1, <1>7, GoesFacts
  <2>3. PoolTypes'
    BY <2>1, <2>2, <1>3 DEF PoolTypes
  <2>4. HandGood(w, p, n, t)'
    BY <2>2, <1>3, <1>5 DEF HandGood
  <2> QED BY <2>1, <2>2, <2>3, <2>4, <1>3, <1>6, StayStep
<1>9. CASE release_head # NoBuffer
  <2>1. n[Rel] > 0 /\ release_head \in Buffers
    BY <1>4, <1>9, HeadIsFirst
  <2> DEFINE r == [user[t] EXCEPT !.pc = "put", !.head = release_head]
  <2>2. user' = [user EXCEPT ![t] = r]
    BY <1>9 DEF StealAll
  <2>3. r \in Hand /\ r.pc = "put" /\ r.head = release_head
    <3>1. user[t] \in Hand
      BY <1>7
    <3>2. r \in Hand
      <4> DEFINE r1 == [user[t] EXCEPT !.pc = "put"]
      <4>1. r1 \in Hand
        BY <3>1 DEF Hand, PoolPcs
      <4>2. r = [r1 EXCEPT !.head = release_head]
        OBVIOUS
      <4> HIDE DEF r1, r
      <4> QED BY <4>1, <4>2, <2>1 DEF Hand
    <3> QED BY <3>1, <3>2 DEF Hand
  <2> HIDE DEF r
  <2>4. /\ user' \in [Users -> Hand] /\ user'[t].pc = "put" /\ user'[t].head = release_head
        /\ \A v \in Users \ {t} : user'[v] = user[v]
    BY <2>2, <2>3, <1>7
  <2>5. PoolTypes'
    BY <2>4, <1>3 DEF PoolTypes
  <2>6. PICK w2 : w2 = [b \in Buffers |-> IF w[b] = Rel THEN t ELSE w[b]]
    OBVIOUS
  <2>7. PICK n2 : n2 = Lengths(n, t, n[Acq], 0, n[Rel])
    OBVIOUS
  <2>8. /\ n2 \in [Owners -> Nat] /\ n2[Acq] = n[Acq] /\ n2[Rel] = 0 /\ n2[t] = n[Rel]
        /\ \A v \in Users \ {t} : n2[v] = n[v]
    BY <2>7, <1>4, <1>5, ShapeFacts, OwnersDiffer DEF Lengths
  <2>9. Layout(w2, p, n2)
    BY <2>6, <2>8, <1>4, <1>5 DEF Layout
  <2>10. ASSUME NEW v, v # t, v # Rel PROVE SameRow(w, p, w2, p, v)
    BY <2>6, <2>10 DEF SameRow
  <2>11. OthersAlone(w, p, n, w2, p, n2, t)
    BY <2>4, <2>8, <2>10, <1>3, <1>6, OwnersDiffer DEF OthersAlone
  <2>12. \A b \in Buffers : w[b] # t
    BY <1>5, EmptyRowHas
  <2>13. Slice(w, p, w2, p, t, Rel, 0, n[Rel])
    <3>1. \A b \in Buffers : w[b] = Rel => p[b] \in 1 .. n[Rel]
      BY <1>4 DEF Row
    <3> QED BY <3>1, <2>6, <2>12, <1>4 DEF Slice
  <2>14. Row(w2, p, n[Rel], t)
    BY <2>13, <1>4, SliceRow
  <2>15. Tied(w2, p, n[Rel], t, batch_next) /\ Starts(w2, p, n[Rel], t, release_head)
    BY <2>6, <2>12, <1>4 DEF Tied, Starts
  <2>16. HandGood(w2, p, n2, t)'
    BY <2>1, <2>4, <2>8, <2>15, <1>3, <1>4, <1>5 DEF HandGood
  <2>17. ListGood(w2, p, n2[Rel], Rel, release_head)'
    <3>1. \A b \in Buffers : w2[b] # Rel
      BY <2>6, <1>5
    <3> QED BY <3>1, <2>8, <1>3, EmptyRow DEF ListGood
  <2>18. ListGood(w2, p, n2[Acq], Acq, acquire_head)'
    <3>1. SameRow(w, p, w2, p, Acq)
      BY <2>10, <1>5, OwnersDiffer
    <3> QED BY <3>1, <2>8, <1>3, <1>4, SameRowKept, SameTied DEF ListGood
  <2>19. \A b \in Buffers : w2[b] # Lost => b \in made'
    BY <2>6, <1>3, <1>4, OwnersDiffer DEF Owners
  <2> QED BY <2>5, <2>8, <2>9, <2>11, <2>14, <2>16, <2>17, <2>18, <2>19, <1>3, <1>5, ShapeStep
<1> QED BY <1>8, <1>9

LEMMA PutRestKeeps ==
  ASSUME PoolInv, NEW t \in Users, PutRest(t)
  PROVE  PoolInv'
<1>1. PoolTypes
  BY DEF PoolInv
<1>2. PICK w, p, n : PoolShape(w, p, n)
  BY DEF PoolInv
<1> USE <1>1, <1>2
<1>3. PICK h : h = user[t].head
  OBVIOUS
<1>4. /\ user[t].pc = "put" /\ UNCHANGED <<pool, batch_next, release_head, made>>
      /\ acquire_head' = batch_next[h] /\ Holds(t, h, h)
  BY <1>3 DEF PutRest, At
<1>5. /\ w \in [Buffers -> Owners \cup {Lost}] /\ p \in [Buffers -> Nat] /\ n \in [Owners -> Nat]
      /\ n[Acq] \in Nat /\ n[Rel] \in Nat /\ Acq \in Owners /\ Rel \in Owners
      /\ Row(w, p, n[Rel], Rel) /\ Tied(w, p, n[Rel], Rel, batch_next)
      /\ Starts(w, p, n[Rel], Rel, release_head)
      /\ \A b \in Buffers : w[b] # Lost => b \in made
  BY ShapeFacts
<1>6. /\ n[t] \in Nat /\ n[t] >= 1 /\ pool = "reuse" /\ t # Acq /\ t # Rel /\ t \in Owners
      /\ Row(w, p, n[t], t) /\ Tied(w, p, n[t], t, batch_next) /\ Starts(w, p, n[t], t, h)
  BY <1>3, <1>4, HandFacts DEF HandGood
<1>7. \A v \in Users \ {t} : user[v].pc # "short"
  BY <1>6, NobodyElseShort
<1>8. batch_next \in Links /\ user \in [Users -> Hand]
  BY DEF PoolTypes
<1>9. h \in Buffers /\ w[h] = t /\ p[h] = 1
  BY <1>6, HeadIsFirst
<1>10. /\ user' \in [Users -> Hand] /\ user'[t].pc = "has"
       /\ user'[t].head = h /\ user'[t].tail = h
       /\ \A v \in Users \ {t} : user'[v] = user[v]
  BY <1>4, <1>8, <1>9, HoldsFacts
<1>11. acquire_head' \in Buffers \cup {NoBuffer}
  BY <1>4, <1>8, <1>9 DEF Links
<1>12. PoolTypes'
  BY <1>4, <1>10, <1>11 DEF PoolTypes
<1>13. PICK w2 : w2 = [b \in Buffers |-> IF w[b] = t /\ b # h THEN Acq
                                         ELSE IF w[b] = Acq THEN Lost ELSE w[b]]
  OBVIOUS
<1>14. PICK p2 : p2 = [b \in Buffers |-> IF w[b] = t /\ b # h THEN p[b] - 1 ELSE p[b]]
  OBVIOUS
<1>15. PICK n2 : n2 = Lengths(n, t, n[t] - 1, n[Rel], 1)
  OBVIOUS
<1>16. n[t] - 1 \in Nat
  BY <1>6
<1>17. /\ n2 \in [Owners -> Nat] /\ n2[Acq] = n[t] - 1 /\ n2[Rel] = n[Rel] /\ n2[t] = 1
       /\ \A v \in Users \ {t} : n2[v] = n[v]
  BY <1>5, <1>6, <1>15, <1>16, ShapeFacts, OwnersDiffer DEF Lengths
<1>18. ASSUME NEW b \in Buffers, w[b] = t
       PROVE  p[b] \in 1 .. n[t] /\ (b = h <=> p[b] = 1)
  BY <1>6, <1>9, <1>18 DEF Row
<1>19. p2 \in [Buffers -> Nat]
  BY <1>5, <1>14, <1>18
<1>20. Layout(w2, p2, n2)
  BY <1>5, <1>13, <1>17, <1>19 DEF Layout
<1>21. ASSUME NEW v, v # t, v # Acq, v # Lost PROVE SameRow(w, p, w2, p2, v)
  BY <1>13, <1>14, <1>21 DEF SameRow
<1>22. OthersAlone(w, p, n, w2, p2, n2, t)
  BY <1>4, <1>7, <1>10, <1>17, <1>21, OwnersDiffer DEF OthersAlone, Owners
<1>23. Slice(w, p, w2, p2, t, t, 0, 1)
  <2>1. ASSUME NEW b \in Buffers
        PROVE  /\ w2[b] = t <=> w[b] = t /\ 0 < p[b] /\ p[b] <= 0 + 1
               /\ w2[b] = t => p2[b] = p[b] - 0
    <3>1. w2[b] = t <=> w[b] = t /\ b = h
      BY <1>6, <1>13, OwnersDiffer
    <3> QED BY <3>1, <1>5, <1>14, <1>18
  <2> QED BY <2>1 DEF Slice
<1>24. Slice(w, p, w2, p2, Acq, t, 1, n2[Acq])
  <2>1. ASSUME NEW b \in Buffers
        PROVE  /\ w2[b] = Acq <=> w[b] = t /\ 1 < p[b] /\ p[b] <= 1 + n2[Acq]
               /\ w2[b] = Acq => p2[b] = p[b] - 1
    <3>1. w2[b] = Acq <=> w[b] = t /\ b # h
      BY <1>5, <1>6, <1>13, OwnersDiffer
    <3> QED BY <3>1, <1>5, <1>6, <1>14, <1>17, <1>18
  <2> QED BY <2>1 DEF Slice
<1>25. n2[Acq] \in Nat /\ 0 + 1 <= n[t] /\ 1 + n2[Acq] = n[t] /\ n[t] <= n[t]
  BY <1>6, <1>16, <1>17
<1>26. Row(w2, p2, 1, t) /\ Row(w2, p2, n2[Acq], Acq)
  BY <1>5, <1>6, <1>19, <1>23, <1>24, <1>25, SliceRow
<1>27. Starts(w2, p2, 1, t, h)
  BY <1>6, <1>13, OwnersDiffer DEF Starts
<1>28. Tied(w2, p2, n2[Acq], Acq, batch_next)
  <2>1. \A b \in Buffers : w[b] = t /\ 1 < p[b] /\ p[b] = 1 + n2[Acq] => batch_next[b] = NoBuffer
    BY <1>6, <1>25 DEF Tied
  <2> QED BY <2>1, <1>5, <1>6, <1>19, <1>24, <1>25, SliceTied
<1>29. Starts(w2, p2, n2[Acq], Acq, acquire_head')
  <2>1. n2[Acq] = 0 => batch_next[h] = NoBuffer
    BY <1>6, <1>9, <1>25 DEF Tied
  <2>2. ASSUME NEW b \in Buffers, w2[b] = Acq, p2[b] = 1 PROVE batch_next[h] = b
    <3>1. w[b] = t /\ p[b] = p[h] + 1
      BY <2>2, <1>5, <1>9, <1>24 DEF Slice
    <3> QED BY <3>1, <1>6, <1>9 DEF Tied
  <2> QED BY <2>1, <2>2, <1>4 DEF Starts
<1>30. ListGood(w2, p2, n2[Acq], Acq, acquire_head)'
  BY <1>4, <1>26, <1>28, <1>29 DEF ListGood
<1>31. ListGood(w2, p2, n2[Rel], Rel, release_head)'
  <2>1. SameRow(w, p, w2, p2, Rel)
    BY <1>5, <1>6, <1>21, OwnersDiffer
  <2> QED BY <2>1, <1>4, <1>5, <1>17, SameRowKept, SameTied DEF ListGood
<1>32. HandGood(w2, p2, n2, t)'
  BY <1>4, <1>6, <1>10, <1>17, <1>27 DEF HandGood
<1>33. \A b \in Buffers : w2[b] # Lost => b \in made'
  BY <1>4, <1>5, <1>6, <1>13, OwnersDiffer
<1> QED BY <1>4, <1>6, <1>12, <1>17, <1>20, <1>22, <1>26, <1>30, <1>31, <1>32, <1>33, ShapeStep

LEMMA AllocateKeeps ==
  ASSUME PoolInv, NEW t \in Users, Allocate(t)
  PROVE  PoolInv'
<1>1. PoolTypes
  BY DEF PoolInv
<1>2. PICK w, p, n : PoolShape(w, p, n)
  BY DEF PoolInv
<1> USE <1>1, <1>2
<1>3. PICK d \in Buffers \ made :
        /\ user[t].pc = "new" /\ made' = made \cup {d} /\ Holds(t, d, d)
        /\ UNCHANGED <<pool, batch_next, acquire_head, release_head, lockedBy>>
  BY DEF Allocate, At
<1>4. /\ w \in [Buffers -> Owners \cup {Lost}] /\ p \in [Buffers -> Nat] /\ n \in [Owners -> Nat]
      /\ n[Acq] \in Nat /\ n[Rel] \in Nat
      /\ Row(w, p, n[Acq], Acq) /\ Row(w, p, n[Rel], Rel)
      /\ Tied(w, p, n[Acq], Acq, batch_next) /\ Tied(w, p, n[Rel], Rel, batch_next)
      /\ Starts(w, p, n[Acq], Acq, acquire_head) /\ Starts(w, p, n[Rel], Rel, release_head)
      /\ \A b \in Buffers : w[b] # Lost => b \in made
  BY ShapeFacts
<1>5. n[t] = 0 /\ pool = "reuse" /\ Row(w, p, 0, t) /\ t # Acq /\ t # Rel /\ t \in Owners
  BY <1>3, HandFacts DEF HandGood
<1>6. /\ user' \in [Users -> Hand] /\ user'[t].pc = "has"
      /\ user'[t].head = d /\ user'[t].tail = d
      /\ \A v \in Users \ {t} : user'[v] = user[v]
  BY <1>3, HoldsFacts DEF PoolTypes
<1>7. PoolTypes'
  BY <1>3, <1>6 DEF PoolTypes
<1>8. w[d] = Lost /\ d \in Buffers
  BY <1>3, <1>4
<1>9. PICK w2 : w2 = [b \in Buffers |-> IF b = d THEN t ELSE w[b]]
  OBVIOUS
<1>10. PICK p2 : p2 = [b \in Buffers |-> IF b = d THEN 1 ELSE p[b]]
  OBVIOUS
<1>11. PICK n2 : n2 = Lengths(n, t, n[Acq], n[Rel], 1)
  OBVIOUS
<1>12. /\ n2 \in [Owners -> Nat] /\ n2[Acq] = n[Acq] /\ n2[Rel] = n[Rel] /\ n2[t] = 1
       /\ \A v \in Users \ {t} : n2[v] = n[v]
  BY <1>4, <1>5, <1>11, ShapeFacts, OwnersDiffer DEF Lengths
<1>13. Layout(w2, p2, n2)
  BY <1>4, <1>5, <1>9, <1>10, <1>12 DEF Layout
<1>14. ASSUME NEW v \in Owners, v # t PROVE SameRow(w, p, w2, p2, v)
  BY <1>8, <1>9, <1>10, <1>14, OwnersDiffer DEF SameRow
<1>15. Acq \in Owners /\ Rel \in Owners /\ Users \subseteq Owners
  BY DEF Owners
<1>16. OthersAlone(w, p, n, w2, p2, n2, t)
  BY <1>3, <1>5, <1>6, <1>12, <1>14, <1>15 DEF OthersAlone
<1>17. \A b \in Buffers : w[b] # t
  BY <1>5, EmptyRowHas
<1>18. Row(w2, p2, 1, t) /\ Starts(w2, p2, 1, t, d)
  BY <1>8, <1>9, <1>10, <1>17 DEF Row, Starts
<1>19. /\ ListGood(w2, p2, n2[Acq], Acq, acquire_head)'
       /\ ListGood(w2, p2, n2[Rel], Rel, release_head)'
  <2>1. SameRow(w, p, w2, p2, Acq) /\ SameRow(w, p, w2, p2, Rel)
    BY <1>5, <1>14, <1>15
  <2> QED BY <2>1, <1>3, <1>4, <1>12, SameRowKept, SameTied DEF ListGood
<1>20. HandGood(w2, p2, n2, t)'
  BY <1>3, <1>5, <1>6, <1>12, <1>18 DEF HandGood
<1>21. \A b \in Buffers : w2[b] # Lost => b \in made'
  BY <1>3, <1>4, <1>9
<1> QED BY <1>3, <1>5, <1>7, <1>12, <1>13, <1>16, <1>18, <1>19, <1>20, <1>21, ShapeStep

(* ReleaseBatch() *)
LEMMA ReleaseBatchKeeps ==
  ASSUME PoolInv, NEW t \in Users, ReleaseBatch(t)
  PROVE  PoolInv'
<1>1. PoolTypes
  BY DEF PoolInv
<1>2. PICK w, p, n : PoolShape(w, p, n)
  BY DEF PoolInv
<1> USE <1>1, <1>2
<1>3. PICK h : h = user[t].head
  OBVIOUS
<1>4. PICK e : e = user[t].tail
  OBVIOUS
<1>5. /\ user[t].pc = "has" /\ UNCHANGED <<pool, acquire_head, lockedBy, made>>
      /\ batch_next' = [batch_next EXCEPT ![e] = release_head] /\ release_head' = h
      /\ user' = [user EXCEPT ![t] = Free]
  BY <1>3, <1>4 DEF ReleaseBatch, Released, At
<1>6. /\ w \in [Buffers -> Owners \cup {Lost}] /\ p \in [Buffers -> Nat] /\ n \in [Owners -> Nat]
      /\ n[Acq] \in Nat /\ n[Rel] \in Nat /\ Acq \in Owners /\ Rel \in Owners
      /\ Row(w, p, n[Acq], Acq) /\ Row(w, p, n[Rel], Rel)
      /\ Tied(w, p, n[Acq], Acq, batch_next) /\ Tied(w, p, n[Rel], Rel, batch_next)
      /\ Starts(w, p, n[Acq], Acq, acquire_head) /\ Starts(w, p, n[Rel], Rel, release_head)
      /\ \A b \in Buffers : w[b] # Lost => b \in made
      /\ pool = "fixed" => \A b \in Buffers : w[b] # Lost
  BY ShapeFacts
<1>7. /\ n[t] \in Nat /\ n[t] >= 1 /\ t # Acq /\ t # Rel /\ t \in Owners
      /\ Row(w, p, n[t], t) /\ Starts(w, p, n[t], t, h)
  BY <1>3, <1>5, HandFacts DEF HandGood
<1>8. h \in Buffers /\ w[h] = t /\ p[h] = 1
  BY <1>7, HeadIsFirst
<1>9. /\ e \in Buffers /\ w[e] = t /\ p[e] = n[t]
      /\ n[t] # 1 => Tied(w, p, n[t], t, batch_next)
  <2>1. CASE pool = "fixed"
    BY <2>1, <1>4, <1>5, HandFacts DEF HandGood
  <2>2. CASE pool # "fixed"
    <3>1. n[t] = 1 /\ e = h
      BY <2>2, <1>3, <1>4, <1>5, HandFacts DEF HandGood
    <3> QED BY <3>1, <1>8
  <2> QED BY <2>1, <2>2
<1>10. /\ batch_next \in Links /\ user \in [Users -> Hand]
       /\ acquire_head \in Buffers \cup {NoBuffer} /\ release_head \in Buffers \cup {NoBuffer}
  BY DEF PoolTypes
<1>11. Free \in Hand /\ Free.pc = "idle"
  BY DEF Free, Hand, PoolPcs
<1>12. /\ user' \in [Users -> Hand] /\ user'[t].pc = "idle"
       /\ \A v \in Users \ {t} : user'[v] = user[v]
  BY <1>5, <1>10, <1>11
<1>13. /\ batch_next' \in Links /\ batch_next'[e] = release_head
       /\ \A b \in Buffers : b # e => batch_next'[b] = batch_next[b]
  BY <1>5, <1>9, <1>10 DEF Links
<1>14. PoolTypes'
  BY <1>5, <1>8, <1>12, <1>13 DEF PoolTypes
<1>15. PICK w2 : w2 = [b \in Buffers |-> IF w[b] = t THEN Rel ELSE w[b]]
  OBVIOUS
<1>16. PICK p2 : p2 = [b \in Buffers |-> IF w[b] = Rel THEN p[b] + n[t] ELSE p[b]]
  OBVIOUS
<1>17. PICK n2 : n2 = Lengths(n, t, n[Acq], n[t] + n[Rel], 0)
  OBVIOUS
<1>18. n[t] + n[Rel] \in Nat
  BY <1>6, <1>7
<1>19. /\ n2 \in [Owners -> Nat] /\ n2[Acq] = n[Acq] /\ n2[Rel] = n[t] + n[Rel] /\ n2[t] = 0
       /\ \A v \in Users \ {t} : n2[v] = n[v]
  BY <1>6, <1>7, <1>17, <1>18, ShapeFacts, OwnersDiffer DEF Lengths
<1>20. p2 \in [Buffers -> Nat]
  BY <1>6, <1>7, <1>16
<1>21. Layout(w2, p2, n2)
  BY <1>6, <1>15, <1>19, <1>20 DEF Layout
<1>22. ASSUME NEW v, v # t, v # Rel PROVE SameRow(w, p, w2, p2, v)
  BY <1>15, <1>16, <1>22 DEF SameRow
<1>23. OthersAlone(w, p, n, w2, p2, n2, t)
  <2>1. SameRow(w, p, w2, p2, Acq)
    BY <1>7, <1>22, OwnersDiffer
  <2> QED BY <2>1, <1>5, <1>9, <1>12, <1>13, <1>19, <1>22, OwnersDiffer DEF OthersAlone
<1>24. \A b \in Buffers : w2[b] # t
  BY <1>7, <1>15
<1>25. \A b \in Buffers : /\ w[b] = t => p[b] \in 1 .. n[t]
                          /\ w[b] = Rel => p[b] \in 1 .. n[Rel]
                          /\ w[b] = t /\ p[b] = n[t] => b = e
  BY <1>6, <1>7, <1>9 DEF Row
<1>26. Spliced(w, p, w2, p2, Rel, t, n[t], Rel, n[Rel])
  <2>1. ASSUME NEW b \in Buffers
        PROVE  /\ w2[b] = Rel <=> (w[b] = t /\ p[b] \in 1 .. n[t]) \/ (w[b] = Rel /\ p[b] \in 1 .. n[Rel])
               /\ w2[b] = Rel /\ w[b] = t => p2[b] = p[b]
               /\ w2[b] = Rel /\ w[b] = Rel => p2[b] = p[b] + n[t]
    BY <1>6, <1>7, <1>15, <1>16, <1>25
  <2> QED BY <2>1 DEF Spliced
<1>27. n[t] <= n[t] /\ n[Rel] <= n[Rel] /\ t # Rel
  BY <1>6, <1>7
<1>28. Row(w2, p2, n[t] + n[Rel], Rel)
  BY <1>6, <1>7, <1>20, <1>26, <1>27, SplicedRow
(* The old link of a lone buffer of the ReuseAllocator is of no account. *)
<1>29. PICK link : link = [batch_next EXCEPT ![e] = NoBuffer]
  OBVIOUS
<1>30. /\ link[e] = NoBuffer
       /\ \A b \in Buffers : b # e => link[b] = batch_next[b]
  BY <1>9, <1>10, <1>29 DEF Links
<1>31. Tied(w, p, n[t], t, link)
  <2>1. \A b \in Buffers : w[b] = t /\ p[b] = n[t] => link[b] = NoBuffer
    BY <1>25, <1>30
  <2>2. ASSUME NEW b \in Buffers, NEW c \in Buffers, w[b] = t, w[c] = t, p[c] = p[b] + 1
        PROVE  link[b] = c
    <3>1. p[b] # n[t] /\ n[t] # 1 /\ b # e
      BY <2>2, <1>7, <1>9, <1>25
    <3> QED BY <3>1, <2>2, <1>9, <1>30 DEF Tied
  <2> QED BY <2>1, <2>2 DEF Tied
<1>32. Tied(w, p, n[Rel], Rel, link)
  <2>1. \A b \in Buffers : w[b] = Rel => link[b] = batch_next[b]
    BY <1>7, <1>9, <1>30
  <2> QED BY <2>1, <1>6 DEF Tied
<1>33. Tied(w2, p2, n[t] + n[Rel], Rel, batch_next')
  <2>1. \A b \in Buffers : w[b] = t /\ p[b] < n[t] => batch_next'[b] = link[b]
    BY <1>7, <1>9, <1>13, <1>30
  <2>2. \A b \in Buffers : w[b] = Rel /\ p[b] < n[Rel] => batch_next'[b] = link[b]
    BY <1>7, <1>9, <1>13, <1>30
  <2>3. \A b \in Buffers : w[b] = t /\ p[b] = n[t] => Starts(w, p, n[Rel], Rel, batch_next'[b])
    BY <1>6, <1>13, <1>25
  <2>4. \A b \in Buffers : w[b] = Rel /\ p[b] = n[Rel] => batch_next'[b] = NoBuffer
    BY <1>6, <1>7, <1>9, <1>13 DEF Tied
  <2>5. Relinked(w, p, t, n[t], Rel, n[Rel], link, batch_next')
    BY <2>1, <2>2, <2>3, <2>4 DEF Relinked
  <2> QED BY <2>5, <1>6, <1>7, <1>18, <1>20, <1>26, <1>31, <1>32, SplicedTied
<1>34. Starts(w2, p2, n[t] + n[Rel], Rel, h)
  <2>1. ASSUME NEW b \in Buffers, w2[b] = Rel, p2[b] = 1 PROVE h = b
    <3>1. w[b] = t /\ p[b] = 1
      BY <2>1, <1>6, <1>7, <1>15, <1>16, <1>25
    <3> QED BY <3>1, <1>7 DEF Starts
  <2>2. n[t] + n[Rel] # 0
    BY <1>6, <1>7
  <2> QED BY <2>1, <2>2 DEF Starts
<1>35. ListGood(w2, p2, n2[Rel], Rel, release_head)'
  BY <1>5, <1>19, <1>28, <1>33, <1>34 DEF ListGood
<1>36. ListGood(w2, p2, n2[Acq], Acq, acquire_head)'
  <2>1. SameRow(w, p, w2, p2, Acq)
    BY <1>7, <1>22, OwnersDiffer
  <2>2. \A b \in Buffers : w[b] = Acq => batch_next'[b] = batch_next[b]
    BY <1>7, <1>9, <1>13
  <2>3. Tied(w2, p2, n[Acq], Acq, batch_next')
    BY <2>1, <2>2, <1>6, SameTied
  <2>4. Row(w2, p2, n[Acq], Acq) /\ Starts(w2, p2, n[Acq], Acq, acquire_head)
    BY <2>1, <1>6, SameRowKept
  <2> QED BY <2>3, <2>4, <1>5, <1>19 DEF ListGood
<1>37. HandGood(w2, p2, n2, t)' /\ Row(w2, p2, n2[t], t)
  <2>1. Row(w2, p2, n2[t], t)
    BY <1>19, <1>24, EmptyRow
  <2>2. HandGood(w2, p2, n2, t)'
    BY <1>12, <1>19 DEF HandGood
  <2> QED BY <2>1, <2>2
<1>38. /\ \A b \in Buffers : w2[b] # Lost => b \in made'
       /\ pool = "fixed" => \A b \in Buffers : w2[b] # Lost
  BY <1>5, <1>6, <1>7, <1>15, OwnersDiffer DEF Owners
<1> QED BY <1>5, <1>14, <1>21, <1>23, <1>35, <1>36, <1>37, <1>38, ShapeStep

(* What was left of the acquire list, and the first that were released, go to
   the thread that ran short; the other released ones are the acquire list. *)
LEMMA StealReleasedKeeps ==
  ASSUME PoolInv, NEW t \in Users, StealReleased(t)
  PROVE  PoolInv'
<1>1. PoolTypes
  BY DEF PoolInv
<1>2. PICK w, p, n : PoolShape(w, p, n)
  BY DEF PoolInv
<1> USE <1>1, <1>2
<1>3. /\ w \in [Buffers -> Owners \cup {Lost}] /\ p \in [Buffers -> Nat] /\ n \in [Owners -> Nat]
      /\ n[Acq] \in Nat /\ n[Rel] \in Nat /\ Acq \in Owners /\ Rel \in Owners
      /\ Row(w, p, n[Acq], Acq) /\ Row(w, p, n[Rel], Rel)
      /\ Tied(w, p, n[Acq], Acq, batch_next) /\ Tied(w, p, n[Rel], Rel, batch_next)
      /\ Starts(w, p, n[Acq], Acq, acquire_head) /\ Starts(w, p, n[Rel], Rel, release_head)
      /\ \A b \in Buffers : w[b] # Lost => b \in made
  BY ShapeFacts
<1>4. /\ batch_next \in Links /\ user \in [Users -> Hand] /\ release_head \in Buffers \cup {NoBuffer}
  BY DEF PoolTypes
<1>5. PICK e : e = user[t].tail
  OBVIOUS
<1>6. PICK want : want = user[t].want
  OBVIOUS
<1>7. /\ user[t].pc = "short" /\ release_head # NoBuffer /\ release_head' = NoBuffer
      /\ UNCHANGED <<pool, made>>
  BY DEF StealReleased, LeftReleased, At
<1>8. /\ pool = "fixed" /\ user[t].head = acquire_head /\ n[t] = 0 /\ Row(w, p, 0, t)
      /\ want \in Nat /\ want >= 1
      /\ n[Acq] = 0 => e = NoBuffer
      /\ n[Acq] > 0 => e \in Buffers /\ w[e] = Acq /\ p[e] = n[Acq]
      /\ t # Acq /\ t # Rel /\ t \in Owners
  BY <1>5, <1>6, <1>7, HandFacts DEF HandGood, Hand
<1>9. \A v \in Users \ {t} : user[v].pc # "short"
  BY <1>7, NobodyElseShort
<1>10. n[Rel] > 0 /\ release_head \in Buffers
  BY <1>3, <1>7, HeadIsFirst
<1>11. PICK m : m = IF n[Rel] < want THEN n[Rel] ELSE want
  OBVIOUS
<1>12. m \in Nat /\ m >= 1 /\ m <= n[Rel] /\ n[Rel] - m \in Nat
  BY <1>3, <1>8, <1>10, <1>11
<1>13. PICK last : last = Chain(batch_next, release_head)[m - 1]
  OBVIOUS
<1>14. last \in Buffers /\ w[last] = Rel /\ p[last] = m
  <2>1. m - 1 \in 0 .. n[Rel] - 1 /\ (m - 1) + 1 = m
    BY <1>3, <1>12
  <2> QED BY <2>1, <1>3, <1>4, <1>13, ChainFacts
<1>15. PICK h : h = IF n[Acq] = 0 THEN release_head ELSE acquire_head
  OBVIOUS
<1>16. e = NoBuffer <=> n[Acq] = 0
  BY <1>3, <1>8, BufferFacts
<1>17. /\ acquire_head' = batch_next[last] /\ Holds(t, h, last)
       /\ batch_next' = [(IF e = NoBuffer THEN batch_next ELSE [batch_next EXCEPT ![e] = release_head])
                           EXCEPT ![last] = NoBuffer]
  <2>1. Length(batch_next, release_head) = n[Rel]
    <3>1. n[Rel] \in Nat
      BY <1>3
    <3> QED BY <3>1, <1>3, <1>4, ChainFacts, SMTT(30)
  <2>2. (IF n[Rel] < want THEN n[Rel] - 1 ELSE want - 1) = m - 1
    BY <1>11
  <2>3. Chain(batch_next, release_head)[IF n[Rel] < want THEN n[Rel] - 1 ELSE want - 1] = last
    BY <2>2, <1>13
  <2> QED BY <2>1, <2>3, <1>5, <1>6, <1>8, <1>15, <1>16 DEF StealReleased
<1>18. h \in Buffers
  <2>1. n[Acq] # 0 => acquire_head \in Buffers
    BY <1>3, HeadIsFirst
  <2> QED BY <2>1, <1>10, <1>15
<1>19. /\ user' \in [Users -> Hand] /\ user'[t].pc = "has"
       /\ user'[t].head = h /\ user'[t].tail = last
       /\ \A v \in Users \ {t} : user'[v] = user[v]
  BY <1>4, <1>14, <1>17, <1>18, HoldsFacts
<1>20. /\ batch_next' \in Links /\ batch_next'[last] = NoBuffer
       /\ n[Acq] > 0 => batch_next'[e] = release_head
       /\ \A b \in Buffers : b # last /\ b # e => batch_next'[b] = batch_next[b]
       /\ acquire_head' \in Buffers \cup {NoBuffer}
  <2>1. e # last
    BY <1>3, <1>8, <1>14, OwnersDiffer, BufferFacts
  <2>2. CASE e = NoBuffer
    BY <2>2, <1>4, <1>14, <1>16, <1>17 DEF Links
  <2>3. CASE e # NoBuffer
    <3>1. e \in Buffers
      BY <2>3, <1>3, <1>8, <1>16
    <3> QED BY <3>1, <2>1, <2>3, <1>4, <1>14, <1>17 DEF Links
  <2> QED BY <2>2, <2>3
<1>21. PoolTypes'
  BY <1>7, <1>19, <1>20 DEF PoolTypes
<1>22. PICK w2 : w2 = [b \in Buffers |-> IF w[b] = Acq \/ (w[b] = Rel /\ p[b] <= m) THEN t
                                         ELSE IF w[b] = Rel THEN Acq ELSE w[b]]
  OBVIOUS
<1>23. PICK p2 : p2 = [b \in Buffers |-> IF w[b] # Rel THEN p[b]
                                         ELSE IF p[b] <= m THEN p[b] + n[Acq] ELSE p[b] - m]
  OBVIOUS
<1>24. PICK n2 : n2 = Lengths(n, t, n[Rel] - m, 0, n[Acq] + m)
  OBVIOUS
<1>25. n[Acq] + m \in Nat
  BY <1>3, <1>12
<1>26. /\ n2 \in [Owners -> Nat] /\ n2[Acq] = n[Rel] - m /\ n2[Rel] = 0 /\ n2[t] = n[Acq] + m
       /\ \A v \in Users \ {t} : n2[v] = n[v]
  BY <1>3, <1>8, <1>12, <1>24, <1>25, ShapeFacts, OwnersDiffer DEF Lengths
<1>27. p2 \in [Buffers -> Nat]
  BY <1>3, <1>12, <1>23
<1>28. Layout(w2, p2, n2)
  BY <1>3, <1>8, <1>22, <1>26, <1>27 DEF Layout
<1>29. ASSUME NEW v, v # t, v # Acq, v # Rel PROVE SameRow(w, p, w2, p2, v)
  BY <1>22, <1>23, <1>29 DEF SameRow
<1>30. OthersAlone(w, p, n, w2, p2, n2, t)
  <2>1. \A v \in Users \ {t} : SameRow(w, p, w2, p2, v)
    BY <1>29, OwnersDiffer
  <2>2. ASSUME NEW v \in Users \ {t}, NEW b \in Buffers, w[b] = v
        PROVE  batch_next'[b] = batch_next[b]
    <3>1. b # last /\ b # e
      BY <2>2, <1>3, <1>8, <1>14, OwnersDiffer, BufferFacts
    <3> QED BY <3>1, <1>20
  <2> QED BY <2>1, <2>2, <1>9, <1>19, <1>26 DEF OthersAlone
<1>31. \A b \in Buffers : w[b] # t
  BY <1>8, EmptyRowHas
<1>32. \A b \in Buffers : /\ w[b] = Acq => p[b] \in 1 .. n[Acq]
                          /\ w[b] = Rel => p[b] \in 1 .. n[Rel]
                          /\ w[b] = Rel /\ p[b] = m => b = last
                          /\ n[Acq] > 0 /\ w[b] = Acq /\ p[b] = n[Acq] => b = e
  BY <1>3, <1>8, <1>14 DEF Row
<1>33. Spliced(w, p, w2, p2, t, Acq, n[Acq], Rel, m)
  <2>1. ASSUME NEW b \in Buffers
        PROVE  /\ w2[b] = t <=> (w[b] = Acq /\ p[b] \in 1 .. n[Acq]) \/ (w[b] = Rel /\ p[b] \in 1 .. m)
               /\ w2[b] = t /\ w[b] = Acq => p2[b] = p[b]
               /\ w2[b] = t /\ w[b] = Rel => p2[b] = p[b] + n[Acq]
    <3>1. w2[b] = t <=> w[b] = Acq \/ (w[b] = Rel /\ p[b] <= m)
      BY <1>8, <1>22, <1>31
    <3> QED BY <3>1, <1>3, <1>12, <1>23, <1>32, OwnersDiffer
  <2> QED BY <2>1 DEF Spliced
<1>34. n[Acq] <= n[Acq] /\ Acq # Rel
  BY <1>3, OwnersDiffer
<1>35. Row(w2, p2, n[Acq] + m, t)
  BY <1>3, <1>12, <1>27, <1>33, <1>34, SplicedRow
<1>36. Tied(w2, p2, n[Acq] + m, t, batch_next')
  <2>1. ASSUME NEW b \in Buffers, w[b] = Acq, p[b] < n[Acq] PROVE batch_next'[b] = batch_next[b]
    <3>1. b # last /\ b # e
      BY <2>1, <1>3, <1>8, <1>14, <1>34, BufferFacts
    <3> QED BY <3>1, <1>20
  <2>2. ASSUME NEW b \in Buffers, w[b] = Rel, p[b] < m PROVE batch_next'[b] = batch_next[b]
    <3>1. b # last /\ b # e
      BY <2>2, <1>3, <1>8, <1>12, <1>14, <1>34, BufferFacts
    <3> QED BY <3>1, <1>20
  <2>3. ASSUME NEW b \in Buffers, w[b] = Acq, p[b] = n[Acq]
        PROVE  Starts(w, p, m, Rel, batch_next'[b])
    <3>1. n[Acq] > 0 /\ b = e
      BY <2>3, <1>3, <1>32
    <3> QED BY <3>1, <1>3, <1>12, <1>20 DEF Starts
  <2>4. \A b \in Buffers : w[b] = Rel /\ p[b] = m => batch_next'[b] = NoBuffer
    BY <1>20, <1>32
  <2>5. Relinked(w, p, Acq, n[Acq], Rel, m, batch_next, batch_next')
    BY <2>1, <2>2, <2>3, <2>4 DEF Relinked
  <2> QED BY <2>5, <1>3, <1>12, <1>25, <1>27, <1>33, <1>34, SplicedTied
<1>37. Starts(w2, p2, n[Acq] + m, t, h)
  <2>1. n[Acq] + m # 0
    BY <1>3, <1>12
  <2>2. ASSUME NEW b \in Buffers, w2[b] = t, p2[b] = 1 PROVE h = b
    <3>1. \/ w[b] = Acq /\ p[b] \in 1 .. n[Acq] /\ p2[b] = p[b]
          \/ w[b] = Rel /\ p[b] \in 1 .. m /\ p2[b] = p[b] + n[Acq]
      BY <2>2, <1>33 DEF Spliced
    <3>2. CASE w[b] = Acq /\ p[b] \in 1 .. n[Acq] /\ p2[b] = p[b]
      <4>1. n[Acq] # 0 /\ p[b] = 1
        BY <3>2, <2>2, <1>3
      <4> QED BY <4>1, <3>2, <1>3, <1>15 DEF Starts
    <3>3. CASE w[b] = Rel /\ p[b] \in 1 .. m /\ p2[b] = p[b] + n[Acq]
      <4>1. n[Acq] = 0 /\ p[b] = 1
        BY <3>3, <2>2, <1>3, <1>12
      <4> QED BY <4>1, <3>3, <1>3, <1>15 DEF Starts
    <3> QED BY <3>1, <3>2, <3>3
  <2> QED BY <2>1, <2>2 DEF Starts
<1>38. HandGood(w2, p2, n2, t)'
  <2>1. w2[last] = t /\ p2[last] = n[Acq] + m
    BY <1>3, <1>12, <1>14, <1>22, <1>23, <1>34
  <2>2. n2[t] >= 1
    BY <1>3, <1>12, <1>26
  <2> QED BY <2>1, <2>2, <1>7, <1>8, <1>14, <1>19, <1>26, <1>36, <1>37 DEF HandGood
<1>39. Slice(w, p, w2, p2, Acq, Rel, m, n2[Acq])
  <2>1. ASSUME NEW b \in Buffers
        PROVE  /\ w2[b] = Acq <=> w[b] = Rel /\ m < p[b] /\ p[b] <= m + n2[Acq]
               /\ w2[b] = Acq => p2[b] = p[b] - m
    <3>1. w2[b] = Acq <=> w[b] = Rel /\ ~(p[b] <= m)
      BY <1>8, <1>22, <1>34
    <3> QED BY <3>1, <1>3, <1>12, <1>23, <1>26, <1>32
  <2> QED BY <2>1 DEF Slice
<1>40. n2[Acq] \in Nat /\ m + n2[Acq] = n[Rel] /\ n[Rel] <= n[Rel]
  BY <1>3, <1>12, <1>26
<1>41. Row(w2, p2, n2[Acq], Acq)
  BY <1>3, <1>12, <1>27, <1>39, <1>40, SliceRow
<1>42. Tied(w2, p2, n2[Acq], Acq, batch_next')
  <2>1. ASSUME NEW b \in Buffers, w[b] = Rel, m < p[b] PROVE batch_next'[b] = batch_next[b]
    <3>1. b # last /\ b # e
      BY <2>1, <1>3, <1>8, <1>12, <1>14, <1>34, BufferFacts
    <3> QED BY <3>1, <1>20
  <2>2. \A b \in Buffers : w[b] = Rel /\ m < p[b] /\ p[b] = m + n2[Acq] => batch_next'[b] = NoBuffer
    BY <2>1, <1>3, <1>40 DEF Tied
  <2>3. \A b \in Buffers : w[b] = Rel /\ m < p[b] /\ p[b] < m + n2[Acq]
                           => batch_next'[b] = batch_next[b]
    BY <2>1
  <2> QED BY <2>2, <2>3, <1>3, <1>12, <1>27, <1>39, <1>40, SliceTied
<1>43. Starts(w2, p2, n2[Acq], Acq, acquire_head')
  <2>1. n2[Acq] = 0 => batch_next[last] = NoBuffer
    BY <1>3, <1>12, <1>14, <1>40 DEF Tied
  <2>2. ASSUME NEW b \in Buffers, w2[b] = Acq, p2[b] = 1 PROVE batch_next[last] = b
    <3>1. w[b] = Rel /\ p[b] = p[last] + 1
      BY <2>2, <1>3, <1>12, <1>14, <1>39 DEF Slice
    <3> QED BY <3>1, <1>3, <1>14 DEF Tied
  <2> QED BY <2>1, <2>2, <1>17 DEF Starts
<1>44. ListGood(w2, p2, n2[Acq], Acq, acquire_head)'
  BY <1>41, <1>42, <1>43 DEF ListGood
<1>45. ListGood(w2, p2, n2[Rel], Rel, release_head)'
  <2>1. \A b \in Buffers : w2[b] # Rel
    BY <1>8, <1>22, <1>34
  <2> QED BY <2>1, <1>7, <1>26, EmptyRow DEF ListGood
<1>46. \A b \in Buffers : w2[b] # Lost /\ b \in made'
  <2>1. \A b \in Buffers : w[b] # Lost
    BY <1>8, ShapeFacts
  <2> QED BY <2>1, <1>3, <1>7, <1>8, <1>22, OwnersDiffer DEF Owners
<1> QED BY <1>7, <1>21, <1>26, <1>28, <1>30, <1>35, <1>38, <1>44, <1>45, <1>46, ShapeStep

-----------------------------------------------------------------------------
LEMMA PoolStep == PoolInv /\ [PoolNext]_poolVars => PoolInv'
<1> SUFFICES ASSUME PoolInv, [PoolNext]_poolVars PROVE PoolInv'
  OBVIOUS
<1>1. CASE UNCHANGED poolListVars
  <2>1. PoolTypes /\ \E w, p, n : PoolShape(w, p, n)
    BY DEF PoolInv
  <2>2. PoolTypes'
    BY <2>1, <1>1 DEF PoolTypes, poolListVars
  <2>3. PICK w, p, n : PoolShape(w, p, n)
    BY <2>1
  <2>4. PoolShape(w, p, n)'
    BY <2>3, <1>1 DEF PoolShape, Layout, ListGood, HandGood, poolListVars
  <2> QED BY <2>2, <2>4 DEF PoolInv
<1>2. CASE PoolListNext
  <2>1. PICK t \in Users :
          \/ \E many \in BatchSizes : AcquireBatch(t, many)
          \/ NoneReleased(t) \/ StealReleased(t)
          \/ PeekAcquire(t) \/ PopAcquire(t) \/ PeekRelease(t) \/ StealAll(t) \/ PutRest(t)
          \/ Allocate(t) \/ ReleaseBatch(t)
    BY <1>2 DEF PoolListNext
  <2>2. ASSUME NEW many \in BatchSizes, AcquireBatch(t, many) PROVE PoolInv'
    <3>1. TakeAcquired(t, many) \/ RunOut(t, many)
      BY <2>2 DEF AcquireBatch
    <3> QED BY <3>1, <2>2, TakeAcquiredKeeps, RunOutKeeps
  <2> QED BY <2>1, <2>2, NoneReleasedKeeps, StealReleasedKeeps, PeekAcquireKeeps, PopAcquireKeeps,
             PeekReleaseKeeps, StealAllKeeps, PutRestKeeps, AllocateKeeps, ReleaseBatchKeeps
<1>3. ASSUME NEW bytes \in 1 .. MaxBytes, AcquireSend(bytes) PROVE UNCHANGED poolListVars
  BY <1>3 DEF AcquireSend
<1>4. ASSUME NEW batch, ReleaseSends(batch) PROVE UNCHANGED poolListVars
  BY <1>4 DEF ReleaseSends
<1>5. CASE UNCHANGED poolVars
  BY <1>1, <1>5 DEF poolVars, poolListVars
<1> QED BY <1>1, <1>2, <1>3, <1>4, <1>5 DEF PoolNext

LEMMA PoolInvExact == PoolInv => PoolExact
<1> SUFFICES ASSUME PoolInv PROVE PoolExact
  OBVIOUS
<1>1. PoolTypes
  BY DEF PoolInv
<1>2. PICK w, p, n : PoolShape(w, p, n)
  BY DEF PoolInv
<1> USE <1>1, <1>2
<1>3. /\ p \in [Buffers -> Nat] /\ n[Acq] \in Nat /\ n[Rel] \in Nat
      /\ Row(w, p, n[Acq], Acq) /\ Row(w, p, n[Rel], Rel)
      /\ Tied(w, p, n[Acq], Acq, batch_next) /\ Tied(w, p, n[Rel], Rel, batch_next)
      /\ Starts(w, p, n[Acq], Acq, acquire_head) /\ Starts(w, p, n[Rel], Rel, release_head)
  BY ShapeFacts
<1>4. batch_next \in Links
  BY DEF PoolTypes
<1>5. ASSUME NEW o, NEW head, NEW k \in Nat, Row(w, p, k, o), Tied(w, p, k, o, batch_next),
             Starts(w, p, k, o, head)
      PROVE  Ends(head) /\ InChain(batch_next, head) = {b \in Buffers : w[b] = o}
  BY <1>3, <1>4, <1>5, ChainFacts DEF Ends, BufferCount
<1>6. /\ Ends(acquire_head) /\ Ends(release_head)
      /\ Acquirable = {b \in Buffers : w[b] = Acq} /\ Returned = {b \in Buffers : w[b] = Rel}
  BY <1>3, <1>5 DEF Acquirable, Returned
<1>7. ASSUME NEW t \in Users
      PROVE  /\ HeldBy(t) = {b \in Buffers : w[b] = t}
             /\ pool = "fixed" /\ At(t, "has") =>
                  /\ Ends(user[t].head) /\ batch_next[user[t].tail] = NoBuffer
                  /\ user[t].tail \in HeldBy(t)
  <2>1. n[t] \in Nat /\ Row(w, p, n[t], t) /\ HandGood(w, p, n, t)
    BY HandFacts
  <2>2. CASE user[t].pc \notin {"put", "has"}
    <3>1. HeldBy(t) = {} /\ ~At(t, "has")
      BY <2>2 DEF HeldBy, At
    <3>2. \A b \in Buffers : w[b] # t
      BY <2>1, <2>2, EmptyRowHas DEF HandGood
    <3> QED BY <3>1, <3>2
  <2>3. CASE user[t].pc = "put"
    <3>1. Tied(w, p, n[t], t, batch_next) /\ Starts(w, p, n[t], t, user[t].head)
      BY <2>1, <2>3 DEF HandGood
    <3>2. HeldBy(t) = InChain(batch_next, user[t].head) /\ ~At(t, "has")
      BY <2>3 DEF HeldBy, At
    <3> QED BY <3>1, <3>2, <2>1, <1>5
  <2>4. CASE user[t].pc = "has" /\ pool = "fixed"
    <3>1. /\ Tied(w, p, n[t], t, batch_next) /\ Starts(w, p, n[t], t, user[t].head)
          /\ user[t].tail \in Buffers /\ w[user[t].tail] = t /\ p[user[t].tail] = n[t]
      BY <2>1, <2>4 DEF HandGood
    <3>2. HeldBy(t) = InChain(batch_next, user[t].head)
      BY <2>4 DEF HeldBy, At
    <3>3. Ends(user[t].head) /\ HeldBy(t) = {b \in Buffers : w[b] = t}
      BY <3>1, <3>2, <2>1, <1>5
    <3>4. batch_next[user[t].tail] = NoBuffer
      BY <3>1 DEF Tied
    <3> QED BY <3>1, <3>3, <3>4
  <2>5. CASE user[t].pc = "has" /\ pool # "fixed"
    <3>1. pool = "reuse" /\ n[t] = 1 /\ Starts(w, p, 1, t, user[t].head) /\ Row(w, p, 1, t)
      BY <2>1, <2>5 DEF HandGood
    <3>2. HeldBy(t) = {user[t].head}
      BY <3>1, <2>5 DEF HeldBy, At
    <3>3. user[t].head \in Buffers /\ w[user[t].head] = t
      <4>1. 1 \in 1 .. 1
        OBVIOUS
      <4>2. PICK b \in Buffers : w[b] = t /\ p[b] = 1
        BY <4>1, <3>1 DEF Row
      <4> QED BY <4>2, <3>1 DEF Starts
    <3>4. \A b \in Buffers : w[b] = t => b = user[t].head
      BY <3>1 DEF Row, Starts
    <3> QED BY <3>2, <3>3, <3>4, <2>5
  <2> QED BY <2>2, <2>3, <2>4, <2>5
<1>8. Acquirable \cap Returned = {}
  BY <1>6, OwnersDiffer
<1>9. \A t \in Users : /\ HeldBy(t) \cap (Acquirable \cup Returned) = {}
                       /\ \A v \in Users \ {t} : HeldBy(t) \cap HeldBy(v) = {}
  BY <1>6, <1>7, OwnersDiffer
<1>10. ASSUME pool = "fixed"
       PROVE  Acquirable \cup Returned \cup UNION {HeldBy(t) : t \in Users} = Buffers
  <2>1. \A b \in Buffers : w[b] \in Owners
    BY <1>10, ShapeFacts
  <2>2. ASSUME NEW b \in Buffers
        PROVE  b \in Acquirable \cup Returned \cup UNION {HeldBy(t) : t \in Users}
    <3>1. CASE w[b] \in Users
      BY <3>1, <1>7
    <3>2. CASE w[b] \in {Acq, Rel}
      BY <3>2, <1>6
    <3> QED BY <3>1, <3>2, <2>1 DEF Owners
  <2>3. Acquirable \subseteq Buffers /\ Returned \subseteq Buffers /\ \A t \in Users : HeldBy(t) \subseteq Buffers
    BY <1>6, <1>7
  <2> QED BY <2>2, <2>3
<1> QED BY <1>6, <1>7, <1>8, <1>9, <1>10 DEF PoolExact

(* PoolExact, for every number of buffers, threads and batch sizes: whatever is
   released between the peek at the release list and the lock, and whoever
   takes it, a buffer has one place, the lists end, and a fixed set loses none
   (BufferAllocator, FileWriteAllocator, ReuseAllocator). *)
THEOREM PoolCorrect == PoolSpec => []PoolExact
<1>1. PoolInit => PoolInv
  BY PoolInitially
<1>2. PoolInv /\ [PoolNext]_poolVars => PoolInv'
  BY PoolStep
<1>3. PoolInv => PoolExact
  BY PoolInvExact
<1> QED BY <1>1, <1>2, <1>3, PTL DEF PoolSpec

-----------------------------------------------------------------------------
(* Singletons *)

Nested == [of : Singles, left : SUBSET Singles]

SingletonTypes ==
  /\ uses \in [Singles -> SUBSET Singles] /\ \A s \in Singles : \A t \in uses[s] : t < s
  /\ wish \in [Singles -> {"none", "first", "last"}]
  /\ final_priority \in [Singles -> Int]
  /\ init_success \in [Singles -> BOOLEAN] /\ init \in [Singles -> BOOLEAN]
  /\ stack \in Seq(Nested) /\ active_list \in Seq(Singles)
  /\ final \in {"no", "yes"}

(* s stands on t: t came up, will be finalized before s, and did not fail
   unless s is said to have failed too. *)
StandsOn(s, t) == init[t] /\ final_priority[t] < final_priority[s]
                  /\ (init_success[s] => init_success[t])

(* The singletons of the nest are coming up, each for the one behind it; they
   stand on what they have used so far. *)
NestAt(i) ==
  /\ stack[i].left \subseteq uses[stack[i].of] /\ ~init[stack[i].of]
  /\ \A t \in uses[stack[i].of] \ stack[i].left : StandsOn(stack[i].of, t)
NestGood ==
  /\ \A i \in 1 .. Len(stack) : NestAt(i)
  /\ \A i, j \in 1 .. Len(stack) : i < j => stack[i].of < stack[j].of

UpGood ==
  \A s \in Singles : init[s] =>
    final_priority[s] >= 0 /\ \A t \in uses[s] : StandsOn(s, t)

(* The list holds what came up, each once. *)
ListHolds(list) ==
  /\ \A i \in 1 .. Len(list) : init[list[i]]
  /\ \A s \in Singles : init[s] => \E i \in 1 .. Len(list) : list[i] = s
  /\ \A i, j \in 1 .. Len(list) : i # j => list[i] # list[j]

InFinalOrder ==
  final = "yes" =>
    /\ stack = << >>
    /\ \A i, j \in 1 .. Len(active_list) :
         final_priority[active_list[i]] < final_priority[active_list[j]] => i < j

SingletonInv == SingletonTypes /\ NestGood /\ UpGood /\ ListHolds(active_list) /\ InFinalOrder

-----------------------------------------------------------------------------
(* An element put in front of a sequence. *)
LEMMA PutInFront ==
  ASSUME NEW X, NEW s \in Seq(X), NEW x \in X
  PROVE  /\ <<x>> \o s \in Seq(X) /\ Len(<<x>> \o s) = Len(s) + 1
         /\ (<<x>> \o s)[1] = x
         /\ \A i \in 2 .. Len(s) + 1 : (<<x>> \o s)[i] = s[i - 1]
<1>1. <<x>> \in Seq(X) /\ Len(<<x>>) = 1 /\ <<x>>[1] = x
  OBVIOUS
<1>2. /\ <<x>> \o s \in Seq(X) /\ Len(<<x>> \o s) = Len(<<x>>) + Len(s)
      /\ \A i \in 1 .. Len(<<x>>) + Len(s) :
           (<<x>> \o s)[i] = IF i <= Len(<<x>>) THEN <<x>>[i] ELSE s[i - Len(<<x>>)]
  BY <1>1, ConcatProperties
<1>3. Len(s) \in Nat
  OBVIOUS
<1> DEFINE d == <<x>> \o s
<1> HIDE DEF d
<1>4. d[1] = x
  BY <1>1, <1>2, <1>3 DEF d
<1>5. ASSUME NEW i \in 2 .. Len(s) + 1 PROVE d[i] = s[i - 1]
  BY <1>1, <1>2, <1>3 DEF d
<1> QED BY <1>1, <1>2, <1>3, <1>4, <1>5 DEF d

LEMMA SingletonInitially == SingletonInit => SingletonInv
<1> SUFFICES ASSUME SingletonInit PROVE SingletonInv
  OBVIOUS
<1> USE DEF SingletonInit
<1>1. SingletonTypes
  BY DEF SingletonTypes
<1>2. NestGood /\ UpGood /\ ListHolds(active_list) /\ InFinalOrder
  BY DEF NestGood, UpGood, ListHolds, InFinalOrder
<1> QED BY <1>1, <1>2 DEF SingletonInv

-----------------------------------------------------------------------------
LEMMA NestTyped ==
  ASSUME SingletonTypes, NEW i \in 1 .. Len(stack)
  PROVE  /\ stack[i] \in Nested /\ stack[i].of \in Singles /\ stack[i].left \subseteq Singles
         /\ uses[stack[i].of] \subseteq Singles
         /\ \A t \in uses[stack[i].of] : t < stack[i].of
<1>1. stack[i] \in Nested
  BY DEF SingletonTypes
<1>2. stack[i].of \in Singles /\ stack[i].left \subseteq Singles
  BY <1>1 DEF Nested
<1>3. /\ uses[stack[i].of] \subseteq Singles
      /\ \A t \in uses[stack[i].of] : t < stack[i].of
  BY <1>2 DEF SingletonTypes
<1> QED BY <1>1, <1>2, <1>3

(* A step that changes nothing but the singleton s, which is not up. *)
OnlyAt(s) ==
  /\ s \in Singles /\ ~init[s] /\ uses' = uses
  /\ \A t \in Singles : t # s => /\ init'[t] = init[t]
                                 /\ final_priority'[t] = final_priority[t]
                                 /\ init_success'[t] = init_success[t]

LEMMA OthersStand ==
  ASSUME NEW s, OnlyAt(s), NEW a \in Singles, NEW t \in Singles, a # s, StandsOn(a, t)
  PROVE  StandsOn(a, t)'
<1>1. t # s
  BY DEF StandsOn, OnlyAt
<1> QED BY <1>1 DEF StandsOn, OnlyAt

LEMMA OthersNest ==
  ASSUME SingletonTypes, NestGood, NEW s, OnlyAt(s),
         NEW i \in 1 .. Len(stack), stack[i].of # s, NEW j, stack'[j] = stack[i]
  PROVE  NestAt(j)'
<1>0. PICK o, l : o = stack[i].of /\ l = stack[i].left
  OBVIOUS
<1>1. o \in Singles /\ uses[o] \subseteq Singles
  BY <1>0, NestTyped
<1>2. l \subseteq uses[o] /\ ~init[o] /\ \A t \in uses[o] \ l : StandsOn(o, t)
  BY <1>0 DEF NestGood, NestAt
<1>3. o # s /\ stack'[j].of = o /\ stack'[j].left = l /\ uses' = uses
  BY <1>0 DEF OnlyAt
<1>4. ~init'[o]
  BY <1>1, <1>2, <1>3 DEF OnlyAt
<1>5. ASSUME NEW t \in uses[o] \ l PROVE StandsOn(o, t)'
  BY <1>1, <1>2, <1>3, OthersStand
<1> QED BY <1>2, <1>3, <1>4, <1>5 DEF NestAt

LEMMA OthersUp ==
  ASSUME SingletonTypes, UpGood, NEW s, OnlyAt(s), NEW a \in Singles, a # s, init'[a]
  PROVE  final_priority'[a] >= 0 /\ \A t \in uses'[a] : StandsOn(a, t)'
<1>1. init[a] /\ uses' = uses /\ final_priority'[a] = final_priority[a]
  BY DEF OnlyAt
<1>2. final_priority[a] >= 0 /\ \A t \in uses[a] : StandsOn(a, t)
  BY <1>1 DEF UpGood
<1>3. uses[a] \subseteq Singles
  BY DEF SingletonTypes
<1>4. ASSUME NEW t \in uses[a] PROVE StandsOn(a, t)'
  BY <1>2, <1>3, OthersStand
<1> QED BY <1>1, <1>2, <1>4

-----------------------------------------------------------------------------
(* A singleton begins to come up: nothing that is up looks at it. *)
LEMMA BeginKeeps ==
  ASSUME SingletonInv, NEW s \in Singles, ~init[s], final = "no", Begin(s),
         \A i \in 1 .. Len(stack) : s < stack[i].of
  PROVE  SingletonInv'
<1> DEFINE e == [of |-> s, left |-> uses[s]]
<1>1. SingletonTypes /\ NestGood /\ UpGood
  BY DEF SingletonInv
<1>2. e \in Nested /\ stack \in Seq(Nested) /\ Len(stack) \in Nat
  BY <1>1 DEF SingletonTypes, Nested
<1>3. /\ stack' \in Seq(Nested) /\ Len(stack') = Len(stack) + 1 /\ stack'[1] = e
      /\ \A i \in 2 .. Len(stack) + 1 : stack'[i] = stack[i - 1]
  BY <1>2, PutInFront DEF Begin
<1>4. UNCHANGED <<uses, wish, init, active_list, final>>
  BY DEF Begin
<1>5. Wished(s) \in Int
  BY SingletonsAssumption DEF Wished
<1>6. final_priority' \in [Singles -> Int] /\ init_success' \in [Singles -> BOOLEAN]
  BY <1>1, <1>5 DEF Begin, SingletonTypes
<1>7. OnlyAt(s)
  BY <1>1, <1>4 DEF Begin, SingletonTypes, OnlyAt
<1>8. SingletonTypes'
  BY <1>1, <1>3, <1>4, <1>6 DEF SingletonTypes
<1>9. UpGood'
  <2>1. ~init'[s]
    BY <1>4
  <2> QED BY <2>1, <1>1, <1>7, OthersUp DEF UpGood
<1>10. e.of = s /\ e.left = uses[s]
  OBVIOUS
<1> HIDE DEF e
<1>11. ASSUME NEW i \in 1 .. Len(stack) + 1, i # 1
       PROVE  /\ i - 1 \in 1 .. Len(stack) /\ stack'[i] = stack[i - 1]
              /\ s < stack[i - 1].of /\ stack[i - 1].of # s
  <2>1. i - 1 \in 1 .. Len(stack) /\ i \in 2 .. Len(stack) + 1
    BY <1>11, <1>2
  <2>2. s < stack[i - 1].of
    BY <2>1
  <2>3. stack[i - 1].of \in Nat /\ s \in Nat
    BY <2>1, <1>1, NestTyped, SingletonsAssumption
  <2> QED BY <2>1, <2>2, <2>3, <1>3
<1>12. ASSUME NEW i \in 1 .. Len(stack) + 1 PROVE NestAt(i)'
  <2>1. CASE i = 1
    BY <2>1, <1>3, <1>4, <1>10 DEF NestAt
  <2>2. CASE i # 1
    BY <2>2, <1>1, <1>7, <1>11, OthersNest
  <2> QED BY <2>1, <2>2
<1>13. ASSUME NEW i \in 1 .. Len(stack) + 1, NEW j \in 1 .. Len(stack) + 1, i < j
       PROVE  stack'[i].of < stack'[j].of
  <2>1. j # 1
    BY <1>13
  <2>2. CASE i = 1
    BY <2>1, <2>2, <1>3, <1>10, <1>11
  <2>3. CASE i # 1
    <3>1. i - 1 < j - 1
      BY <1>13
    <3>2. stack[i - 1].of < stack[j - 1].of
      BY <2>1, <2>3, <3>1, <1>1, <1>11 DEF NestGood
    <3> QED BY <2>1, <2>3, <3>2, <1>11
  <2> QED BY <2>2, <2>3
<1>14. NestGood'
  BY <1>3, <1>12, <1>13 DEF NestGood
<1>15. ListHolds(active_list)' /\ InFinalOrder'
  BY <1>4 DEF SingletonInv, ListHolds, InFinalOrder
<1> QED BY <1>8, <1>9, <1>14, <1>15 DEF SingletonInv

LEMMA GetRefKeeps ==
  ASSUME SingletonInv, NEW s \in Singles, GetRef(s)
  PROVE  SingletonInv'
<1>1. stack = << >> /\ final = "no" /\ ~init[s] /\ Begin(s)
  BY DEF GetRef
<1>2. Len(stack) = 0
  BY <1>1
<1>3. \A i \in 1 .. Len(stack) : s < stack[i].of
  BY <1>2
<1> QED BY <1>1, <1>3, BeginKeeps

(* The singleton at the top of the nest. *)
LEMMA TopFacts ==
  ASSUME SingletonInv, stack # << >>
  PROVE  /\ Head(stack) = stack[1] /\ stack[1] \in Nested /\ stack[1].of \in Singles
         /\ stack[1].left \subseteq uses[stack[1].of]
         /\ uses[stack[1].of] \subseteq Singles /\ ~init[stack[1].of]
         /\ \A t \in uses[stack[1].of] : t < stack[1].of
         /\ \A t \in uses[stack[1].of] \ stack[1].left : StandsOn(stack[1].of, t)
         /\ stack \in Seq(Nested)
         /\ Len(stack) \in Nat /\ Len(stack) >= 1 /\ 1 \in 1 .. Len(stack) /\ final = "no"
         /\ \A i \in 2 .. Len(stack) : stack[1].of < stack[i].of /\ stack[i].of # stack[1].of
<1>1. stack \in Seq(Nested) /\ Len(stack) \in Nat /\ Len(stack) >= 1 /\ Head(stack) = stack[1]
  BY DEF SingletonInv, SingletonTypes
<1>2. 1 \in 1 .. Len(stack) /\ SingletonTypes /\ NestGood
  BY <1>1 DEF SingletonInv
<1>3. NestAt(1) /\ \A j \in 1 .. Len(stack) : 1 < j => stack[1].of < stack[j].of
  BY <1>2 DEF NestGood
<1>4. /\ stack[1] \in Nested /\ stack[1].of \in Singles /\ uses[stack[1].of] \subseteq Singles
      /\ \A t \in uses[stack[1].of] : t < stack[1].of
  BY <1>2, NestTyped
<1>5. final = "no"
  BY <1>2 DEF SingletonInv, SingletonTypes, InFinalOrder
<1>6. ASSUME NEW i \in 2 .. Len(stack)
      PROVE  stack[1].of < stack[i].of /\ stack[i].of # stack[1].of
  <2>1. i \in 1 .. Len(stack) /\ 1 < i
    BY <1>1
  <2>2. stack[1].of < stack[i].of
    BY <2>1, <1>3
  <2>3. stack[1].of \in Nat /\ stack[i].of \in Nat
    BY <2>1, <1>2, <1>4, NestTyped, SingletonsAssumption
  <2> QED BY <2>2, <2>3
<1> QED BY <1>1, <1>2, <1>3, <1>4, <1>5, <1>6 DEF NestAt

LEMMA UseFirstKeeps ==
  ASSUME SingletonInv, UseFirst
  PROVE  SingletonInv'
<1>0. stack # << >>
  BY DEF UseFirst
<1>1. PICK t \in Head(stack).left : ~init[t] /\ Begin(t)
  BY DEF UseFirst
<1>2. t \in Singles /\ t < stack[1].of /\ stack[1].of \in Singles /\ final = "no"
  BY <1>0, <1>1, TopFacts
<1>3. ASSUME NEW i \in 1 .. Len(stack) PROVE t < stack[i].of
  <2>1. CASE i = 1
    BY <2>1, <1>2
  <2>2. CASE i # 1
    <3>1. i \in 2 .. Len(stack)
      BY <2>2
    <3>2. stack[1].of < stack[i].of
      BY <3>1, <1>0, TopFacts
    <3>3. stack[i].of \in Singles
      BY NestTyped DEF SingletonInv
    <3>4. t \in Nat /\ stack[1].of \in Nat /\ stack[i].of \in Nat
      BY <3>3, <1>2, SingletonsAssumption
    <3> QED BY <3>2, <3>4, <1>2
  <2> QED BY <2>1, <2>2
<1> QED BY <1>1, <1>2, <1>3, BeginKeeps

LEMMA UpdatePriorityKeeps ==
  ASSUME SingletonInv, UpdatePriority
  PROVE  SingletonInv'
<1>0. stack # << >>
  BY DEF UpdatePriority
<1> PICK s, left : s = stack[1].of /\ left = stack[1].left
  OBVIOUS
<1>1. Head(stack) = stack[1]
  BY <1>0, TopFacts
<1>2. PICK t \in left :
        /\ init[t]
        /\ final_priority' = [final_priority EXCEPT ![s] = Raised(s, t)]
        /\ init_success' = [init_success EXCEPT ![s] = Passed(s, t)]
        /\ stack' = [stack EXCEPT ![1].left = @ \ {t}]
  BY <1>1 DEF UpdatePriority
<1>3. /\ s \in Singles /\ left \subseteq uses[s] /\ uses[s] \subseteq Singles /\ ~init[s]
      /\ \A x \in uses[s] \ left : StandsOn(s, x)
      /\ \A i \in 2 .. Len(stack) : s < stack[i].of /\ stack[i].of # s
  BY <1>0, TopFacts
<1>4. /\ stack[1] \in Nested /\ stack \in Seq(Nested) /\ final = "no"
      /\ Len(stack) \in Nat /\ Len(stack) >= 1 /\ 1 \in 1 .. Len(stack)
  BY <1>0, TopFacts
<1>5. SingletonTypes /\ NestGood /\ UpGood /\ UNCHANGED <<uses, wish, init, active_list, final>>
  BY DEF SingletonInv, UpdatePriority
<1> DEFINE e == [stack[1] EXCEPT !.left = @ \ {t}]
<1>6. e \in Nested /\ e.of = s /\ e.left = left \ {t}
  BY <1>4 DEF Nested
<1>7. stack' = [stack EXCEPT ![1] = e]
  BY <1>2
<1> HIDE DEF e
<1>8. /\ stack' \in Seq(Nested) /\ Len(stack') = Len(stack)
      /\ \A i \in 1 .. Len(stack) : stack'[i] = IF i = 1 THEN e ELSE stack[i]
  BY <1>4, <1>6, <1>7, ExceptSeq
<1>9. t \in Singles /\ final_priority[s] \in Int /\ final_priority[t] \in Int
      /\ init_success[s] \in BOOLEAN /\ init_success[t] \in BOOLEAN
  BY <1>2, <1>3, <1>5 DEF SingletonTypes
<1>10. Raised(s, t) \in Int /\ final_priority[s] <= Raised(s, t) /\ final_priority[t] < Raised(s, t)
  BY <1>9 DEF Raised
<1>11. Passed(s, t) \in BOOLEAN /\ (Passed(s, t) => init_success[s] /\ init_success[t])
  BY <1>9 DEF Passed
<1>12. /\ final_priority' \in [Singles -> Int] /\ init_success' \in [Singles -> BOOLEAN]
       /\ final_priority'[s] = Raised(s, t) /\ init_success'[s] = Passed(s, t)
  BY <1>2, <1>3, <1>5, <1>10, <1>11 DEF SingletonTypes
<1>13. OnlyAt(s)
  BY <1>2, <1>3, <1>5 DEF SingletonTypes, OnlyAt
<1>14. SingletonTypes'
  BY <1>5, <1>8, <1>12 DEF SingletonTypes
<1>15. ASSUME NEW x \in Singles, x # s, init[x], final_priority[x] < Raised(s, t),
              Passed(s, t) => init_success[x]
       PROVE  StandsOn(s, x)'
  <2>1. init'[x] /\ final_priority'[x] = final_priority[x] /\ init_success'[x] = init_success[x]
    BY <1>5, <1>13, <1>15 DEF OnlyAt
  <2>2. final_priority'[x] < final_priority'[s]
    BY <2>1, <1>12, <1>15
  <2>3. init_success'[s] => init_success'[x]
    BY <2>1, <1>12, <1>15
  <2> QED BY <2>1, <2>2, <2>3 DEF StandsOn
<1>16. ASSUME NEW x \in uses[s] \ (left \ {t}) PROVE StandsOn(s, x)'
  <2>1. CASE x = t
    <3>1. t # s
      BY <1>2, <1>3
    <3> QED BY <2>1, <3>1, <1>2, <1>9, <1>10, <1>11, <1>15
  <2>2. CASE x # t
    <3>1. StandsOn(s, x) /\ x \in Singles
      BY <2>2, <1>3
    <3>2. x # s /\ init[x] /\ final_priority[x] < final_priority[s] /\ (init_success[s] => init_success[x])
      BY <3>1, <1>3 DEF StandsOn
    <3>3. final_priority[x] \in Int
      BY <3>1, <1>5 DEF SingletonTypes
    <3>4. final_priority[x] < Raised(s, t)
      BY <3>2, <3>3, <1>9, <1>10
    <3> QED BY <3>1, <3>2, <3>4, <1>11, <1>15
  <2> QED BY <2>1, <2>2
<1>17. UpGood'
  <2>1. ~init'[s]
    BY <1>3, <1>5
  <2> QED BY <2>1, <1>5, <1>13, OthersUp DEF UpGood
<1>18. ASSUME NEW i \in 1 .. Len(stack) PROVE NestAt(i)' /\ stack'[i].of = stack[i].of
  <2>1. CASE i = 1
    <3>1. stack'[i] = e /\ stack[i].of = s
      BY <2>1, <1>8
    <3>2. e.left \subseteq uses[s]
      BY <1>3, <1>6
    <3> QED BY <3>1, <3>2, <1>3, <1>5, <1>6, <1>16 DEF NestAt
  <2>2. CASE i # 1
    <3>1. i \in 2 .. Len(stack) /\ stack'[i] = stack[i]
      BY <2>2, <1>4, <1>8
    <3>2. stack[i].of # s
      BY <3>1, <1>3
    <3> QED BY <3>1, <3>2, <1>5, <1>13, OthersNest
  <2> QED BY <2>1, <2>2
<1>19. NestGood'
  <2>1. ASSUME NEW i \in 1 .. Len(stack), NEW j \in 1 .. Len(stack), i < j
        PROVE  stack'[i].of < stack'[j].of
    <3>1. stack[i].of < stack[j].of
      BY <2>1, <1>5 DEF NestGood
    <3> QED BY <3>1, <1>18
  <2> QED BY <2>1, <1>8, <1>18 DEF NestGood
<1>20. ListHolds(active_list)' /\ InFinalOrder'
  BY <1>4, <1>5 DEF SingletonInv, ListHolds, InFinalOrder
<1> QED BY <1>14, <1>17, <1>19, <1>20 DEF SingletonInv

LEMMA InitializedKeeps ==
  ASSUME SingletonInv, NEW ok \in BOOLEAN, Initialized(ok)
  PROVE  SingletonInv'
<1>0. stack # << >>
  BY DEF Initialized
<1> PICK s : s = stack[1].of
  OBVIOUS
<1>1. /\ Head(stack) = stack[1] /\ s \in Singles /\ uses[s] \subseteq Singles /\ ~init[s]
      /\ \A i \in 2 .. Len(stack) : s < stack[i].of /\ stack[i].of # s
      /\ stack \in Seq(Nested) /\ final = "no" /\ Len(stack) \in Nat /\ Len(stack) >= 1
  BY <1>0, TopFacts
<1>2. /\ stack[1].left = {}
      /\ init_success' = [init_success EXCEPT ![s] = @ /\ ok]
      /\ final_priority' = [final_priority EXCEPT ![s] = IF @ < 0 THEN 1 ELSE @]
      /\ init' = [init EXCEPT ![s] = TRUE]
      /\ active_list' = <<s>> \o active_list
      /\ stack' = Tail(stack) /\ UNCHANGED <<uses, wish, final>>
  BY <1>1 DEF Initialized
<1>3. \A x \in uses[s] : StandsOn(s, x)
  BY <1>0, <1>2, TopFacts
<1>4. SingletonTypes /\ NestGood /\ UpGood /\ ListHolds(active_list)
  BY DEF SingletonInv
<1>5. OnlyAt(s)
  BY <1>1, <1>2, <1>4 DEF OnlyAt, SingletonTypes
<1>6. /\ stack' \in Seq(Nested) /\ Len(stack') = Len(stack) - 1
      /\ \A i \in 1 .. Len(stack) - 1 : stack'[i] = stack[i + 1]
  BY <1>0, <1>1, <1>2, HeadTailProperties
<1>7. /\ active_list \in Seq(Singles) /\ Len(active_list) \in Nat
      /\ active_list' \in Seq(Singles) /\ Len(active_list') = Len(active_list) + 1
      /\ active_list'[1] = s
      /\ \A i \in 2 .. Len(active_list) + 1 : active_list'[i] = active_list[i - 1]
  <2>1. active_list \in Seq(Singles) /\ Len(active_list) \in Nat
    BY <1>4 DEF SingletonTypes
  <2> QED BY <2>1, <1>1, <1>2, PutInFront
<1>8. final_priority[s] \in Int /\ init_success[s] \in BOOLEAN
  BY <1>1, <1>4 DEF SingletonTypes
<1>9. /\ final_priority'[s] = IF final_priority[s] < 0 THEN 1 ELSE final_priority[s]
      /\ init_success'[s] = (init_success[s] /\ ok) /\ init'[s] = TRUE
  BY <1>1, <1>2, <1>4 DEF SingletonTypes
<1>10. final_priority'[s] \in Int /\ final_priority'[s] >= final_priority[s] /\ final_priority'[s] >= 0
  BY <1>8, <1>9
<1>11. SingletonTypes'
  <2>0. (IF final_priority[s] < 0 THEN 1 ELSE final_priority[s]) \in Int
    BY <1>8
  <2>1. final_priority' \in [Singles -> Int]
    BY <2>0, <1>2, <1>4 DEF SingletonTypes
  <2>2. init_success' \in [Singles -> BOOLEAN] /\ init' \in [Singles -> BOOLEAN]
    BY <1>2, <1>4, <1>8 DEF SingletonTypes
  <2> QED BY <2>1, <2>2, <1>2, <1>4, <1>6, <1>7 DEF SingletonTypes
<1>12. ASSUME NEW x \in uses[s] PROVE StandsOn(s, x)'
  <2>1. x \in Singles /\ init[x] /\ x # s
    BY <1>1, <1>3 DEF StandsOn
  <2>2. init'[x] /\ final_priority'[x] = final_priority[x] /\ init_success'[x] = init_success[x]
    BY <2>1, <1>5 DEF OnlyAt
  <2>3. final_priority'[x] < final_priority'[s]
    <3>1. final_priority[x] \in Int
      BY <2>1, <1>4 DEF SingletonTypes
    <3>2. final_priority[x] < final_priority[s]
      BY <1>3 DEF StandsOn
    <3> QED BY <3>1, <3>2, <2>2, <1>8, <1>10
  <2>4. init_success'[s] => init_success'[x]
    BY <2>2, <1>3, <1>9 DEF StandsOn
  <2> QED BY <2>2, <2>3, <2>4 DEF StandsOn
<1>13. UpGood'
  <2> SUFFICES ASSUME NEW a \in Singles, init'[a]
               PROVE  final_priority'[a] >= 0 /\ \A x \in uses'[a] : StandsOn(a, x)'
    BY DEF UpGood
  <2>1. CASE a = s
    BY <2>1, <1>2, <1>10, <1>12
  <2>2. CASE a # s
    BY <2>2, <1>4, <1>5, OthersUp
  <2> QED BY <2>1, <2>2
<1>14. ASSUME NEW i \in 1 .. Len(stack) - 1
       PROVE  /\ i + 1 \in 1 .. Len(stack) /\ stack'[i] = stack[i + 1] /\ stack[i + 1].of # s
              /\ NestAt(i)'
  <2>1. i + 1 \in 1 .. Len(stack) /\ i + 1 \in 2 .. Len(stack)
    BY <1>1
  <2>2. stack'[i] = stack[i + 1] /\ stack[i + 1].of # s
    BY <2>1, <1>1, <1>6
  <2> QED BY <2>1, <2>2, <1>4, <1>5, OthersNest
<1>15. NestGood'
  <2>1. ASSUME NEW i \in 1 .. Len(stack) - 1, NEW j \in 1 .. Len(stack) - 1, i < j
        PROVE  stack'[i].of < stack'[j].of
    <3>1. i + 1 < j + 1
      BY <2>1
    <3>2. stack[i + 1].of < stack[j + 1].of
      BY <3>1, <1>4, <1>14 DEF NestGood
    <3> QED BY <3>2, <1>14
  <2> QED BY <2>1, <1>6, <1>14 DEF NestGood
<1>16. ListHolds(active_list)'
  <2>1. ASSUME NEW i \in 1 .. Len(active_list) + 1, i # 1
        PROVE  /\ i - 1 \in 1 .. Len(active_list) /\ active_list'[i] = active_list[i - 1]
               /\ active_list[i - 1] \in Singles /\ init[active_list[i - 1]]
               /\ active_list'[i] # s
    <3>1. i - 1 \in 1 .. Len(active_list) /\ i \in 2 .. Len(active_list) + 1
      BY <2>1, <1>7
    <3> QED BY <3>1, <1>1, <1>4, <1>7 DEF ListHolds
  <2>2. ASSUME NEW i \in 1 .. Len(active_list) + 1 PROVE init'[active_list'[i]]
    <3>1. CASE i = 1
      BY <3>1, <1>7, <1>9
    <3>2. CASE i # 1
      BY <3>2, <2>1, <1>5 DEF OnlyAt
    <3> QED BY <3>1, <3>2
  <2>3. ASSUME NEW a \in Singles, init'[a]
        PROVE  \E i \in 1 .. Len(active_list) + 1 : active_list'[i] = a
    <3>1. CASE a = s
      <4>1. 1 \in 1 .. Len(active_list) + 1
        BY <1>7
      <4> QED BY <4>1, <3>1, <1>7
    <3>2. CASE a # s
      <4>1. init[a]
        BY <2>3, <3>2, <1>5 DEF OnlyAt
      <4>2. PICK i \in 1 .. Len(active_list) : active_list[i] = a
        BY <4>1, <1>4 DEF ListHolds
      <4>3. i + 1 \in 2 .. Len(active_list) + 1 /\ i + 1 \in 1 .. Len(active_list) + 1 /\ (i + 1) - 1 = i
        BY <1>7
      <4>4. active_list'[i + 1] = a
        BY <4>2, <4>3, <1>7
      <4> QED BY <4>3, <4>4
    <3> QED BY <3>1, <3>2
  <2>4. ASSUME NEW i \in 1 .. Len(active_list) + 1, NEW j \in 1 .. Len(active_list) + 1, i # j
        PROVE  active_list'[i] # active_list'[j]
    <3>1. CASE i = 1
      BY <3>1, <2>1, <2>4, <1>7
    <3>2. CASE j = 1
      BY <3>2, <2>1, <2>4, <1>7
    <3>3. CASE i # 1 /\ j # 1
      <4>1. i - 1 # j - 1
        BY <2>4
      <4>2. active_list[i - 1] # active_list[j - 1]
        BY <3>3, <4>1, <2>1, <1>4 DEF ListHolds
      <4> QED BY <3>3, <4>2, <2>1
    <3> QED BY <3>1, <3>2, <3>3
  <2> QED BY <2>2, <2>3, <2>4, <1>7 DEF ListHolds
<1>17. InFinalOrder'
  BY <1>1, <1>2 DEF InFinalOrder
<1> QED BY <1>11, <1>13, <1>15, <1>16, <1>17 DEF SingletonInv

-----------------------------------------------------------------------------
(* The list as a numbering of what is watched. *)
LEMMA WatchedFacts ==
  ASSUME SingletonTypes, ListHolds(active_list)
  PROVE  /\ Watched = {s \in Singles : init[s]}
         /\ IsFiniteSet(Watched) /\ Cardinality(Watched) = Len(active_list)
         /\ Len(active_list) \in Nat
         /\ \A i \in 1 .. Len(active_list) : active_list[i] \in Watched /\ Position(active_list[i]) = i
         /\ \A s \in Watched : Position(s) \in 1 .. Len(active_list) /\ active_list[Position(s)] = s
<1>1. /\ active_list \in Seq(Singles) /\ Len(active_list) \in Nat
      /\ \A i \in 1 .. Len(active_list) : active_list[i] \in Singles
  BY DEF SingletonTypes
<1>2. Watched = {s \in Singles : init[s]}
  BY <1>1 DEF ListHolds, Watched
<1>3. \A i \in 1 .. Len(active_list) : active_list[i] \in Watched
  BY DEF Watched
<1>4. ASSUME NEW s \in Watched
      PROVE  Position(s) \in 1 .. Len(active_list) /\ active_list[Position(s)] = s
  <2>1. \E n \in 1 .. Len(active_list) : active_list[n] = s
    BY DEF Watched
  <2> QED BY <2>1 DEF Position
<1>5. ASSUME NEW i \in 1 .. Len(active_list) PROVE Position(active_list[i]) = i
  BY <1>3, <1>4 DEF ListHolds
<1> DEFINE S == 1 .. Len(active_list)
           f == [i \in S |-> active_list[i]]
<1>6. f \in Bijection(S, Watched)
  <2>1. f \in [S -> Watched]
    BY <1>3
  <2>2. \A i, j \in S : f[i] = f[j] => i = j
    BY DEF ListHolds
  <2>3. \A s \in Watched : \E i \in S : f[i] = s
    BY DEF Watched
  <2> HIDE DEF S, f
  <2> QED BY <2>1, <2>2, <2>3 DEF Bijection, Injection, Surjection, IsInjective
<1>7. IsFiniteSet(S) /\ Cardinality(S) = Len(active_list)
  <2>1. 1 \in Int /\ Len(active_list) \in Int
    BY <1>1
  <2>2. /\ IsFiniteSet(S)
        /\ Cardinality(S) = IF 1 > Len(active_list) THEN 0 ELSE (Len(active_list) - 1) + 1
    BY <2>1, FS_Interval, Zenon
  <2> QED BY <2>2, <1>1
<1>8. ExistsBijection(S, Watched)
  BY <1>6 DEF ExistsBijection
<1>9. IsFiniteSet(Watched) /\ Cardinality(Watched) = Len(active_list)
  BY <1>7, <1>8, FS_Bijection
<1> QED BY <1>1, <1>2, <1>3, <1>4, <1>5, <1>9

(* What is finalized before s, and how many there are of it. *)
Ahead(s) == {t \in Watched : Before(t, s)}
Turn(s) == Cardinality(Ahead(s))

LEMMA BeforeFacts ==
  ASSUME SingletonTypes, ListHolds(active_list)
  PROVE  /\ \A s, t \in Watched : s # t => Before(s, t) \/ Before(t, s)
         /\ \A s \in Watched : ~Before(s, s)
         /\ \A s, t, u \in Watched : Before(s, t) /\ Before(t, u) => Before(s, u)
         /\ \A s, t \in Watched : final_priority[s] < final_priority[t] => Before(s, t)
<1>1. \A s \in Watched : final_priority[s] \in Int /\ Position(s) \in Nat
  BY WatchedFacts DEF SingletonTypes
<1>2. \A s, t \in Watched : Position(s) = Position(t) => s = t
  BY WatchedFacts
<1>3. ASSUME NEW s \in Watched, NEW t \in Watched
      PROVE  /\ s # t => Before(s, t) \/ Before(t, s)
             /\ ~Before(s, s)
             /\ final_priority[s] < final_priority[t] => Before(s, t)
  BY <1>1, <1>2 DEF Before
<1>4. ASSUME NEW s \in Watched, NEW t \in Watched, NEW u \in Watched,
             Before(s, t), Before(t, u)
      PROVE  Before(s, u)
  BY <1>1, <1>4 DEF Before
<1> QED BY <1>3, <1>4

LEMMA TurnRises ==
  ASSUME SingletonTypes, ListHolds(active_list),
         NEW s \in Watched, NEW t \in Watched, Before(s, t)
  PROVE  Turn(s) < Turn(t)
<1>1. IsFiniteSet(Watched)
  BY WatchedFacts
<1>2. Ahead(t) \in SUBSET Watched /\ Ahead(s) \in SUBSET Ahead(t)
  BY BeforeFacts DEF Ahead
<1>3. s \in Ahead(t) /\ s \notin Ahead(s)
  BY BeforeFacts DEF Ahead
<1>4. IsFiniteSet(Ahead(t))
  BY <1>1, <1>2, FS_Subset
<1>5. IsFiniteSet(Ahead(s)) /\ Turn(s) <= Turn(t) /\ Turn(s) # Turn(t)
  BY <1>2, <1>3, <1>4, FS_Subset DEF Turn
<1>6. Turn(s) \in Nat /\ Turn(t) \in Nat
  BY <1>4, <1>5, FS_CardinalityType DEF Turn
<1> QED BY <1>5, <1>6

LEMMA TurnsAreAll ==
  ASSUME SingletonTypes, ListHolds(active_list)
  PROVE  /\ \A s \in Watched : Turn(s) \in 0 .. Len(active_list) - 1
         /\ \A n \in 0 .. Len(active_list) - 1 : \E s \in Watched : Turn(s) = n
         /\ \A s, t \in Watched : Turn(s) = Turn(t) => s = t
<1>1. /\ IsFiniteSet(Watched) /\ Cardinality(Watched) = Len(active_list)
      /\ Len(active_list) \in Nat
  BY WatchedFacts
<1>2. ASSUME NEW s \in Watched PROVE Turn(s) \in 0 .. Len(active_list) - 1
  <2>1. Ahead(s) \in SUBSET Watched /\ s \notin Ahead(s)
    BY BeforeFacts DEF Ahead
  <2>2. IsFiniteSet(Ahead(s)) /\ Turn(s) <= Len(active_list) /\ Turn(s) # Len(active_list)
    BY <2>1, <1>1, FS_Subset DEF Turn
  <2>3. Turn(s) \in Nat
    BY <2>2, FS_CardinalityType DEF Turn
  <2> QED BY <2>2, <2>3, <1>1
<1>3. ASSUME NEW s \in Watched, NEW t \in Watched, Turn(s) = Turn(t) PROVE s = t
  <2> SUFFICES ASSUME s # t PROVE FALSE
    OBVIOUS
  <2>1. Turn(s) < Turn(t) \/ Turn(t) < Turn(s)
    BY BeforeFacts, TurnRises
  <2> QED BY <2>1, <1>2, <1>3
<1> DEFINE T == 0 .. Len(active_list) - 1
           f == [s \in Watched |-> Turn(s)]
<1>4. IsFiniteSet(T) /\ Cardinality(T) = Len(active_list)
  <2>1. 0 \in Int /\ Len(active_list) - 1 \in Int
    BY <1>1
  <2>2. /\ IsFiniteSet(T)
        /\ Cardinality(T) = IF 0 > Len(active_list) - 1 THEN 0 ELSE (Len(active_list) - 1) - 0 + 1
    BY <2>1, FS_Interval, Zenon
  <2> QED BY <2>2, <1>1
<1>5. f \in [Watched -> T] /\ \A s, t \in Watched : f[s] = f[t] => s = t
  BY <1>2, <1>3
<1>6. \A n \in T : \E s \in Watched : f[s] = n
  <2> HIDE DEF T, f
  <2>1. f \in Injection(Watched, T)
    BY <1>5 DEF Injection, IsInjective
  <2>2. f \in Surjection(Watched, T)
    BY <2>1, <1>1, <1>4, FS_Injection
  <2> QED BY <2>2 DEF Surjection
<1> QED BY <1>2, <1>3, <1>6

LEMMA FinalOrderFacts ==
  ASSUME SingletonTypes, ListHolds(active_list)
  PROVE  /\ FinalOrder \in Seq(Singles) /\ Len(FinalOrder) = Len(active_list)
         /\ \A n \in 1 .. Len(active_list) : FinalOrder[n] \in Watched /\ Turn(FinalOrder[n]) = n - 1
<1>1. Len(active_list) \in Nat /\ Watched \subseteq Singles
  BY WatchedFacts
<1>2. FinalOrder = [n \in 1 .. Len(active_list) |-> CHOOSE s \in Watched : Turn(s) = n - 1]
  BY DEF FinalOrder, Turn, Ahead
<1>3. ASSUME NEW n \in 1 .. Len(active_list)
      PROVE  FinalOrder[n] \in Watched /\ Turn(FinalOrder[n]) = n - 1
  <2>1. n - 1 \in 0 .. Len(active_list) - 1
    BY <1>1
  <2>2. \E s \in Watched : Turn(s) = n - 1
    BY <2>1, TurnsAreAll
  <2>3. FinalOrder[n] = CHOOSE s \in Watched : Turn(s) = n - 1
    BY <1>2
  <2> QED BY <2>2, <2>3
<1>4. FinalOrder \in [1 .. Len(active_list) -> Singles]
  BY <1>1, <1>2, <1>3
<1>5. FinalOrder \in Seq(Singles) /\ Len(FinalOrder) = Len(active_list)
  BY <1>1, <1>4
<1> QED BY <1>3, <1>5

LEMMA OnFinalizeKeeps ==
  ASSUME SingletonInv, OnFinalize
  PROVE  SingletonInv'
<1>1. SingletonTypes /\ NestGood /\ UpGood /\ ListHolds(active_list)
  BY DEF SingletonInv
<1>2. /\ active_list' = FinalOrder /\ final' = "yes" /\ stack = << >>
      /\ UNCHANGED <<uses, wish, final_priority, init_success, init, stack>>
  BY DEF OnFinalize
<1>3. /\ active_list' \in Seq(Singles) /\ Len(active_list') = Len(active_list)
      /\ \A n \in 1 .. Len(active_list) :
           active_list'[n] \in Watched /\ Turn(active_list'[n]) = n - 1
  BY <1>1, <1>2, FinalOrderFacts
<1>4. Watched = {s \in Singles : init[s]} /\ Len(active_list) \in Nat
  BY <1>1, WatchedFacts
<1>5. SingletonTypes'
  BY <1>1, <1>2, <1>3 DEF SingletonTypes
<1>6. NestGood' /\ UpGood'
  BY <1>1, <1>2 DEF NestGood, NestAt, UpGood, StandsOn
<1>7. ListHolds(active_list)'
  <2>1. \A i \in 1 .. Len(active_list) : init[active_list'[i]]
    BY <1>3, <1>4
  <2>2. ASSUME NEW s \in Singles, init[s]
        PROVE  \E i \in 1 .. Len(active_list) : active_list'[i] = s
    <3>1. s \in Watched
      BY <2>2, <1>4
    <3>2. Turn(s) + 1 \in 1 .. Len(active_list) /\ (Turn(s) + 1) - 1 = Turn(s)
      BY <3>1, <1>1, <1>4, TurnsAreAll
    <3>3. active_list'[Turn(s) + 1] \in Watched /\ Turn(active_list'[Turn(s) + 1]) = Turn(s)
      BY <3>2, <1>3
    <3>4. active_list'[Turn(s) + 1] = s
      BY <3>1, <3>3, <1>1, TurnsAreAll
    <3> QED BY <3>2, <3>4
  <2>3. ASSUME NEW i \in 1 .. Len(active_list), NEW j \in 1 .. Len(active_list), i # j
        PROVE  active_list'[i] # active_list'[j]
    BY <2>3, <1>3
  <2> QED BY <2>1, <2>2, <2>3, <1>2, <1>3 DEF ListHolds
<1>8. InFinalOrder'
  <2>1. ASSUME NEW i \in 1 .. Len(active_list), NEW j \in 1 .. Len(active_list),
               final_priority[active_list'[i]] < final_priority[active_list'[j]]
        PROVE  i < j
    <3>1. Before(active_list'[i], active_list'[j])
      BY <2>1, <1>1, <1>3, BeforeFacts
    <3>2. Turn(active_list'[i]) < Turn(active_list'[j])
      BY <3>1, <1>1, <1>3, TurnRises
    <3> QED BY <3>2, <1>3
  <2> QED BY <2>1, <1>2, <1>3 DEF InFinalOrder
<1> QED BY <1>5, <1>6, <1>7, <1>8 DEF SingletonInv

LEMMA SingletonStep == SingletonInv /\ [SingletonNext]_singletonVars => SingletonInv'
<1> SUFFICES ASSUME SingletonInv, [SingletonNext]_singletonVars PROVE SingletonInv'
  OBVIOUS
<1>1. CASE \E s \in Singles : GetRef(s)
  BY <1>1, GetRefKeeps
<1>2. CASE UseFirst
  BY <1>2, UseFirstKeeps
<1>3. CASE UpdatePriority
  BY <1>3, UpdatePriorityKeeps
<1>4. CASE \E ok \in BOOLEAN : Initialized(ok)
  BY <1>4, InitializedKeeps
<1>5. CASE OnFinalize
  BY <1>5, OnFinalizeKeeps
<1>6. CASE UNCHANGED singletonVars
  BY <1>6 DEF SingletonInv, SingletonTypes, NestGood, NestAt, UpGood, StandsOn, ListHolds,
              InFinalOrder, singletonVars
<1> QED BY <1>1, <1>2, <1>3, <1>4, <1>5, <1>6 DEF SingletonNext

LEMMA SingletonInvRight == SingletonInv => SingletonsRight
<1> SUFFICES ASSUME SingletonInv PROVE SingletonsRight
  OBVIOUS
<1>1. SingletonTypes /\ UpGood /\ ListHolds(active_list) /\ InFinalOrder
  BY DEF SingletonInv
<1>2. \A s \in Singles : uses[s] \subseteq Singles
  BY <1>1 DEF SingletonTypes
<1>3. ASSUME NEW s \in Singles, NEW t \in Singles, init[s], Reaches(s, t)
      PROVE  StandsOn(s, t)
  <2>1. CASE t \in uses[s]
    BY <2>1, <1>1, <1>3 DEF UpGood
  <2>2. CASE \E u \in uses[s] : t \in uses[u]
    <3>1. PICK u \in uses[s] : t \in uses[u]
      BY <2>2
    <3>2. u \in Singles /\ StandsOn(s, u) /\ init[u]
      BY <3>1, <1>1, <1>2, <1>3 DEF UpGood, StandsOn
    <3>3. StandsOn(u, t)
      BY <3>1, <3>2, <1>1 DEF UpGood
    <3>4. final_priority[s] \in Int /\ final_priority[u] \in Int /\ final_priority[t] \in Int
      BY <3>2, <1>1 DEF SingletonTypes
    <3>5. final_priority[t] < final_priority[s]
      BY <3>2, <3>3, <3>4 DEF StandsOn
    <3>6. init[t] /\ (init_success[s] => init_success[t])
      BY <3>2, <3>3 DEF StandsOn
    <3> QED BY <3>5, <3>6 DEF StandsOn
  <2> QED BY <2>1, <2>2, <1>3 DEF Reaches
<1>4. \A s, t \in Singles :
        init[s] /\ init_success[s] /\ Reaches(s, t) => init[t] /\ init_success[t]
  BY <1>3 DEF StandsOn
<1>5. Watched = {s \in Singles : init[s]} /\ Len(active_list) = Cardinality(Watched)
  BY <1>1, WatchedFacts
<1>6. ASSUME final = "yes", NEW s \in Watched, NEW t \in Watched, Reaches(s, t)
      PROVE  Finalized(t) < Finalized(s)
  <2>1. final_priority[t] < final_priority[s]
    BY <1>3, <1>5, <1>6 DEF StandsOn
  <2>2. /\ Position(t) \in 1 .. Len(active_list) /\ active_list[Position(t)] = t
        /\ Position(s) \in 1 .. Len(active_list) /\ active_list[Position(s)] = s
    BY <1>1, WatchedFacts
  <2>3. Position(t) < Position(s)
    BY <2>1, <2>2, <1>1, <1>6 DEF InFinalOrder
  <2> QED BY <2>3 DEF Position, Finalized
<1> QED BY <1>4, <1>5, <1>6 DEF SingletonsRight

(* However initializations nest and fail, a singleton is only said to be
   initialized when all that it uses is; all that were initialized are
   finalized, each once, and what is used goes before its user
   (RefSingleton.cpp): for any singletons, uses and wishes. *)
THEOREM SingletonsCorrect == SingletonSpec => []SingletonsRight
<1>1. SingletonInit => SingletonInv
  BY SingletonInitially
<1>2. SingletonInv /\ [SingletonNext]_singletonVars => SingletonInv'
  BY SingletonStep
<1>3. SingletonInv => SingletonsRight
  BY SingletonInvRight
<1> QED BY <1>1, <1>2, <1>3, PTL DEF SingletonSpec

-----------------------------------------------------------------------------
(* The bins of the UDPSendAllocator *)

LEMMA QuotientFacts ==
  ASSUME NEW x \in Nat, NEW m \in Nat \ {0}
  PROVE  x \div m \in Nat /\ m * (x \div m) <= x /\ x < m * (x \div m) + m
BY SMT

LEMMA ProductGrows ==
  ASSUME NEW m \in Nat, NEW x \in Nat, NEW y \in Nat, x <= y
  PROVE  m * x \in Nat /\ m * y \in Nat /\ m * x <= m * y
BY SMT

LEMMA ProductOfNext ==
  ASSUME NEW m \in Nat, NEW x \in Nat
  PROVE  m * (x + 1) = m * x + m /\ m * x = x * m /\ m * x \in Nat
BY SMT

(* The quotient of what a multiple does not exceed. *)
LEMMA QuotientAtLeast ==
  ASSUME NEW x \in Nat, NEW m \in Nat \ {0}, NEW y \in Nat, m * y <= x
  PROVE  x \div m >= y
<1> DEFINE q == x \div m
<1>1. q \in Nat /\ x < m * q + m
  BY QuotientFacts
<1> HIDE DEF q
<1>2. SUFFICES ASSUME q < y PROVE FALSE
  BY <1>1 DEF q
<1>3. m * (q + 1) = m * q + m /\ m * (q + 1) <= m * y /\ m * y \in Nat /\ m * (q + 1) \in Nat
  <2>1. q + 1 \in Nat /\ q + 1 <= y
    BY <1>1, <1>2
  <2> QED BY <1>1, <2>1, ProductGrows, ProductOfNext
<1> QED BY <1>1, <1>3

LEMMA QuotientAtMost ==
  ASSUME NEW x \in Nat, NEW m \in Nat \ {0}, NEW y \in Nat, x < m * y + m
  PROVE  x \div m <= y
<1> DEFINE q == x \div m
<1>1. q \in Nat /\ m * q <= x
  BY QuotientFacts
<1> HIDE DEF q
<1>2. SUFFICES ASSUME q > y PROVE FALSE
  BY <1>1 DEF q
<1>3. m * (y + 1) = m * y + m /\ m * (y + 1) <= m * q /\ m * q \in Nat /\ m * (y + 1) \in Nat
  <2>1. y + 1 \in Nat /\ y + 1 <= q
    BY <1>1, <1>2
  <2> QED BY <1>1, <2>1, ProductGrows, ProductOfNext
<1> QED BY <1>1, <1>3

(* The bin a request goes to exists and its buffers are large enough. *)
LEMMA BinFits ==
  ASSUME num_allocators \in MinAllocators .. MaxAllocators, NEW bytes \in MinBytes .. MaxBytes
  PROVE  /\ BinIndex(bytes) \in 0 .. num_allocators - 1
         /\ BinBytes(BinIndex(bytes)) \in Nat /\ BinBytes(BinIndex(bytes)) >= bytes
<1>1. PICK m : m = num_allocators - 1
  OBVIOUS
<1>2. PICK d : d = MaxBytes - MinBytes
  OBVIOUS
<1>3. PICK x : x = bytes - MinBytes
  OBVIOUS
<1>4. /\ m \in Nat \ {0} /\ d \in Nat \ {0} /\ x \in Nat /\ x <= d /\ MinBytes \in Nat
      /\ bytes = MinBytes + x /\ num_allocators = m + 1
  BY <1>1, <1>2, <1>3, BinsAssumption
<1>5. PICK i : i = (x * m + (d - 1)) \div d
  OBVIOUS
<1>6. BinIndex(bytes) = i
  BY <1>1, <1>2, <1>3, <1>5 DEF BinIndex
<1>7. x * m = m * x /\ m * x \in Nat /\ m * d \in Nat /\ m * d = d * m /\ m * x <= m * d
  BY <1>4, ProductGrows, ProductOfNext
<1>8. PICK a : a = m * x
  OBVIOUS
<1>9. a \in Nat /\ a + (d - 1) \in Nat /\ i = (a + (d - 1)) \div d /\ a <= d * m
  BY <1>4, <1>5, <1>7, <1>8
<1>10. i \in Nat /\ d * i \in Nat /\ a + (d - 1) < d * i + d
  BY <1>4, <1>9, QuotientFacts, ProductOfNext
<1>11. i <= m
  <2>1. a + (d - 1) < d * m + d
    BY <1>4, <1>7, <1>9
  <2> QED BY <1>4, <1>9, <2>1, QuotientAtMost
<1>12. m * x <= i * d /\ i * d \in Nat
  BY <1>4, <1>8, <1>9, <1>10, ProductOfNext
<1>13. (i * d) \div m >= x /\ (i * d) \div m \in Nat
  BY <1>4, <1>12, QuotientAtLeast, QuotientFacts
<1>14. BinBytes(i) = MinBytes + (i * d) \div m
  BY <1>1, <1>2 DEF BinBytes
<1> QED BY <1>4, <1>6, <1>10, <1>11, <1>13, <1>14

BinSize(n, ii) == MinBytes + (ii * (MaxBytes - MinBytes)) \div (n - 1)
LEMMA BinBytesSize == \A ii : BinBytes(ii) = BinSize(num_allocators, ii)
BY DEF BinBytes, BinSize

Bins == 0 .. num_allocators - 1
SendRecords == [bytes : Nat, bin : 0 .. num_allocators, asked : Nat]
SendTypes ==
  /\ num_allocators \in MinAllocators .. MaxAllocators
  /\ bins \in [Bins -> SUBSET Buffers] /\ DOMAIN sends \subseteq Buffers
  /\ sends \in [DOMAIN sends -> SendRecords]
(* A buffer made for a bin has its size and is in that bin while nobody has it;
   one that was too small for them is deleted when it comes back. *)
SendGood(b) ==
  /\ sends[b].asked <= sends[b].bytes
  /\ sends[b].bin = 0 => sends[b].asked > 0
  /\ sends[b].bin > 0 => sends[b].bytes = BinSize(num_allocators, sends[b].bin - 1)
  /\ \A i \in Bins : b \in bins[i] <=> (sends[b].asked = 0 /\ sends[b].bin = i + 1)
SendsInv ==
  /\ SendTypes
  /\ \A i \in Bins : bins[i] \subseteq DOMAIN sends
  /\ \A b \in DOMAIN sends : SendGood(b)

LEMMA SendsInvExact == SendsInv => SendsExact
<1> SUFFICES ASSUME SendsInv PROVE SendsExact
  OBVIOUS
<1>1. /\ num_allocators \in Nat /\ sends \in [DOMAIN sends -> SendRecords]
      /\ \A i \in Bins : bins[i] \subseteq DOMAIN sends
      /\ \A b \in DOMAIN sends : SendGood(b)
  BY BinsAssumption DEF SendsInv, SendTypes
<1>2. ASSUME NEW b \in DOMAIN sends
      PROVE  sends[b].asked \in Nat /\ sends[b].bytes \in Nat /\ sends[b].bin \in 0 .. num_allocators
  BY <1>1 DEF SendRecords
<1>3. ASSUME NEW i \in Bins PROVE bins[i] \subseteq DOMAIN sends \ Held
  BY <1>1, <1>2 DEF SendGood, Held
<1>4. ASSUME NEW b \in Held PROVE sends[b].bytes >= sends[b].asked
  BY <1>1, <1>2 DEF SendGood, Held
<1>5. ASSUME NEW b \in DOMAIN sends \ Held
      PROVE  FreeIn(b) = {sends[b].bin - 1} /\ sends[b].bytes = BinBytes(sends[b].bin - 1)
  <2>1. sends[b].asked = 0
    BY <1>2 DEF Held
  <2>2. sends[b].bin # 0 /\ sends[b].bin \in 0 .. num_allocators
    BY <1>1, <1>2, <2>1 DEF SendGood
  <2>3. sends[b].bin - 1 \in Bins /\ sends[b].bin > 0
    BY <1>1, <2>2 DEF Bins
  <2>4. \A i \in Bins : b \in bins[i] <=> i = sends[b].bin - 1
    <3>1. \A i \in Bins : b \in bins[i] <=> sends[b].bin = i + 1
      BY <1>1, <2>1 DEF SendGood
    <3>2. \A i \in Bins : (sends[b].bin = i + 1) <=> (i = sends[b].bin - 1)
      BY <1>1, <2>2 DEF Bins
    <3> QED BY <3>1, <3>2
  <2>5. FreeIn(b) = {sends[b].bin - 1}
    BY <2>3, <2>4 DEF FreeIn, Bins
  <2>6. sends[b].bytes = BinBytes(sends[b].bin - 1)
    BY <1>1, <2>3, BinBytesSize DEF SendGood
  <2> QED BY <2>5, <2>6
<1> QED BY <1>3, <1>4, <1>5 DEF SendsExact, Bins

(* A buffer handed out with what was asked for. *)
LEMMA GetsKeeps ==
  ASSUME SendsInv, NEW b \in Buffers, NEW size \in Nat, NEW bin \in 0 .. num_allocators,
         NEW bytes \in Nat \ {0}, Gets(b, size, bin, bytes), bytes <= size,
         bin > 0 => size = BinSize(num_allocators, bin - 1),
         num_allocators' = num_allocators, bins' = [i \in Bins |-> bins[i] \ {b}]
  PROVE  SendsInv'
<1>1. /\ num_allocators \in MinAllocators .. MaxAllocators /\ bins \in [Bins -> SUBSET Buffers]
      /\ sends \in [DOMAIN sends -> SendRecords] /\ DOMAIN sends \subseteq Buffers
      /\ \A i \in Bins : bins[i] \subseteq DOMAIN sends
      /\ \A x \in DOMAIN sends : SendGood(x)
  BY DEF SendsInv, SendTypes
<1>2. PICK r : r = [bytes |-> size, bin |-> bin, asked |-> bytes]
  OBVIOUS
<1>3. r \in SendRecords /\ r.bytes = size /\ r.bin = bin /\ r.asked = bytes
  BY <1>2 DEF SendRecords
<1>4. sends' = [x \in DOMAIN sends \cup {b} |-> IF x = b THEN r ELSE sends[x]]
  BY <1>2 DEF Gets
<1>5. /\ DOMAIN sends' = DOMAIN sends \cup {b} /\ sends'[b] = r
      /\ \A x \in DOMAIN sends \ {b} : sends'[x] = sends[x]
  BY <1>4
<1>6. Bins' = Bins /\ SendRecords' = SendRecords
  BY DEF Bins, SendRecords
<1>7. SendTypes'
  <2>1. sends' \in [DOMAIN sends' -> SendRecords]
    BY <1>1, <1>3, <1>4, <1>5
  <2>2. bins' \in [Bins -> SUBSET Buffers]
    BY <1>1
  <2> QED BY <1>1, <1>5, <1>6, <2>1, <2>2 DEF SendTypes
<1>8. ASSUME NEW i \in Bins PROVE bins'[i] = bins[i] \ {b}
  OBVIOUS
<1>9. \A i \in Bins : bins'[i] \subseteq DOMAIN sends'
  BY <1>1, <1>5, <1>8
<1>10. ASSUME NEW x \in DOMAIN sends \ {b} PROVE SendGood(x)'
  BY <1>1, <1>5, <1>6, <1>8 DEF SendGood
<1>11. SendGood(b)'
  <2>1. r.asked <= r.bytes /\ r.asked # 0 /\ r.asked > 0
    BY <1>3
  <2>2. r.bin > 0 => r.bytes = BinSize(num_allocators, r.bin - 1)
    BY <1>3
  <2> QED BY <1>5, <1>6, <1>8, <2>1, <2>2 DEF SendGood
<1> QED BY <1>5, <1>6, <1>7, <1>9, <1>10, <1>11 DEF SendsInv

LEMMA AcquireSendKeeps ==
  ASSUME SendsInv, NEW bytes \in 1 .. MaxBytes, AcquireSend(bytes) PROVE SendsInv'
<1>1. /\ num_allocators \in MinAllocators .. MaxAllocators /\ bins \in [Bins -> SUBSET Buffers]
      /\ sends \in [DOMAIN sends -> SendRecords] /\ DOMAIN sends \subseteq Buffers
      /\ \A i \in Bins : bins[i] \subseteq DOMAIN sends
      /\ \A x \in DOMAIN sends : SendGood(x)
  BY DEF SendsInv, SendTypes
<1>2. num_allocators' = num_allocators
  BY DEF AcquireSend
<1>3. bytes \in Nat \ {0} /\ num_allocators \in Nat /\ num_allocators < IndexWord /\ IndexWord \in Nat
  BY <1>1, BinsAssumption
<1>4. ASSUME NEW b \in Buffers \ DOMAIN sends, bins' = bins PROVE bins' = [i \in Bins |-> bins[i] \ {b}]
  BY <1>1, <1>4
<1>5. CASE AcquireSmall(bytes)
  <2>1. PICK b \in Buffers \ DOMAIN sends : Gets(b, bytes, 0, bytes) /\ bins' = bins
    BY <1>5 DEF AcquireSmall
  <2>2. 0 \in 0 .. num_allocators
    BY <1>3
  <2> QED BY <1>2, <1>3, <1>4, <2>1, <2>2, GetsKeeps
<1>6. ASSUME bytes >= MinBytes PROVE
        /\ BinIndex(bytes) \in Bins
        /\ (BinIndex(bytes) + 1) % IndexWord = BinIndex(bytes) + 1
        /\ BinIndex(bytes) + 1 \in 0 .. num_allocators /\ (BinIndex(bytes) + 1) - 1 = BinIndex(bytes)
        /\ BinSize(num_allocators, BinIndex(bytes)) \in Nat
        /\ bytes <= BinSize(num_allocators, BinIndex(bytes))
  <2>1. bytes \in MinBytes .. MaxBytes
    BY <1>6, BinsAssumption
  <2>2. /\ BinIndex(bytes) \in 0 .. num_allocators - 1
        /\ BinBytes(BinIndex(bytes)) \in Nat /\ BinBytes(BinIndex(bytes)) >= bytes
    BY <1>1, <2>1, BinFits
  <2>3. PICK i : i = BinIndex(bytes)
    OBVIOUS
  <2>4. i \in Nat /\ i + 1 \in 0 .. num_allocators /\ i + 1 < IndexWord /\ (i + 1) - 1 = i
    BY <1>3, <2>2, <2>3
  <2>5. (i + 1) % IndexWord = i + 1
    BY <1>3, <2>4
  <2> QED BY <2>2, <2>3, <2>4, <2>5, BinBytesSize DEF Bins
<1>7. CASE bytes >= MinBytes /\ AcquireNew(bytes, BinIndex(bytes))
  <2>1. PICK i : i = BinIndex(bytes)
    OBVIOUS
  <2>2. PICK b \in Buffers \ DOMAIN sends : Gets(b, BinBytes(i), (i + 1) % IndexWord, bytes) /\ bins' = bins
    BY <1>7, <2>1 DEF AcquireNew
  <2>3. PICK size : size = BinSize(num_allocators, i)
    OBVIOUS
  <2>4. PICK bin : bin = i + 1
    OBVIOUS
  <2>5. Gets(b, size, bin, bytes)
    BY <1>6, <1>7, <2>1, <2>2, <2>3, <2>4, BinBytesSize
  <2>6. bin \in 0 .. num_allocators /\ size \in Nat /\ bytes <= size /\ size = BinSize(num_allocators, bin - 1)
    BY <1>6, <1>7, <2>1, <2>3, <2>4
  <2> QED BY <1>2, <1>3, <1>4, <2>2, <2>5, <2>6, GetsKeeps
<1>8. CASE bytes >= MinBytes /\ AcquireFree(bytes, BinIndex(bytes))
  <2>1. PICK i : i = BinIndex(bytes)
    OBVIOUS
  <2>2. PICK b \in bins[i] : /\ bins' = [bins EXCEPT ![i] = @ \ {b}]
                             /\ Gets(b, sends[b].bytes, (i + 1) % IndexWord, bytes)
    BY <1>8, <2>1 DEF AcquireFree
  <2>3. i \in Bins /\ b \in DOMAIN sends /\ b \in Buffers
    BY <1>1, <1>6, <1>8, <2>1, <2>2
  <2>4. sends[b].bin = i + 1 /\ SendGood(b) /\ sends[b].bin > 0
    <3>1. SendGood(b)
      BY <1>1, <2>3
    <3>2. sends[b].bin = i + 1
      BY <2>2, <2>3, <3>1 DEF SendGood
    <3> QED BY <1>3, <2>3, <3>1, <3>2 DEF Bins
  <2>5. PICK size : size = BinSize(num_allocators, i)
    OBVIOUS
  <2>6. PICK bin : bin = i + 1
    OBVIOUS
  <2>7. bin \in 0 .. num_allocators /\ size \in Nat /\ bytes <= size /\ bin - 1 = i /\ size = BinSize(num_allocators, bin - 1)
    BY <1>6, <1>8, <2>1, <2>5, <2>6
  <2>8. Gets(b, size, bin, bytes)
    <3>1. sends[b].bytes = size
      BY <2>4, <2>5, <2>6, <2>7 DEF SendGood
    <3> QED BY <1>6, <1>8, <2>1, <2>2, <2>6, <3>1
  <2>9. bins' = [j \in Bins |-> bins[j] \ {b}]
    <3>1. ASSUME NEW j \in Bins, j # i PROVE b \notin bins[j]
      <4>1. i + 1 # j + 1
        BY <1>3, <2>3, <3>1 DEF Bins
      <4> QED BY <2>4, <4>1 DEF SendGood
    <3> QED BY <1>1, <2>2, <2>3, <3>1
  <2> QED BY <1>2, <1>3, <2>3, <2>7, <2>8, <2>9, GetsKeeps
<1> QED BY <1>5, <1>7, <1>8 DEF AcquireSend

(* The loop of ReleaseBatch(): a buffer is in its bin, or in kills on the way
   to it. *)
RelStates == [bins : [Bins -> SUBSET Buffers], deleted : SUBSET Buffers,
              kills : SUBSET Buffers, prev_bin : 0 .. num_allocators]
Pending(s, j, x) == x \in s.bins[j] \/ (s.prev_bin = j + 1 /\ x \in s.kills)

LEMMA RelStateFacts ==
  ASSUME NEW s \in RelStates
  PROVE  /\ s = [bins |-> s.bins, deleted |-> s.deleted, kills |-> s.kills, prev_bin |-> s.prev_bin]
         /\ s.bins \in [Bins -> SUBSET Buffers] /\ s.deleted \subseteq Buffers
         /\ s.kills \subseteq Buffers /\ s.prev_bin \in 0 .. num_allocators
BY DEF RelStates

LEMMA FlushedFacts ==
  ASSUME num_allocators \in Nat, NEW s \in RelStates
  PROVE  /\ Flushed(s) = [bins |-> Flushed(s).bins, deleted |-> s.deleted, kills |-> s.kills, prev_bin |-> s.prev_bin]
         /\ Flushed(s).bins \in [Bins -> SUBSET Buffers]
         /\ \A j \in Bins, x \in Buffers : x \in Flushed(s).bins[j] <=> Pending(s, j, x)
<1>1. /\ s = [bins |-> s.bins, deleted |-> s.deleted, kills |-> s.kills, prev_bin |-> s.prev_bin]
      /\ s.bins \in [Bins -> SUBSET Buffers] /\ s.kills \subseteq Buffers /\ s.prev_bin \in 0 .. num_allocators
  BY RelStateFacts
<1>2. CASE s.prev_bin = 0
  <2>1. Flushed(s) = s
    BY <1>2 DEF Flushed
  <2>2. \A j \in Bins : s.prev_bin # j + 1
    BY <1>2 DEF Bins
  <2> QED BY <1>1, <2>1, <2>2 DEF Pending
<1>3. CASE s.prev_bin # 0
  <2>1. PICK k : k = s.prev_bin - 1
    OBVIOUS
  <2>2. s.prev_bin > 0 /\ k \in Bins /\ \A j \in Bins : s.prev_bin = j + 1 <=> j = k
    BY <1>1, <1>3, <2>1 DEF Bins
  <2>3. PICK f : f = [s.bins EXCEPT ![k] = @ \cup s.kills]
    OBVIOUS
  <2>4. Flushed(s) = [bins |-> f, deleted |-> s.deleted, kills |-> s.kills, prev_bin |-> s.prev_bin]
    BY <1>1, <2>1, <2>2, <2>3 DEF Flushed
  <2>5. f \in [Bins -> SUBSET Buffers] /\ \A j \in Bins : f[j] = IF j = k THEN s.bins[j] \cup s.kills ELSE s.bins[j]
    BY <1>1, <2>2, <2>3
  <2>6. Flushed(s).bins = f
    BY <2>4
  <2> QED BY <2>2, <2>4, <2>5, <2>6 DEF Pending
<1> QED BY <1>2, <1>3

(* One buffer of the batch. *)
OneReleased(s, b, r) ==
  /\ r \in RelStates
  /\ \A x \in Buffers : x \in r.deleted <=> (x \in s.deleted \/ (sends[b].bin = 0 /\ x = b))
  /\ \A j \in Bins, x \in Buffers : Pending(r, j, x) <=> (Pending(s, j, x) \/ (sends[b].bin = j + 1 /\ x = b))

LEMMA ReleaseOneFacts ==
  ASSUME SendsInv, NEW s \in RelStates, NEW b \in DOMAIN sends
  PROVE  OneReleased(s, b, ReleaseOne(s, b))
<1> DEFINE bin == sends[b].bin
           r == ReleaseOne(s, b)
<1>1. num_allocators \in Nat /\ b \in Buffers /\ bin \in 0 .. num_allocators
  <2>1. sends \in [DOMAIN sends -> SendRecords] /\ DOMAIN sends \subseteq Buffers /\ num_allocators \in Nat
    BY BinsAssumption DEF SendsInv, SendTypes
  <2> QED BY <2>1 DEF SendRecords
<1>2. /\ s = [bins |-> s.bins, deleted |-> s.deleted, kills |-> s.kills, prev_bin |-> s.prev_bin]
      /\ s.bins \in [Bins -> SUBSET Buffers] /\ s.deleted \subseteq Buffers
      /\ s.kills \subseteq Buffers /\ s.prev_bin \in 0 .. num_allocators
  BY RelStateFacts
<1>3. CASE bin = 0
  <2>1. r = [s EXCEPT !.deleted = @ \cup {b}]
    BY <1>3 DEF ReleaseOne
  <2>2. PICK q : q = [bins |-> s.bins, deleted |-> s.deleted \cup {b}, kills |-> s.kills, prev_bin |-> s.prev_bin]
    OBVIOUS
  <2>3. r = q
    BY <1>2, <2>1, <2>2
  <2>4. q \in RelStates /\ q.deleted = s.deleted \cup {b} /\ q.bins = s.bins /\ q.kills = s.kills /\ q.prev_bin = s.prev_bin
    BY <1>1, <1>2, <2>2 DEF RelStates
  <2>5. \A j \in Bins : bin # j + 1
    BY <1>3 DEF Bins
  <2>6. OneReleased(s, b, q)
    BY <1>3, <2>4, <2>5 DEF OneReleased, Pending
  <2> QED BY <2>3, <2>6
<1>4. CASE bin # 0 /\ bin = s.prev_bin
  <2>1. r = [s EXCEPT !.kills = @ \cup {b}]
    <3>1. bin > 0 /\ ~(bin = 0)
      BY <1>1, <1>4
    <3> QED BY <1>4, <3>1 DEF ReleaseOne
  <2>2. PICK q : q = [bins |-> s.bins, deleted |-> s.deleted, kills |-> s.kills \cup {b}, prev_bin |-> s.prev_bin]
    OBVIOUS
  <2>3. r = q
    BY <1>2, <2>1, <2>2
  <2>4. q \in RelStates /\ q.deleted = s.deleted /\ q.bins = s.bins /\ q.kills = s.kills \cup {b} /\ q.prev_bin = s.prev_bin
    BY <1>1, <1>2, <2>2 DEF RelStates
  <2>5. OneReleased(s, b, q)
    BY <1>4, <2>4 DEF OneReleased, Pending
  <2> QED BY <2>3, <2>5
<1>5. CASE bin # 0 /\ bin # s.prev_bin
  <2>1. r = [Flushed(s) EXCEPT !.kills = {b}, !.prev_bin = bin]
    <3>1. ~(bin = 0) /\ ~(bin > 0 /\ bin = s.prev_bin)
      BY <1>5
    <3> QED BY <3>1 DEF ReleaseOne
  <2>2. PICK f : f = Flushed(s).bins
    OBVIOUS
  <2>3. /\ Flushed(s) = [bins |-> f, deleted |-> s.deleted, kills |-> s.kills, prev_bin |-> s.prev_bin]
        /\ f \in [Bins -> SUBSET Buffers]
        /\ \A j \in Bins, x \in Buffers : x \in f[j] <=> Pending(s, j, x)
    BY <1>1, <2>2, FlushedFacts
  <2>4. PICK q : q = [bins |-> f, deleted |-> s.deleted, kills |-> {b}, prev_bin |-> bin]
    OBVIOUS
  <2>5. r = q
    <3>1. PICK g : g = Flushed(s)
      OBVIOUS
    <3>2. PICK h : h = [bins |-> f, deleted |-> s.deleted, kills |-> {b}, prev_bin |-> s.prev_bin]
      OBVIOUS
    <3>3. g = [bins |-> f, deleted |-> s.deleted, kills |-> s.kills, prev_bin |-> s.prev_bin]
      BY <2>3, <3>1
    <3>4. h = [g EXCEPT !.kills = {b}]
      BY <3>2, <3>3
    <3>5. q = [h EXCEPT !.prev_bin = bin]
      BY <2>4, <3>2
    <3>6. r = [g EXCEPT !.kills = {b}, !.prev_bin = bin]
      BY <2>1, <3>1
    <3>7. [g EXCEPT !.kills = {b}, !.prev_bin = bin] = [[g EXCEPT !.kills = {b}] EXCEPT !.prev_bin = bin]
      OBVIOUS
    <3> QED BY <3>4, <3>5, <3>6, <3>7
  <2>6. q \in RelStates /\ q.deleted = s.deleted /\ q.bins = f /\ q.kills = {b} /\ q.prev_bin = bin
    BY <1>1, <1>2, <2>3, <2>4 DEF RelStates
  <2>7. \A j \in Bins, x \in Buffers : Pending(q, j, x) <=> (Pending(s, j, x) \/ (bin = j + 1 /\ x = b))
    BY <2>3, <2>6 DEF Pending
  <2>8. OneReleased(s, b, q)
    BY <1>5, <2>6, <2>7 DEF OneReleased
  <2> QED BY <2>5, <2>8
<1> QED BY <1>3, <1>4, <1>5

(* The loop up to its n-th turn. *)
FirstState == [bins |-> bins, deleted |-> {}, kills |-> {}, prev_bin |-> 0]
Turns(batch, f, n) ==
  f = [k \in 0 .. n |-> IF k = 0 THEN FirstState ELSE ReleaseOne(f[k - 1], batch[k])]

LEMMA LoopRuns ==
  ASSUME NEW batch, NEW n \in Nat
  PROVE  \E f : Turns(batch, f, n)
<1> DEFINE bad == {k \in 0 .. n : ~\E f : Turns(batch, f, k)}
<1>1. bad = {}
  <2> SUFFICES ASSUME bad # {} PROVE FALSE
    OBVIOUS
  <2>1. PICK k \in bad : \A j \in bad : k <= j
    <3>1. bad \subseteq Nat
      OBVIOUS
    <3> HIDE DEF bad
    <3> QED BY <3>1, LeastExists
  <2>2. k \in 0 .. n /\ ~\E f : Turns(batch, f, k)
    BY <2>1
  <2>3. CASE k = 0
    <3>1. PICK g : g = [j \in 0 .. 0 |-> FirstState]
      OBVIOUS
    <3>2. ASSUME NEW j \in 0 .. 0
          PROVE  FirstState = IF j = 0 THEN FirstState ELSE ReleaseOne(g[j - 1], batch[j])
      OBVIOUS
    <3>3. Turns(batch, g, 0)
      BY <3>1, <3>2 DEF Turns
    <3> QED BY <2>2, <2>3, <3>3
  <2>4. CASE k # 0
    <3>1. k - 1 \in 0 .. n /\ ~(k <= k - 1) /\ k \in Nat
      BY <2>2, <2>4
    <3>2. k - 1 \notin bad
      BY <2>1, <3>1
    <3>3. PICK g : Turns(batch, g, k - 1)
      BY <3>1, <3>2
    <3>4. \A j \in 0 .. k - 1 : g[j] = IF j = 0 THEN FirstState ELSE ReleaseOne(g[j - 1], batch[j])
      BY <3>3 DEF Turns
    <3>5. PICK h : h = [j \in 0 .. k |-> IF j = k THEN ReleaseOne(g[k - 1], batch[k]) ELSE g[j]]
      OBVIOUS
    <3>6. h[k - 1] = g[k - 1] /\ \A j \in 0 .. k - 1 : h[j] = g[j]
      <4>1. \A j \in 0 .. k - 1 : j \in 0 .. k /\ j # k
        BY <3>1
      <4>2. k - 1 \in 0 .. k - 1
        BY <3>1, <2>4
      <4> QED BY <4>1, <4>2, <3>5
    <3>7. ASSUME NEW j \in 0 .. k
          PROVE  h[j] = IF j = 0 THEN FirstState ELSE ReleaseOne(h[j - 1], batch[j])
      <4>1. CASE j = k
        BY <4>1, <2>4, <3>5, <3>6
      <4>2. CASE j # k /\ j # 0
        <5>1. j \in 0 .. k - 1 /\ j - 1 \in 0 .. k - 1
          BY <4>2, <3>1
        <5> QED BY <4>2, <5>1, <3>4, <3>6
      <4>3. CASE j = 0 /\ j # k
        <5>1. j \in 0 .. k - 1
          BY <4>3, <3>1
        <5> QED BY <4>3, <5>1, <3>4, <3>6
      <4> QED BY <4>1, <4>2, <4>3
    <3>8. DOMAIN h = 0 .. k /\ h = [j \in 0 .. k |-> h[j]]
      BY <3>5
    <3>9. Turns(batch, h, k)
      BY <3>7, <3>8 DEF Turns
    <3> QED BY <2>2, <3>9
  <2> QED BY <2>3, <2>4
<1>2. n \in 0 .. n
  OBVIOUS
<1> QED BY <1>1, <1>2

LEMMA LoopFacts ==
  ASSUME NEW batch, NEW n, n = Len(batch), n \in Nat
  PROVE  \E f : Turns(batch, f, n) /\ ReleasedAll(batch) = Flushed(f[n])
<1> DEFINE F == CHOOSE f : f = [k \in 0 .. n |-> IF k = 0 THEN FirstState ELSE ReleaseOne(f[k - 1], batch[k])]
<1>1. ReleasedAll(batch) = Flushed(F[n])
  BY DEF ReleasedAll, FirstState
<1>2. F = CHOOSE f : Turns(batch, f, n)
  BY DEF Turns
<1> HIDE DEF F
<1>3. Turns(batch, F, n)
  BY <1>2, LoopRuns
<1> QED BY <1>1, <1>3

(* After k turns: what was deleted, and what is in its bin or on the way to it. *)
Out(batch, k, x) == \E i \in 1 .. k : batch[i] = x
AfterTurns(batch, k, s) ==
  /\ s \in RelStates
  /\ \A x \in Buffers : x \in s.deleted <=> (Out(batch, k, x) /\ sends[x].bin = 0)
  /\ \A j \in Bins, x \in Buffers :
       Pending(s, j, x) <=> (x \in bins[j] \/ (Out(batch, k, x) /\ sends[x].bin = j + 1))

LEMMA TurnKeeps ==
  ASSUME SendsInv, NEW batch, NEW k \in Nat, NEW s, AfterTurns(batch, k, s), batch[k + 1] \in DOMAIN sends
  PROVE  AfterTurns(batch, k + 1, ReleaseOne(s, batch[k + 1]))
<1>1. PICK b : b = batch[k + 1]
  OBVIOUS
<1>2. PICK r : r = ReleaseOne(s, b)
  OBVIOUS
<1>3. s \in RelStates /\ OneReleased(s, b, r)
  BY <1>1, <1>2, ReleaseOneFacts DEF AfterTurns
<1>4. ASSUME NEW x PROVE Out(batch, k + 1, x) <=> (Out(batch, k, x) \/ x = b)
  <2>1. \A i : i \in 1 .. k + 1 <=> (i \in 1 .. k \/ i = k + 1)
    OBVIOUS
  <2> QED BY <1>1, <2>1 DEF Out
<1>5. \A x \in Buffers : x \in r.deleted <=> (Out(batch, k + 1, x) /\ sends[x].bin = 0)
  BY <1>3, <1>4 DEF OneReleased, AfterTurns
<1>6. \A j \in Bins, x \in Buffers :
        Pending(r, j, x) <=> (x \in bins[j] \/ (Out(batch, k + 1, x) /\ sends[x].bin = j + 1))
  BY <1>3, <1>4 DEF OneReleased, AfterTurns
<1>7. AfterTurns(batch, k + 1, r)
  BY <1>3, <1>5, <1>6 DEF OneReleased, AfterTurns
<1> QED BY <1>1, <1>2, <1>7

LEMMA FirstTurn == ASSUME SendsInv, NEW batch PROVE AfterTurns(batch, 0, FirstState)
<1>1. bins \in [Bins -> SUBSET Buffers] /\ num_allocators \in Nat
  BY BinsAssumption DEF SendsInv, SendTypes
<1>2. FirstState \in RelStates
  BY <1>1 DEF FirstState, RelStates
<1>3. ASSUME NEW x PROVE ~Out(batch, 0, x)
  BY DEF Out
<1>4. FirstState.deleted = {} /\ FirstState.kills = {} /\ FirstState.bins = bins
  BY DEF FirstState
<1> QED BY <1>2, <1>3, <1>4 DEF AfterTurns, Pending

LEMMA LoopKeeps ==
  ASSUME SendsInv, NEW n \in Nat, NEW batch, \A i \in 1 .. n : batch[i] \in DOMAIN sends,
         NEW f, Turns(batch, f, n)
  PROVE  AfterTurns(batch, n, f[n])
<1>1. \A k \in 0 .. n : f[k] = IF k = 0 THEN FirstState ELSE ReleaseOne(f[k - 1], batch[k])
  BY DEF Turns
<1> DEFINE bad == {k \in 0 .. n : ~AfterTurns(batch, k, f[k])}
<1>2. bad = {}
  <2> SUFFICES ASSUME bad # {} PROVE FALSE
    OBVIOUS
  <2>1. PICK k \in bad : \A j \in bad : k <= j
    <3>1. bad \subseteq Nat
      OBVIOUS
    <3> HIDE DEF bad
    <3> QED BY <3>1, LeastExists
  <2>2. k \in 0 .. n /\ ~AfterTurns(batch, k, f[k])
    BY <2>1
  <2>3. CASE k = 0
    BY <1>1, <2>2, <2>3, FirstTurn
  <2>4. CASE k # 0
    <3>1. PICK j : j = k - 1
      OBVIOUS
    <3>2. j \in 0 .. n /\ j \in Nat /\ k = j + 1 /\ ~(k <= j) /\ k \in 1 .. n
      BY <2>2, <2>4, <3>1
    <3>3. AfterTurns(batch, j, f[j])
      BY <2>1, <3>2
    <3>4. f[k] = ReleaseOne(f[j], batch[k])
      BY <1>1, <2>2, <2>4, <3>1
    <3>5. batch[j + 1] \in DOMAIN sends
      BY <3>2
    <3>6. AfterTurns(batch, j + 1, ReleaseOne(f[j], batch[j + 1]))
      BY <3>2, <3>3, <3>5, TurnKeeps
    <3> QED BY <2>2, <3>2, <3>4, <3>6
  <2> QED BY <2>3, <2>4
<1>3. n \in 0 .. n
  OBVIOUS
<1> QED BY <1>2, <1>3

(* What the whole batch leaves. *)
LEMMA BatchFacts ==
  ASSUME SendsInv, NEW S \in SUBSET Held, NEW batch \in Seqs!SetToSeqs(S)
  PROVE  LET end == ReleasedAll(batch) IN
         /\ Seqs!Range(batch) \subseteq DOMAIN sends /\ end.bins \in [Bins -> SUBSET Buffers]
         /\ \A x \in Buffers : x \in end.deleted <=> (x \in Seqs!Range(batch) /\ sends[x].bin = 0)
         /\ \A j \in Bins, x \in Buffers :
              x \in end.bins[j] <=> (x \in bins[j] \/ (x \in Seqs!Range(batch) /\ sends[x].bin = j + 1))
<1>1. num_allocators \in Nat /\ DOMAIN sends \subseteq Buffers
  BY BinsAssumption DEF SendsInv, SendTypes
<1>2. PICK n : n = Cardinality(S)
  OBVIOUS
<1>3. n \in Nat
  <2>1. S \subseteq Buffers
    BY <1>1 DEF Held
  <2> QED BY <1>2, <2>1, PoolAssumption, FS_Subset, FS_CardinalityType
<1>4. batch \in [1 .. n -> S]
  <2>1. batch \in {f \in [1 .. Cardinality(S) -> S] : \A i, j \in 1 .. Cardinality(S) : i # j => f[i] # f[j]}
    BY DEF Seqs!SetToSeqs, Seqs!Cardinality, Cardinality
  <2>2. batch \in [1 .. Cardinality(S) -> S]
    BY <2>1
  <2> QED BY <1>2, <2>2
<1>5. Len(batch) = n /\ DOMAIN batch = 1 .. n
  <2>1. batch \in Seq(S)
    BY <1>3, <1>4, IsASeq
  <2> QED BY <1>3, <1>4, <2>1, LenProperties
<1>6. \A i \in 1 .. n : batch[i] \in DOMAIN sends
  BY <1>4 DEF Held
<1>7. PICK f : Turns(batch, f, n) /\ ReleasedAll(batch) = Flushed(f[n])
  BY <1>3, <1>5, LoopFacts
<1>8. PICK s : s = f[n]
  OBVIOUS
<1>9. AfterTurns(batch, n, s)
  BY <1>3, <1>6, <1>7, <1>8, LoopKeeps
<1>10. \A x : Out(batch, n, x) <=> x \in Seqs!Range(batch)
  BY <1>5 DEF Out, Seqs!Range
<1>11. s \in RelStates
  BY <1>9 DEF AfterTurns
<1>12. PICK g : g = Flushed(s)
  OBVIOUS
<1>13. /\ g = [bins |-> g.bins, deleted |-> s.deleted, kills |-> s.kills, prev_bin |-> s.prev_bin]
       /\ g.bins \in [Bins -> SUBSET Buffers]
       /\ \A j \in Bins, x \in Buffers : x \in g.bins[j] <=> Pending(s, j, x)
  BY <1>1, <1>11, <1>12, FlushedFacts
<1>14. g.deleted = s.deleted
  BY <1>13
<1>15. Seqs!Range(batch) \subseteq DOMAIN sends
  BY <1>5, <1>6 DEF Seqs!Range
<1>16. \A x \in Buffers : x \in g.deleted <=> (x \in Seqs!Range(batch) /\ sends[x].bin = 0)
  BY <1>9, <1>10, <1>14 DEF AfterTurns
<1>17. \A j \in Bins, x \in Buffers :
         x \in g.bins[j] <=> (x \in bins[j] \/ (x \in Seqs!Range(batch) /\ sends[x].bin = j + 1))
  BY <1>9, <1>10, <1>13 DEF AfterTurns
<1> QED BY <1>7, <1>8, <1>12, <1>13, <1>15, <1>16, <1>17

LEMMA ReleaseSendsKeeps ==
  ASSUME SendsInv, NEW S \in SUBSET Held, NEW batch \in Seqs!SetToSeqs(S), ReleaseSends(batch)
  PROVE  SendsInv'
<1>1. PICK end : end = ReleasedAll(batch)
  OBVIOUS
<1>2. PICK R : R = Seqs!Range(batch)
  OBVIOUS
<1>3. /\ R \subseteq DOMAIN sends /\ end.bins \in [Bins -> SUBSET Buffers]
      /\ \A x \in Buffers : x \in end.deleted <=> (x \in R /\ sends[x].bin = 0)
      /\ \A j \in Bins, x \in Buffers :
           x \in end.bins[j] <=> (x \in bins[j] \/ (x \in R /\ sends[x].bin = j + 1))
  BY <1>1, <1>2, BatchFacts
<1>4. /\ bins' = end.bins /\ num_allocators' = num_allocators
      /\ sends' = [b \in DOMAIN sends \ end.deleted |->
                    IF b \in R THEN [sends[b] EXCEPT !.asked = 0] ELSE sends[b]]
  BY <1>1, <1>2 DEF ReleaseSends
<1>5. /\ num_allocators \in MinAllocators .. MaxAllocators /\ bins \in [Bins -> SUBSET Buffers]
      /\ sends \in [DOMAIN sends -> SendRecords] /\ DOMAIN sends \subseteq Buffers
      /\ \A i \in Bins : bins[i] \subseteq DOMAIN sends
      /\ \A x \in DOMAIN sends : SendGood(x)
  BY DEF SendsInv, SendTypes
<1>6. Bins' = Bins /\ SendRecords' = SendRecords /\ num_allocators \in Nat
  BY <1>4, <1>5, BinsAssumption DEF Bins, SendRecords
<1>7. DOMAIN sends' = DOMAIN sends \ end.deleted
  BY <1>4
<1>8. ASSUME NEW b \in DOMAIN sends'
      PROVE  /\ b \in DOMAIN sends /\ b \in Buffers /\ sends'[b] \in SendRecords
             /\ sends'[b].bytes = sends[b].bytes /\ sends'[b].bin = sends[b].bin
             /\ sends'[b].asked = IF b \in R THEN 0 ELSE sends[b].asked
             /\ sends[b].asked \in Nat /\ sends[b].bytes \in Nat /\ sends[b].bin \in 0 .. num_allocators
             /\ (b \in R => sends[b].bin # 0)
  <2>1. b \in DOMAIN sends /\ b \in Buffers /\ (b \in R => sends[b].bin # 0)
    BY <1>3, <1>5, <1>7
  <2>2. PICK m : m = sends[b]
    OBVIOUS
  <2>3. m \in SendRecords
    BY <1>5, <2>1, <2>2
  <2>4. m.asked \in Nat /\ m.bytes \in Nat /\ m.bin \in 0 .. num_allocators
    BY <2>3 DEF SendRecords
  <2>5. PICK z : z = [m EXCEPT !.asked = 0]
    OBVIOUS
  <2>6. z \in SendRecords /\ z.bytes = m.bytes /\ z.bin = m.bin /\ z.asked = 0
    BY <2>3, <2>5 DEF SendRecords
  <2>7. sends'[b] = IF b \in R THEN z ELSE m
    BY <1>4, <1>7, <2>2, <2>5
  <2> QED BY <2>1, <2>2, <2>3, <2>4, <2>6, <2>7
<1>9. SendTypes'
  <2>1. sends' \in [DOMAIN sends' -> SendRecords]
    <3>1. sends' = [b \in DOMAIN sends' |-> sends'[b]]
      BY <1>4
    <3> QED BY <1>8, <3>1
  <2> QED BY <1>3, <1>4, <1>5, <1>6, <1>7, <2>1 DEF SendTypes
<1>10. ASSUME NEW i \in Bins, NEW x \in bins'[i] PROVE x \in DOMAIN sends'
  <2>1. x \in Buffers /\ (x \in bins[i] \/ (x \in R /\ sends[x].bin = i + 1))
    BY <1>3, <1>4, <1>10
  <2>2. x \in DOMAIN sends
    BY <1>3, <1>5, <2>1
  <2>3. sends[x].bin = i + 1
    BY <1>5, <2>1, <2>2 DEF SendGood
  <2>4. sends[x].bin # 0
    BY <1>6, <2>3 DEF Bins
  <2> QED BY <1>3, <1>7, <2>1, <2>2, <2>4
<1>11. ASSUME NEW b \in DOMAIN sends' PROVE SendGood(b)'
  <2>1. SendGood(b)
    BY <1>5, <1>8
  <2>2. sends'[b].asked <= sends'[b].bytes
    BY <1>8, <2>1 DEF SendGood
  <2>3. sends'[b].bin = 0 => sends'[b].asked > 0
    BY <1>8, <2>1 DEF SendGood
  <2>4. sends'[b].bin > 0 => sends'[b].bytes = BinSize(num_allocators', sends'[b].bin - 1)
    BY <1>4, <1>8, <2>1 DEF SendGood
  <2>5. ASSUME NEW i \in Bins PROVE b \in bins'[i] <=> (sends'[b].asked = 0 /\ sends'[b].bin = i + 1)
    <3>1. b \in bins'[i] <=> (b \in bins[i] \/ (b \in R /\ sends[b].bin = i + 1))
      BY <1>3, <1>4, <1>8
    <3>2. b \in bins[i] <=> (sends[b].asked = 0 /\ sends[b].bin = i + 1)
      BY <2>1 DEF SendGood
    <3> QED BY <1>8, <3>1, <3>2
  <2> QED BY <1>6, <2>2, <2>3, <2>4, <2>5 DEF SendGood
<1> QED BY <1>6, <1>9, <1>10, <1>11 DEF SendsInv

LEMMA SendsInit == PoolInit => SendsInv
<1> SUFFICES ASSUME PoolInit PROVE SendsInv
  OBVIOUS
<1>1. num_allocators \in MinAllocators .. MaxAllocators
  BY BinsAssumption DEF PoolInit
<1>2. DOMAIN sends = {} /\ sends \in [DOMAIN sends -> SendRecords]
  BY DEF PoolInit
<1>3. bins = [i \in Bins |-> {}]
  BY DEF PoolInit, Bins
<1> QED BY <1>1, <1>2, <1>3 DEF SendsInv, SendTypes

LEMMA SendsStep == SendsInv /\ [PoolNext]_poolVars => SendsInv'
<1> SUFFICES ASSUME SendsInv, [PoolNext]_poolVars PROVE SendsInv'
  OBVIOUS
<1>1. CASE UNCHANGED binVars
  BY <1>1 DEF binVars, SendsInv, SendTypes, SendGood, Bins, SendRecords
<1>2. ASSUME NEW bytes \in 1 .. MaxBytes, AcquireSend(bytes) PROVE SendsInv'
  BY <1>2, AcquireSendKeeps
<1>3. ASSUME NEW S \in SUBSET Held, NEW batch \in Seqs!SetToSeqs(S), ReleaseSends(batch) PROVE SendsInv'
  BY <1>3, ReleaseSendsKeeps
<1>4. CASE UNCHANGED poolVars
  BY <1>1, <1>4 DEF poolVars, binVars
<1> QED BY <1>1, <1>2, <1>3, <1>4 DEF PoolNext

(* Whatever sizes are asked of UDPSendAllocator::Acquire(), whatever the number
   of bins, and in whatever order and mixture ReleaseBatch() gets the buffers
   back, a buffer is as large as what was asked, and one nobody has is in the
   bin it was made for and in no other. *)
THEOREM SendsCorrect == PoolSpec => []SendsExact
<1>1. PoolInit => SendsInv
  BY SendsInit
<1>2. SendsInv /\ [PoolNext]_poolVars => SendsInv'
  BY SendsStep
<1>3. SendsInv => SendsExact
  BY SendsInvExact
<1> QED BY <1>1, <1>2, <1>3, PTL DEF PoolSpec
=============================================================================
