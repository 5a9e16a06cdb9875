---------------------------- MODULE ConnexionMap ----------------------------
(***************************************************************************)
(* The server's table of connexions and the life of a connexion            *)
(* (src/src/sphynx/ConnexionMap.cpp, Connexion.cpp, the accepting half of   *)
(* Server.cpp), in the roaming-IP build that Common.hpp selects: a client   *)
(* is found by the slot number in the last bytes of its datagrams.          *)
(*                                                                         *)
(* A step is one section under _table_lock, or the code of one thread       *)
(* between two of them.  owners[c] is the set of counted references of c:   *)
(* "initial" (given back by Destroy), "timer" (the worker's), "map" (the    *)
(* table's), "recv" (datagrams on their way to OnRecv) and "sweep"          *)
(* (ShutdownAll's).  The server owns itself through "initial" and through   *)
(* one reference of each connexion.                                         *)
(***************************************************************************)
EXTENDS Integers, FiniteSets, TLC

CONSTANTS Conns,          \* memory for connexions; each is used at most once
          Addrs,          \* client addresses, one flood bucket each
          FloodThreshold, \* CONNECTION_FLOOD_THRESHOLD
          MaxPopulation,  \* MAX_POPULATION
          MapPrealloc,    \* MAP_PREALLOC
          NoConn,
          Prompt          \* OnRecv is through before the reaper's next pass

ASSUME MapAssumption ==
  /\ IsFiniteSet(Conns) /\ NoConn \notin Conns
  /\ IsFiniteSet(Addrs) /\ Addrs # {}
  /\ FloodThreshold \in Nat /\ MaxPopulation \in Nat \ {0}
  /\ MapPrealloc \in 1 .. MaxPopulation /\ Prompt \in BOOLEAN

VARIABLES
  connTable,   \* _conn_table
  freeTable,   \* _free_table
  firstFree,   \* _first_free
  count,       \* _count
  flood,       \* _flood_table
  mapShutdown, \* _is_shutdown
  conn,        \* the connexions
  owners,      \* the references of each connexion
  server,      \* the Server object: "open", "closing" (in OnDestroy), "closed", "freed"
  serverRefs   \* how many connexions own a reference of the server

mapVars == <<connTable, freeTable, firstFree, count, flood, mapShutdown,
             conn, owners, server, serverRefs>>

HashTableSize == 2 * MaxPopulation
InvalidKey == HashTableSize + 1    \* INVALID_KEY, past the end of the table
Garbage == HashTableSize + 2       \* what new[] leaves in an element
Alloc == Cardinality(DOMAIN connTable)   \* _map_alloc

(* at: "none", "created" (constructed, with a timer, not yet inserted),
   "inserted" (in the table), "open" (OnConnect() was called), "destroy"
   (Destroy() has raised the flag, OnDestroy() not yet run), "down"
   (destroyed), "freed".  accepting: Server::OnRecv still holds the pointer,
   without a reference of its own. *)
NewConn(a) == [at |-> "created", accepting |-> TRUE, addr |-> a,
               myId |-> InvalidKey, floodKey |-> a]
NoMemory(at) == [NewConn(CHOOSE a \in Addrs : TRUE) EXCEPT !.at = at, !.accepting = FALSE]

MapInit ==
  /\ connTable = [k \in {} |-> NoConn] /\ freeTable = [k \in {} |-> 0]
  /\ firstFree = InvalidKey /\ count = 0
  /\ flood = [a \in Addrs |-> 0] /\ mapShutdown = FALSE
  /\ conn = [c \in Conns |-> NoMemory("none")]
  /\ owners = [c \in Conns |-> {}]
  /\ server = "open" /\ serverRefs = 0

-----------------------------------------------------------------------------
\* Mutant: the connexion does not own a reference of the server.
NewConnexionUncounted(c, a) ==
  /\ conn[c].at = "none" /\ server = "open" /\ count < MaxPopulation
  /\ conn' = [conn EXCEPT ![c] = NewConn(a)]
  /\ owners' = [owners EXCEPT ![c] = {"initial", "timer"}]
  /\ UNCHANGED <<connTable, freeTable, firstFree, count, flood, mapShutdown,
                 server, serverRefs>>

(* Server::OnRecv, a good challenge: the connexion is made, it owns a
   reference of the server, and a worker owns a timer for it. *)
NewConnexion(c, a) ==
  /\ conn[c].at = "none" /\ server = "open" /\ count < MaxPopulation
  /\ conn' = [conn EXCEPT ![c] = NewConn(a)]
  /\ owners' = [owners EXCEPT ![c] = {"initial", "timer"}]
  /\ serverRefs' = serverRefs + 1
  /\ UNCHANGED <<connTable, freeTable, firstFree, count, flood, mapShutdown, server>>

\* Mutant: the limit is compared one too late.
RefusedLate(a) == \/ mapShutdown
                  \/ flood[a] > FloodThreshold + 1
                  \/ firstFree = InvalidKey /\ Alloc >= MaxPopulation

(* Insert() refuses: the reference it took is given back, and the connexion
   is destroyed when OnRecv drops it. *)
Refused(a) == \/ mapShutdown
              \/ flood[a] > FloodThreshold
              \/ firstFree = InvalidKey /\ Alloc >= MaxPopulation

InsertRefused(c) ==
  /\ conn[c].at = "created" /\ Refused(conn[c].addr)
  /\ conn' = [conn EXCEPT ![c].at = "destroy", ![c].accepting = FALSE]
  /\ UNCHANGED <<connTable, freeTable, firstFree, count, flood, mapShutdown,
                 owners, server, serverRefs>>

(* The tables double when no slot is free; the free list of the new half is
   built, and what _free_table held for the old half is not copied. *)
NewAlloc == IF 2 * Alloc > MaxPopulation THEN MaxPopulation
            ELSE IF 2 * Alloc < MapPrealloc THEN MapPrealloc ELSE 2 * Alloc
\* Mutant: the last new slot is linked past the end of the table.
ExpandedPastEnd ==
  [table |-> [k \in 0 .. NewAlloc - 1 |-> IF k < Alloc THEN connTable[k] ELSE NoConn],
   free  |-> [k \in 0 .. NewAlloc - 1 |-> IF k < Alloc THEN Garbage ELSE k + 1],
   first |-> Alloc]

Expanded ==
  [table |-> [k \in 0 .. NewAlloc - 1 |-> IF k < Alloc THEN connTable[k] ELSE NoConn],
   free  |-> [k \in 0 .. NewAlloc - 1 |->
                CASE k < Alloc -> Garbage
                  [] k >= Alloc /\ k < NewAlloc - 1 -> k + 1
                  [] OTHER -> InvalidKey],
   first |-> Alloc]
Tables == IF firstFree = InvalidKey THEN Expanded
          ELSE [table |-> connTable, free |-> freeTable, first |-> firstFree]

Insert(c) ==
  /\ conn[c].at = "created" /\ ~Refused(conn[c].addr)
  /\ connTable' = [Tables.table EXCEPT ![Tables.first] = c]
  /\ freeTable' = Tables.free
  /\ firstFree' = Tables.free[Tables.first]
  /\ count' = count + 1
  /\ flood' = [flood EXCEPT ![conn[c].addr] = @ + 1]
  /\ conn' = [conn EXCEPT ![c].at = "inserted", ![c].myId = Tables.first,
                          ![c].floodKey = conn[c].addr]
  /\ owners' = [owners EXCEPT ![c] = @ \cup {"map"}]
  /\ UNCHANGED <<mapShutdown, server, serverRefs>>

(* The answer was posted or not: OnConnect() is called if the server is not
   shutting down, and the connexion is dropped otherwise, which does nothing
   if it has been destroyed meanwhile. *)
Accept(c, posted) ==
  /\ conn[c].accepting /\ conn[c].at # "created"
  /\ conn' = [conn EXCEPT
                ![c].accepting = FALSE,
                ![c].at = IF @ # "inserted" THEN @
                          ELSE IF posted /\ server = "open" THEN "open" ELSE "destroy"]
  /\ UNCHANGED <<connTable, freeTable, firstFree, count, flood, mapShutdown,
                 owners, server, serverRefs>>

-----------------------------------------------------------------------------
(* Lookup(): OnRecvRouting finds the connexion and takes a reference for the
   datagrams of the run. *)
Lookup(k) ==
  /\ k \in DOMAIN connTable /\ ~mapShutdown
  /\ connTable[k] # NoConn /\ "recv" \notin owners[connTable[k]]
  /\ owners' = [owners EXCEPT ![connTable[k]] = @ \cup {"recv"}]
  /\ UNCHANGED <<connTable, freeTable, firstFree, count, flood, mapShutdown,
                 conn, server, serverRefs>>

(* Connexion::OnRecv: datagrams that decrypt move the connexion to the
   address they came from; the references are given back. *)
OnRecv(c, a) ==
  /\ "recv" \in owners[c]
  /\ conn' = [conn EXCEPT ![c].addr = a]
  /\ owners' = [owners EXCEPT ![c] = @ \ {"recv"}]
  /\ UNCHANGED <<connTable, freeTable, firstFree, count, flood, mapShutdown,
                 server, serverRefs>>

(* OnDisconnectComplete() after a graceful disconnect: Destroy(). *)
DisconnectComplete(c) ==
  /\ conn[c].at \in {"inserted", "open"} /\ "timer" \in owners[c]
  /\ conn' = [conn EXCEPT ![c].at = "destroy"]
  /\ UNCHANGED <<connTable, freeTable, firstFree, count, flood, mapShutdown,
                 owners, server, serverRefs>>

\* What a faulty Remove() of c does to the table, with the given new values.
RemoveTo(c, table, free, floods, refs) ==
  /\ conn[c].at = "destroy"
  /\ conn' = [conn EXCEPT ![c].at = "down"]
  /\ IF conn[c].myId >= HashTableSize
       THEN /\ owners' = [owners EXCEPT ![c] = @ \ {"initial"}]
            /\ UNCHANGED <<connTable, freeTable, firstFree, count, flood>>
       ELSE /\ connTable' = table /\ freeTable' = free /\ flood' = floods
            /\ firstFree' = conn[c].myId /\ count' = count - 1
            /\ owners' = [owners EXCEPT ![c] = @ \ refs]
  /\ UNCHANGED <<mapShutdown, server, serverRefs>>
Without(c) == [connTable EXCEPT ![conn[c].myId] = NoConn]
Linking(c) == [freeTable EXCEPT ![conn[c].myId] = firstFree]
FloodLess(a) == [flood EXCEPT ![a] = @ - 1]

\* Mutant: the slot becomes the head of the free list and is not linked to it.
RemoveUnlinked(c) ==
  RemoveTo(c, Without(c), freeTable, FloodLess(conn[c].floodKey), {"map", "initial"})

\* Mutant: the entry stays in the table.
RemoveKeepsEntry(c) ==
  RemoveTo(c, connTable, Linking(c), FloodLess(conn[c].floodKey), {"map", "initial"})

\* Mutant: the flood counter is that of the address the client has now.
RemoveByAddress(c) ==
  RemoveTo(c, Without(c), Linking(c), FloodLess(conn[c].addr), {"map", "initial"})

\* Mutant: the reference of the table is not given back.
RemoveKeepsReference(c) ==
  RemoveTo(c, Without(c), Linking(c), FloodLess(conn[c].floodKey), {"initial"})

(* The first Destroy() goes on to OnDestroy(), that is Remove(), and gives
   the table's and the initial reference back. *)
Remove(c) ==
  /\ conn[c].at = "destroy"
  /\ conn' = [conn EXCEPT ![c].at = "down"]
  /\ LET k == conn[c].myId IN
     IF k >= HashTableSize
       THEN /\ owners' = [owners EXCEPT ![c] = @ \ {"initial"}]
            /\ UNCHANGED <<connTable, freeTable, firstFree, count, flood>>
       ELSE /\ connTable' = [connTable EXCEPT ![k] = NoConn]
            /\ freeTable' = [freeTable EXCEPT ![k] = firstFree]
            /\ firstFree' = k
            /\ count' = count - 1
            /\ flood' = [flood EXCEPT ![conn[c].floodKey] = @ - 1]
            /\ owners' = [owners EXCEPT ![c] = @ \ {"map", "initial"}]
  /\ UNCHANGED <<mapShutdown, server, serverRefs>>

(* TickTimers() finds the connexion shut down and gives the timer's
   reference back. *)
ReleaseTimer(c) ==
  /\ conn[c].at \in {"destroy", "down"} /\ "timer" \in owners[c]
  /\ owners' = [owners EXCEPT ![c] = @ \ {"timer"}]
  /\ UNCHANGED <<connTable, freeTable, firstFree, count, flood, mapShutdown,
                 conn, server, serverRefs>>

(* OnFinalize(): the reaper frees a connexion nobody owns, and its reference
   of the server is given back. *)
Finalize(c) ==
  /\ conn[c].at \notin {"none", "freed"} /\ owners[c] = {}
  /\ Prompt => ~conn[c].accepting
  /\ conn' = [conn EXCEPT ![c] = [NoMemory("freed") EXCEPT !.accepting = conn[c].accepting]]
  /\ serverRefs' = serverRefs - 1
  /\ UNCHANGED <<connTable, freeTable, firstFree, count, flood, mapShutdown,
                 owners, server>>

-----------------------------------------------------------------------------
(* Server::OnDestroy: ShutdownAll() empties the table under the lock, taking
   a reference of every connexion it finds ... *)
ServerDestroy ==
  /\ server = "open"
  /\ server' = "closing"
  /\ UNCHANGED <<connTable, freeTable, firstFree, count, flood, mapShutdown,
                 conn, owners, serverRefs>>

Listed == {c \in Conns : \E k \in DOMAIN connTable : connTable[k] = c}
ShutdownAll ==
  /\ server = "closing" /\ ~mapShutdown
  /\ mapShutdown' = TRUE
  /\ owners' = [c \in Conns |-> owners[c] \cup (IF c \in Listed THEN {"sweep"} ELSE {})]
  /\ connTable' = [k \in DOMAIN connTable |-> NoConn]
  /\ count' = 0
  /\ UNCHANGED <<freeTable, firstFree, flood, conn, server, serverRefs>>

(* ... and then destroys and releases them one by one, outside the lock. *)
SweepDestroy(c) ==
  /\ "sweep" \in owners[c] /\ conn[c].at \in {"inserted", "open"}
  /\ conn' = [conn EXCEPT ![c].at = "destroy"]
  /\ UNCHANGED <<connTable, freeTable, firstFree, count, flood, mapShutdown,
                 owners, server, serverRefs>>

SweepRelease(c) ==
  /\ "sweep" \in owners[c] /\ conn[c].at \in {"destroy", "down"}
  /\ owners' = [owners EXCEPT ![c] = @ \ {"sweep"}]
  /\ UNCHANGED <<connTable, freeTable, firstFree, count, flood, mapShutdown,
                 conn, server, serverRefs>>

(* OnDestroy() is through: the server's own reference is given back, and the
   server is freed once no connexion owns one. *)
ServerClosed ==
  /\ server = "closing" /\ mapShutdown /\ \A c \in Conns : "sweep" \notin owners[c]
  /\ server' = "closed"
  /\ UNCHANGED <<connTable, freeTable, firstFree, count, flood, mapShutdown,
                 conn, owners, serverRefs>>

ServerFinalize ==
  /\ server = "closed" /\ serverRefs = 0
  /\ server' = "freed"
  /\ UNCHANGED <<connTable, freeTable, firstFree, count, flood, mapShutdown,
                 conn, owners, serverRefs>>

ConnStep(c) == \/ InsertRefused(c) \/ Insert(c)
               \/ \E posted \in BOOLEAN : Accept(c, posted)
               \/ \E a \in Addrs : OnRecv(c, a)
               \/ Remove(c) \/ ReleaseTimer(c) \/ Finalize(c)
               \/ SweepDestroy(c) \/ SweepRelease(c)
ServerStep == ShutdownAll \/ ServerClosed \/ ServerFinalize

MapNext ==
  \/ \E c \in Conns : ConnStep(c) \/ DisconnectComplete(c)
                        \/ \E a \in Addrs : NewConnexion(c, a)
  \/ \E k \in 0 .. MaxPopulation - 1 : Lookup(k)
  \/ ServerDestroy \/ ServerStep
MapSpec == MapInit /\ [][MapNext]_mapVars
-----------------------------------------------------------------------------
TableTypeOK ==
  /\ \E n \in 0 .. MaxPopulation :
       /\ connTable \in [0 .. n - 1 -> Conns \cup {NoConn}]
       /\ freeTable \in [0 .. n - 1 -> 0 .. n - 1 \cup {InvalidKey, Garbage}]
  /\ firstFree \in DOMAIN connTable \cup {InvalidKey}
  /\ count \in Int /\ flood \in [Addrs -> Int] /\ mapShutdown \in BOOLEAN

ConnexionType ==
  [at : {"none", "created", "inserted", "open", "destroy", "down", "freed"},
   accepting : BOOLEAN, addr : Addrs,
   myId : 0 .. MaxPopulation - 1 \cup {InvalidKey}, floodKey : Addrs]

MapTypeOK ==
  /\ TableTypeOK
  /\ conn \in [Conns -> ConnexionType]
  /\ owners \in [Conns -> SUBSET {"initial", "timer", "map", "recv", "sweep"}]
  /\ server \in {"open", "closing", "closed", "freed"} /\ serverRefs \in Int

(* chain lists, in order, the n slots that are linked from _first_free. *)
FreeList(n, chain) ==
  /\ firstFree = IF n = 0 THEN InvalidKey ELSE chain[1]
  /\ \A i \in 1 .. n : freeTable[chain[i]] = IF i = n THEN InvalidKey ELSE chain[i + 1]
  /\ \A i, j \in 1 .. n : chain[i] = chain[j] => i = j

(* Until ShutdownAll(), the free list holds exactly the empty slots, each once:
   a slot is never handed out twice and never lost, also when the tables grow
   and what the free table held before is dropped. *)
FreeListExact ==
  ~mapShutdown =>
    \E n \in 0 .. Alloc : \E chain \in [1 .. n -> DOMAIN connTable] :
      /\ FreeList(n, chain)
      /\ {chain[i] : i \in 1 .. n} = {k \in DOMAIN connTable : connTable[k] = NoConn}

(* A connexion in the table has the reference of the table, so a Lookup()
   never takes a reference of a freed connexion. *)
TableEntriesOwned ==
  \A k \in DOMAIN connTable : connTable[k] # NoConn =>
    /\ "map" \in owners[connTable[k]] /\ conn[connTable[k]].myId = k
    /\ conn[connTable[k]].at \notin {"none", "down", "freed"}

(* _count is the population and each flood counter the number of connexions
   that came from its address, also after a client has moved to another. *)
CountsMatchTable ==
  /\ ~mapShutdown => count = Cardinality(Listed)
  /\ \A a \in Addrs : flood[a] =
       Cardinality({c \in Conns : "map" \in owners[c] /\ conn[c].floodKey = a})

(* The flood counters and the population stay within their limits when
   several workers insert at once. *)
PopulationBounded ==
  /\ \A a \in Addrs : flood[a] <= FloodThreshold + 1
  /\ Cardinality(Listed) <= MaxPopulation

(* The server outlives its connexions: OnDestroy(), OnRecv() and OnFinalize()
   of a connexion use _parent. *)
ServerOutlivesConnexions ==
  server = "freed" => \A c \in Conns : conn[c].at \in {"none", "freed"}

(* After the server is destroyed nothing waits forever: until the server is
   freed some thread can go on.  (No step can be taken over and over once the
   table is shut down, so every connexion and the server are freed.) *)
ServerGoesAway ==
  server \in {"closing", "closed"} =>
    ENABLED (ServerStep \/ \E c \in Conns : ConnStep(c))

(* Connexions are alike. *)
ConnSymmetry == Permutations(Conns)

(* The table, its free list and its counters agree with the connexions. *)
TableExact == /\ MapTypeOK /\ FreeListExact /\ TableEntriesOwned
              /\ CountsMatchTable /\ PopulationBounded
=============================================================================
