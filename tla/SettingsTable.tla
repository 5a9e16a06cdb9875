--------------------------- MODULE SettingsTable ---------------------------
(***************************************************************************)
(* The table of settings, shared by threads: the chained hash table        *)
(* (src/src/lang/HashTable.cpp) under the accessors that take a lock       *)
(* (File::Set, Get, SetInt and GetInt with an RWLock, in                   *)
(* src/src/io/RagdollFile.cpp).                                            *)
(*                                                                         *)
(* What an accessor does under one hold of the lock is one step.  Get()    *)
(* looks under the read lock, and if the key is not there it takes the     *)
(* write lock to create it with the default: two steps, and anything may   *)
(* happen between them.  The hash of a key is the key itself.              *)
(***************************************************************************)
EXTENDS Integers, Sequences, FiniteSets

CONSTANTS SetKeys,       \* keys of settings, each its own hash
          SetThreads,
          SetValues,     \* values and defaults
          Prealloc,      \* PREALLOC, 64 in the code
          GrowThresh,    \* GROW_THRESH
          GrowRate,      \* GROW_RATE
          MaxItems       \* bound: items created

ASSUME SettingsAssumption ==
  /\ SetKeys \subseteq Nat /\ MaxItems \in Nat
  /\ Prealloc \in Nat \ {0} /\ GrowThresh \in Nat \ {0} /\ GrowRate \in Nat \ {0}

NoKey == -1

VARIABLES
  buckets,    \* _buckets: the chain of each, the newest item first
  used,       \* _used
  missed,     \* the key each thread's Get() did not find and will create
  lastSet     \* the value the last Set() of each key wrote, or NoKey

settingsVars == <<buckets, used, missed, lastSet>>

BucketCount == Cardinality(DOMAIN buckets)
Items(b) == {<<i, n>> : i \in DOMAIN b, n \in 1 .. MaxItems}
ItemsIn(b) == {p \in Items(b) : p[2] <= Len(b[p[1]])}

SettingsInit == /\ buckets = [i \in {} |-> <<>>] /\ used = 0
                /\ missed = [t \in SetThreads |-> NoKey]
                /\ lastSet = [k \in SetKeys |-> NoKey]

(* Lookup(): the place of the first item of the key in its chain. *)
KeyFound(k) == /\ BucketCount > 0
            /\ \E n \in 1 .. Len(buckets[k % BucketCount]) : buckets[k % BucketCount][n].key = k
LookupItem(k) == LET chain == buckets[k % BucketCount] IN
  CHOOSE n \in 1 .. Len(chain) : /\ chain[n].key = k
                                 /\ \A j \in 1 .. n - 1 : chain[j].key # k

\* Mutant: items stay in the bucket of the old size.
MovedKept(b, size) == [i \in 0 .. size - 1 |-> IF i \in DOMAIN b THEN b[i] ELSE <<>>]
(* Grow(): the items of each old bucket in turn are pushed in front of their
   new one; with a power of two a new bucket takes from one old bucket only,
   so its chain is that chain's items turned round. *)
Moved(b, size) ==
  [i \in 0 .. size - 1 |->
     IF b = <<>> THEN <<>>
     ELSE LET old == b[i % Cardinality(DOMAIN b)]
              there == SelectSeq(old, LAMBDA it : it.key % size = i)
          IN  [n \in 1 .. Len(there) |-> there[Len(there) + 1 - n]]]
Grown(b) == LET size == Cardinality(DOMAIN b) * GrowRate
            IN  Moved(b, IF size < Prealloc THEN Prealloc ELSE size)

\* Mutant: the test for growth is left out.
GrownFirst(b) == IF b = <<>> THEN Grown(b) ELSE b
(* Create(), before the item is put in: the first buckets are allocated, and
   more when half of them are used. *)
WithRoom(b) == LET first == IF b = <<>> THEN Grown(b) ELSE b IN
  IF used * GrowThresh >= Cardinality(DOMAIN first) THEN Grown(first) ELSE first

(* Create(): the item goes in front of its chain; the key is not looked for. *)
Create(k, v) ==
  LET b == WithRoom(buckets)
      i == k % Cardinality(DOMAIN b)
  IN  /\ used < MaxItems
      /\ buckets' = [b EXCEPT ![i] = <<[key |-> k, value |-> v]>> \o @]
      /\ used' = used + 1

(* Set() and SetInt(), under the write lock. *)
SetLocked(t, k, v) ==
  /\ missed[t] = NoKey
  /\ IF KeyFound(k)
     THEN /\ buckets' = [buckets EXCEPT ![k % BucketCount][LookupItem(k)].value = v]
          /\ UNCHANGED used
     ELSE Create(k, v)
  /\ lastSet' = [lastSet EXCEPT ![k] = v]
  /\ UNCHANGED missed

(* Get() and GetInt(), under the read lock: a key that is there is answered. *)
GetLocked(t, k) ==
  /\ missed[t] = NoKey /\ ~KeyFound(k)
  /\ missed' = [missed EXCEPT ![t] = k]
  /\ UNCHANGED <<buckets, used, lastSet>>

(* Get() and GetInt(), under the write lock: the item with the default. *)
GetCreates(t, d) ==
  /\ missed[t] # NoKey
  /\ Create(missed[t], d)
  /\ missed' = [missed EXCEPT ![t] = NoKey]
  /\ UNCHANGED lastSet

SettingsNext == \E t \in SetThreads, v \in SetValues :
  \/ \E k \in SetKeys : SetLocked(t, k, v) \/ GetLocked(t, k)
  \/ GetCreates(t, v)
SettingsSpec == SettingsInit /\ [][SettingsNext]_settingsVars

-----------------------------------------------------------------------------
ItemsOfKey(k) == {p \in ItemsIn(buckets) : buckets[p[1]][p[2]].key = k}

(* However the table grows under the accessors: a key that has an item is found,
   every item is in the chain of its hash, the count that decides about growth
   is the number of items, half the buckets are enough for them, and a key that
   was not created twice has the value that was set last. *)
SettingsRight ==
  /\ used = Cardinality(ItemsIn(buckets))
  /\ BucketCount > 0 => (used - 1) * GrowThresh < BucketCount
  /\ \A p \in ItemsIn(buckets) : buckets[p[1]][p[2]].key % BucketCount = p[1]
  /\ \A k \in SetKeys :
       /\ ItemsOfKey(k) # {} => KeyFound(k)
       /\ (lastSet[k] # NoKey /\ Cardinality(ItemsOfKey(k)) = 1) =>
            buckets[k % BucketCount][LookupItem(k)].value = lastSet[k]

(* A value that was set is what the next Get() answers, whatever other threads
   do in between with accessors other than Set().  Get() breaks it: the item it
   creates with the default hides one that was set since it looked. *)
SetsKept == \A k \in SetKeys :
  lastSet[k] # NoKey => KeyFound(k) /\ buckets[k % BucketCount][LookupItem(k)].value = lastSet[k]
=============================================================================
