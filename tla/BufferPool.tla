---------------------------- MODULE BufferPool ----------------------------
(***************************************************************************)
(* The buffer allocators: BufferAllocator and FileWriteAllocator, which     *)
(* hand out batches from a fixed set, and ReuseAllocator, the bins of the   *)
(* UDPSendAllocator, which keeps what was allocated once.  Each has a list  *)
(* to acquire from and a list to release to, with a lock each, and moves    *)
(* the second to the first when that runs out.  The lists go through the    *)
(* buffers themselves (batch_next).  Above the bins, UDPSendAllocator picks *)
(* one by size and takes mixed batches back.                                *)
(***************************************************************************)
EXTENDS Integers, Sequences, FiniteSets
Seqs == INSTANCE SequencesExt

CONSTANTS Buffers,        \* a set of positive numbers
          Users,          \* threads
          BatchSizes,     \* counts asked of AcquireBatch
          Pools,          \* allocators: "fixed", "reuse", "send"
          MinBytes, MaxBytes,  \* REUSE_MINIMUM_SIZE, the largest buffer
          MinAllocators, MaxAllocators,  \* MIN_ALLOC_COUNT, MAX_ALLOC_COUNT
          IndexWord       \* 2^8: _udp_send_allocator_bin_index is a byte

Nobody == "nobody"
(* A pool has a buffer, and a batch asks for one at least. *)
ASSUME PoolAssumption ==
  /\ IsFiniteSet(Buffers) /\ 1 \in Buffers /\ Buffers = 1 .. Cardinality(Buffers)
  /\ Nobody \notin Users /\ BatchSizes \subseteq Nat \ {0}
(* "Minimum size is too small!", and the limits of the setting. *)
ASSUME BinsAssumption ==
  /\ MinBytes \in Nat \ {0} /\ MaxBytes \in Nat /\ MinBytes < MaxBytes
  /\ MinAllocators \in Nat /\ MaxAllocators \in Nat /\ IndexWord \in Nat
  /\ 2 <= MinAllocators /\ MinAllocators <= MaxAllocators /\ MaxAllocators < IndexWord

NoBuffer == 0

VARIABLES pool,           \* which allocator it is
          batch_next,     \* the link in each buffer
          acquire_head, release_head,
          lockedBy,       \* _acquire_lock
          made,           \* buffers that were allocated
          user,           \* what each thread does and holds
          num_allocators, \* the bins of the UDPSendAllocator are 0..num_allocators-1
          bins,           \* the free buffers of each
          sends           \* the buffers it made: their bytes, bin index, bytes asked
poolVars == <<pool, batch_next, acquire_head, release_head, lockedBy, made, user,
              num_allocators, bins, sends>>
poolListVars == <<pool, batch_next, acquire_head, release_head, lockedBy, made, user>>
binVars == <<num_allocators, bins, sends>>

(* A user holds the batch from head to tail. *)
Free == [pc |-> "idle", head |-> NoBuffer, tail |-> NoBuffer, want |-> 0]

(* The nodes of a chain, the first at 0, and NoBuffer after its end. *)
Chain(link, head) ==
  LET c[n \in 0 .. Cardinality(Buffers)] ==
        IF n = 0 THEN head ELSE IF c[n - 1] = NoBuffer THEN NoBuffer ELSE link[c[n - 1]]
  IN  c
Length(link, head) ==
  LET c == Chain(link, head) IN Cardinality({n \in DOMAIN c : c[n] # NoBuffer})
InChain(link, head) ==
  LET c == Chain(link, head) IN {c[n] : n \in DOMAIN c} \ {NoBuffer}

PoolInit ==
  /\ pool \in Pools
  /\ IF pool = "fixed"
     THEN /\ batch_next = [b \in Buffers |-> IF b + 1 \in Buffers THEN b + 1 ELSE NoBuffer]
          /\ acquire_head = 1 /\ made = Buffers
     ELSE /\ batch_next = [b \in Buffers |-> NoBuffer]
          /\ acquire_head = NoBuffer /\ made = {}
  /\ release_head = NoBuffer /\ lockedBy = Nobody
  /\ user = [t \in Users |-> Free]
  /\ num_allocators \in IF pool = "send" THEN MinAllocators .. MaxAllocators ELSE {MinAllocators}
  /\ bins = [i \in 0 .. num_allocators - 1 |-> {}]
  /\ sends = [b \in {} |-> 0]

At(t, pc) == user[t].pc = pc
Goes(t, pc) == user' = [user EXCEPT ![t].pc = pc]
Holds(t, head, tail) == user' = [user EXCEPT ![t] = [pc |-> "has", head |-> head, tail |-> tail, want |-> 0]]
MayLock(t) == lockedBy \in {Nobody, t}

-----------------------------------------------------------------------------
(* AcquireBatch.  The acquire list has what is asked for: *)
TakeAcquired(t, count) ==
  LET last == Chain(batch_next, acquire_head)[count - 1] IN
  /\ Length(batch_next, acquire_head) >= count
  /\ acquire_head' = batch_next[last]
  /\ batch_next' = [batch_next EXCEPT ![last] = NoBuffer]
  /\ Holds(t, acquire_head, last)
  /\ UNCHANGED lockedBy
(* or it runs out, and the lock is kept. *)
RunOut(t, count) ==
  LET n == Length(batch_next, acquire_head) IN
  /\ n < count
  /\ lockedBy' = t
  /\ user' = [user EXCEPT ![t] =
       [pc |-> "short", head |-> acquire_head, want |-> count - n,
        tail |-> IF n = 0 THEN NoBuffer ELSE Chain(batch_next, acquire_head)[n - 1]]]
  /\ UNCHANGED <<batch_next, acquire_head>>
AcquireBatch(t, count) ==
  /\ pool = "fixed" /\ At(t, "idle") /\ lockedBy = Nobody
  /\ TakeAcquired(t, count) \/ RunOut(t, count)
  /\ UNCHANGED <<pool, release_head, made>>

(* _release_head is looked at without its lock. *)
NoneReleased(t) ==
  /\ At(t, "short") /\ release_head = NoBuffer
  /\ acquire_head' = NoBuffer /\ lockedBy' = Nobody
  /\ IF user[t].head = NoBuffer THEN user' = [user EXCEPT ![t] = Free]
     ELSE Holds(t, user[t].head, user[t].tail)
  /\ UNCHANGED <<pool, batch_next, release_head, made>>

(* Nothing stays in the release list.  Mutant: what was stolen stays too. *)
LeftReleasedKept == release_head
LeftReleased == NoBuffer
StealReleased(t) ==
  LET u == user[t]
      linked == IF u.tail = NoBuffer THEN batch_next
                ELSE [batch_next EXCEPT ![u.tail] = release_head]
      head == IF u.tail = NoBuffer THEN release_head ELSE u.head
      n == Length(batch_next, release_head)
      last == Chain(batch_next, release_head)[IF n < u.want THEN n - 1 ELSE u.want - 1]
  IN
  /\ At(t, "short") /\ release_head # NoBuffer
  /\ release_head' = LeftReleased
  /\ acquire_head' = batch_next[last]
  /\ batch_next' = [linked EXCEPT ![last] = NoBuffer]
  /\ lockedBy' = Nobody
  /\ Holds(t, head, last)
  /\ UNCHANGED <<pool, made>>

-----------------------------------------------------------------------------
(* ReuseAllocator::Acquire: both heads are looked at without their locks, and
   the acquire lock is only taken where there seemed to be something. *)
PeekAcquire(t) ==
  /\ pool = "reuse" /\ At(t, "idle")
  /\ Goes(t, IF acquire_head # NoBuffer THEN "lock" ELSE "peek")
  /\ UNCHANGED <<pool, batch_next, acquire_head, release_head, lockedBy, made>>
PopAcquire(t) ==
  /\ At(t, "lock") /\ lockedBy = Nobody
  /\ IF acquire_head # NoBuffer
     THEN /\ acquire_head' = batch_next[acquire_head]
          /\ Holds(t, acquire_head, acquire_head)
          /\ UNCHANGED lockedBy
     ELSE Goes(t, "peek") /\ lockedBy' = t /\ UNCHANGED acquire_head
  /\ UNCHANGED <<pool, batch_next, release_head, made>>

(* Leave, where the lock is held. *)
LeaveIfHeld(t) == lockedBy' = IF lockedBy = t THEN Nobody ELSE lockedBy

PeekRelease(t) ==
  /\ At(t, "peek")
  /\ IF release_head # NoBuffer THEN Goes(t, "steal") /\ UNCHANGED lockedBy
     ELSE Goes(t, "new") /\ LeaveIfHeld(t)
  /\ UNCHANGED <<pool, batch_next, acquire_head, release_head, made>>
StealAll(t) ==
  /\ At(t, "steal")
  /\ release_head' = LeftReleased
  /\ IF release_head = NoBuffer THEN Goes(t, "new") /\ LeaveIfHeld(t)
     ELSE /\ user' = [user EXCEPT ![t].pc = "put", ![t].head = release_head]
          /\ UNCHANGED lockedBy
  /\ UNCHANGED <<pool, batch_next, acquire_head, made>>
PutRest(t) ==
  /\ At(t, "put") /\ MayLock(t)
  /\ acquire_head' = batch_next[user[t].head]
  /\ Holds(t, user[t].head, user[t].head)
  /\ lockedBy' = Nobody
  /\ UNCHANGED <<pool, batch_next, release_head, made>>
Allocate(t) == \E b \in Buffers \ made :
  /\ At(t, "new")
  /\ made' = made \cup {b} /\ Holds(t, b, b)
  /\ UNCHANGED <<pool, batch_next, acquire_head, release_head, lockedBy>>

-----------------------------------------------------------------------------
(* ReleaseBatch, which is the same in all three: the batch goes before what
   was released.  Mutant: what was released is dropped. *)
ReleasedDropped(tail) == [batch_next EXCEPT ![tail] = NoBuffer]
Released(tail) == [batch_next EXCEPT ![tail] = release_head]
ReleaseBatch(t) ==
  /\ At(t, "has")
  /\ batch_next' = Released(user[t].tail)
  /\ release_head' = user[t].head
  /\ user' = [user EXCEPT ![t] = Free]
  /\ UNCHANGED <<pool, acquire_head, lockedBy, made>>

PoolListNext == \E t \in Users :
  \/ \E count \in BatchSizes : AcquireBatch(t, count)
  \/ NoneReleased(t) \/ StealReleased(t)
  \/ PeekAcquire(t) \/ PopAcquire(t) \/ PeekRelease(t) \/ StealAll(t) \/ PutRest(t)
  \/ Allocate(t) \/ ReleaseBatch(t)

-----------------------------------------------------------------------------
(* UDPSendAllocator: bins of growing sizes, each a ReuseAllocator.  A request *)
(* goes to the first bin that is large enough, rounded up.                    *)
BinBytes(ii) == MinBytes + (ii * (MaxBytes - MinBytes)) \div (num_allocators - 1)
(* Mutant: rounded down. *)
BinIndexDown(bytes) == ((bytes - MinBytes) * (num_allocators - 1)) \div (MaxBytes - MinBytes)
BinIndex(bytes) ==
  ((bytes - MinBytes) * (num_allocators - 1) + (MaxBytes - MinBytes - 1)) \div (MaxBytes - MinBytes)

Held == {b \in DOMAIN sends : sends[b].asked > 0}
Gets(b, made_of, bin, bytes) ==
  sends' = [x \in DOMAIN sends \cup {b} |->
              IF x = b THEN [bytes |-> made_of, bin |-> bin, asked |-> bytes] ELSE sends[x]]
(* Acquire: the default allocator for small sizes, with the bin index 0; *)
AcquireSmall(bytes) == \E b \in Buffers \ DOMAIN sends :
  /\ bytes < MinBytes
  /\ Gets(b, bytes, 0, bytes) /\ UNCHANGED bins
(* otherwise a free buffer of the bin, or a new one. *)
AcquireNew(bytes, i) == \E b \in Buffers \ DOMAIN sends :
  /\ bins[i] = {}
  /\ Gets(b, BinBytes(i), (i + 1) % IndexWord, bytes) /\ UNCHANGED bins
AcquireFree(bytes, i) == \E b \in bins[i] :
  /\ bins' = [bins EXCEPT ![i] = @ \ {b}]
  /\ Gets(b, sends[b].bytes, (i + 1) % IndexWord, bytes)
AcquireSend(bytes) ==
  /\ pool = "send"
  /\ \/ AcquireSmall(bytes)
     \/ bytes >= MinBytes /\ (AcquireNew(bytes, BinIndex(bytes)) \/ AcquireFree(bytes, BinIndex(bytes)))
  /\ UNCHANGED <<poolListVars, num_allocators>>

(* ReleaseBatch: neighbours of one bin are collected in kills and given to it *)
(* together when another bin's buffer comes, and at the end.                   *)
Flushed(s) == IF s.prev_bin > 0 THEN [s EXCEPT !.bins[s.prev_bin - 1] = @ \cup s.kills] ELSE s
(* Mutant: the buffers collected so far are forgotten. *)
ReleaseOneForgets(s, b) ==
  LET bin == sends[b].bin
  IN  CASE bin = 0 -> [s EXCEPT !.deleted = @ \cup {b}]
        [] bin > 0 /\ bin = s.prev_bin -> [s EXCEPT !.kills = @ \cup {b}]
        [] OTHER -> [s EXCEPT !.kills = {b}, !.prev_bin = bin]
ReleaseOne(s, b) ==
  LET bin == sends[b].bin
  IN  CASE bin = 0 -> [s EXCEPT !.deleted = @ \cup {b}]
        [] bin > 0 /\ bin = s.prev_bin -> [s EXCEPT !.kills = @ \cup {b}]
        [] OTHER -> [Flushed(s) EXCEPT !.kills = {b}, !.prev_bin = bin]
(* After all of a batch, and what is left in kills. *)
ReleasedAll(batch) ==
  LET s[n \in 0 .. Len(batch)] ==
        IF n = 0 THEN [bins |-> bins, deleted |-> {}, kills |-> {}, prev_bin |-> 0]
        ELSE ReleaseOne(s[n - 1], batch[n])
  IN  Flushed(s[Len(batch)])
ReleaseSends(batch) ==
  LET end == ReleasedAll(batch) IN
  /\ pool = "send" /\ batch # <<>>
  /\ bins' = end.bins
  /\ sends' = [b \in DOMAIN sends \ end.deleted |->
                 IF b \in Seqs!Range(batch) THEN [sends[b] EXCEPT !.asked = 0] ELSE sends[b]]
  /\ UNCHANGED <<poolListVars, num_allocators>>

PoolNext == \/ PoolListNext /\ UNCHANGED binVars
            \/ \E bytes \in 1 .. MaxBytes : AcquireSend(bytes)
            \/ \E S \in SUBSET Held : \E batch \in Seqs!SetToSeqs(S) : ReleaseSends(batch)
PoolSpec == PoolInit /\ [][PoolNext]_poolVars

-----------------------------------------------------------------------------
(* The buffers a thread has, or has on the way to the acquire list. *)
HeldBy(t) == IF At(t, "put") THEN InChain(batch_next, user[t].head)
             ELSE IF ~At(t, "has") THEN {}
             ELSE IF pool = "reuse" THEN {user[t].head} ELSE InChain(batch_next, user[t].head)
Acquirable == InChain(batch_next, acquire_head)
Returned == InChain(batch_next, release_head)
Ends(head) == Chain(batch_next, head)[Cardinality(Buffers)] = NoBuffer

(* Whatever sizes are asked for and in whatever order the buffers come back, a
   buffer of the UDPSendAllocator has the bytes that were asked for, and is in
   use or free in one bin, the one it was made for; what is in no bin is in use. *)
FreeIn(b) == {i \in 0 .. num_allocators - 1 : b \in bins[i]}
SendsExact ==
  /\ \A i \in 0 .. num_allocators - 1 : bins[i] \subseteq DOMAIN sends \ Held
  /\ \A b \in Held : sends[b].bytes >= sends[b].asked
  /\ \A b \in DOMAIN sends \ Held :
       FreeIn(b) = {sends[b].bin - 1} /\ sends[b].bytes = BinBytes(sends[b].bin - 1)

(* Whatever is released between the peek at the release list and the lock, and
   whoever takes it, a buffer is in one place: one thread has it, or it is in
   one of the lists, and the lists end.  A fixed set loses none, and a batch
   ends where its owner thinks it does. *)
PoolExact ==
  /\ Ends(acquire_head) /\ Ends(release_head) /\ Acquirable \cap Returned = {}
  /\ \A t \in Users : /\ HeldBy(t) \cap (Acquirable \cup Returned) = {}
                      /\ \A v \in Users \ {t} : HeldBy(t) \cap HeldBy(v) = {}
  /\ pool = "fixed" =>
       /\ Acquirable \cup Returned \cup UNION {HeldBy(t) : t \in Users} = Buffers
       /\ \A t \in Users : At(t, "has") =>
            Ends(user[t].head) /\ batch_next[user[t].tail] = NoBuffer /\ user[t].tail \in HeldBy(t)
=============================================================================
