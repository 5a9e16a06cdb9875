---------------------------- MODULE BombayTable ----------------------------
(***************************************************************************)
(* A Bombay table with one index, src/src/db/BombayTable.cpp and            *)
(* BombayTableIndex.cpp: records in a file that is read and written by      *)
(* overlapped operations, a cache of the records used last (BombayCache     *)
(* has its trees), and a hash table from the key of a record to its place   *)
(* that is saved when the table is closed and rebuilt from the records when *)
(* its file is missing or broken.  Offsets are numbers of records, and a    *)
(* page of the rebuild is one record.                                       *)
(***************************************************************************)
EXTENDS Integers, Sequences, FiniteSets

CONSTANTS Keys,             \* hashes of the indexed field, not 0
          MinElements,      \* MIN_ELEMENTS
          ProbeMultiplier,  \* COLLISION_MULTIPLIER
          ProbeIncrementer, \* COLLISION_INCREMENTER
          IndexReads,       \* NUM_PARALLEL_INDEX_READS
          CacheRecords,     \* records the cache holds
          MaxRecords,       \* bound: records of the file
          MaxPosted,        \* bound: overlapped operations at a time
          Quiet             \* is there one operation at a time on a record?

InvalidOffset == -1
Offsets == 0 .. MaxRecords - 1
NoRecord == [key |-> 0, ver |-> 0]    \* also a record that was zeroed
Idle == "idle"

VARIABLES index,          \* TableIndex
          disk,           \* the table's file
          nextRecord,     \* _next_record
          cache,          \* <<offset, record>>, the oldest first
          posted,         \* overlapped operations
          job,            \* the rebuild of the index
          contents,       \* what the user has stored, by offset
          answered        \* the last answer to a query, and what was stored
tableVars == <<index, disk, nextRecord, cache, posted, job, contents, answered>>

-----------------------------------------------------------------------------
(* The index: an element has offset + 1, or 0, a collision flag and a hash.  *)
NewIndex(size) == [size |-> size, used |-> 0,
                   at |-> [k \in 0 .. size - 1 |-> [place |-> 0, collide |-> FALSE, hash |-> 0]]]
FirstKey(hash, size) == (hash - 1) % size
NextKey(key, size) == (key * ProbeMultiplier + ProbeIncrementer) % size
(* The keys probed for a hash, the first one at 0. *)
Probes(first, size) ==
  LET p[n \in 0 .. size - 1] == IF n = 0 THEN first ELSE NextKey(p[n - 1], size) IN p

Empty(e) == e.place = 0 /\ ~e.collide
(* The first probe at which P holds, all before it being flagged. *)
Reached(x, p, n) == \A i \in 0 .. n - 1 : x.at[p[i]].collide
Found(x, p, hash) == {n \in DOMAIN p : /\ Reached(x, p, n)
                                       /\ x.at[p[n]].hash = hash /\ ~Empty(x.at[p[n]])}
Least(S) == CHOOSE n \in S : \A k \in S : n <= k

Lookup(x, hash) ==
  LET p == Probes(FirstKey(hash, x.size), x.size)
      found == Found(x, p, hash)
  IN  IF hash = 0 \/ found = {} THEN InvalidOffset ELSE x.at[p[Least(found)]].place - 1

(* The elements before the free one are flagged; its own flag stays. *)
Placed(at, p, free, place, hash) ==
  [k \in DOMAIN at |->
     IF k = p[free] THEN [place |-> place, collide |-> at[k].collide, hash |-> hash]
     ELSE IF \E i \in 0 .. free - 1 : p[i] = k THEN [at[k] EXCEPT !.collide = TRUE] ELSE at[k]]

(* DoubleTable: the elements go to the new table in their order. *)
DoubleTable(x) ==
  LET size == 2 * x.size
      at[n \in 0 .. x.size] ==
        IF n = 0 THEN NewIndex(size).at
        ELSE LET old == x.at[n - 1]
                 p == Probes(old.hash % size, size)
                 free == Least({i \in DOMAIN p : Empty(at[n - 1][p[i]])})
             IN  IF Empty(old) THEN at[n - 1] ELSE Placed(at[n - 1], p, free, old.place, old.hash)
  IN  [size |-> size, used |-> x.used, at |-> at[x.size]]

(* Insert: the first key and the mask are those of the table before it grew. *)
IndexInsert(x, hash, offset) ==
  LET p == Probes(FirstKey(hash, x.size), x.size)
      y == IF x.used >= x.size \div 2 THEN DoubleTable(x) ELSE x
      free == Least({n \in DOMAIN p : y.at[p[n]].place = 0})
  IN  IF hash = 0 THEN x
      ELSE [y EXCEPT !.used = @ + 1, !.at = Placed(@, p, free, offset + 1, hash)]

(* RemoveRecord: the end of a chain is unlinked from the last element in use before
   it, and what lies between is cleared.  Mutant: only the element goes, with
   its flag. *)
ClearedAlone(x, p, n) == [k \in DOMAIN x.at |->
  IF k = p[n] THEN [place |-> 0, collide |-> FALSE, hash |-> 0] ELSE x.at[k]]
Cleared(x, p, n) ==
  LET taken == {i \in 0 .. n - 1 : x.at[p[i]].place # 0}
      last == IF taken = {} THEN 0 ELSE CHOOSE i \in taken : \A j \in taken : i >= j
      ends == ~x.at[p[n]].collide /\ n # 0
  IN  [k \in DOMAIN x.at |->
         IF k = p[n] THEN [place |-> 0, collide |-> x.at[k].collide, hash |-> 0]
         ELSE IF ends /\ k = p[last] THEN [x.at[k] EXCEPT !.collide = FALSE]
         ELSE IF ends /\ \E i \in last + 1 .. n - 1 : p[i] = k
              THEN [place |-> 0, collide |-> FALSE, hash |-> x.at[k].hash]
         ELSE x.at[k]]
IndexRemove(x, hash) ==
  LET p == Probes(FirstKey(hash, x.size), x.size)
      found == Found(x, p, hash)
  IN  IF hash = 0 \/ found = {} THEN x
      ELSE [x EXCEPT !.used = @ - 1, !.at = Cleared(x, p, Least(found))]

-----------------------------------------------------------------------------
(* The cache: a record replaces the oldest one.  Mutant: a record that is in
   the cache is added again. *)
Cached(offset) == {n \in 1 .. Len(cache) : cache[n][1] = offset}
Newest(c, offset, r) == LET d == Append(c, <<offset, r>>)
                        IN  IF Len(d) > CacheRecords THEN Tail(d) ELSE d
CacheSetAgain(c, offset, r) == Newest(c, offset, r)
CacheSet(c, offset, r) ==
  IF \E n \in 1 .. Len(c) : c[n][1] = offset
  THEN [n \in 1 .. Len(c) |-> IF c[n][1] = offset THEN <<offset, r>> ELSE c[n]]
  ELSE Newest(c, offset, r)
CacheGet(offset) == cache[Least(Cached(offset))][2]

-----------------------------------------------------------------------------
NoAnswer == [got |-> NoRecord, stored |-> NoRecord]
NoJob == [state |-> Idle, size |-> 0, readOffset |-> 0, completed |-> 0, reads |-> {}]

TableInit ==
  /\ index = NewIndex(MinElements)
  /\ disk = <<>> /\ nextRecord = 0 /\ cache = <<>> /\ posted = {} /\ job = NoJob
  /\ contents = <<>> /\ answered = NoAnswer

Op(kind, offset, record, done) == [kind |-> kind, offset |-> offset, record |-> record, done |-> done]
Post(op) == posted' = posted \cup {op}
(* The user waits for the rebuild, and for what it asked of this record. *)
Ready(offset) == /\ job.state = Idle /\ Cardinality(posted) < MaxPosted
                 /\ Quiet => \A op \in posted : op.offset # offset

(* A record whose key is indexed already is refused. *)
Insert(key) ==
  LET r == [key |-> key, ver |-> 0] IN
  /\ nextRecord < MaxRecords /\ Ready(nextRecord)
  /\ Lookup(index, key) = InvalidOffset
  /\ nextRecord' = nextRecord + 1
  /\ cache' = Newest(cache, nextRecord, r)
  /\ index' = IndexInsert(index, key, nextRecord)
  /\ contents' = Append(contents, r)
  /\ Post(Op("write", nextRecord, r, FALSE))
  /\ answered' = NoAnswer
  /\ UNCHANGED <<disk, job>>

(* The record that lies at an offset: the first one of a sequence is at 0. *)
Stored(offset) == contents[offset + 1]
InUse(offset) == offset < Len(contents) /\ Stored(offset) # NoRecord

Update(offset) ==
  LET r == [Stored(offset) EXCEPT !.ver = 1 - @] IN
  /\ InUse(offset) /\ Ready(offset)
  /\ cache' = CacheSet(cache, offset, r)
  /\ contents' = [contents EXCEPT ![offset + 1] = r]
  /\ Post(Op("write", offset, r, FALSE))
  /\ answered' = NoAnswer
  /\ UNCHANGED <<index, disk, nextRecord, job>>

Query(offset) ==
  /\ InUse(offset) /\ Ready(offset)
  /\ IF Cached(offset) # {}
     THEN /\ answered' = [got |-> CacheGet(offset), stored |-> Stored(offset)]
          /\ UNCHANGED posted
     ELSE Post(Op("query", offset, NoRecord, FALSE)) /\ answered' = NoAnswer
  /\ UNCHANGED <<index, disk, nextRecord, cache, job, contents>>

(* OnRemoveRead: the record leaves the index and is zeroed in the file; it
   stays in the cache. *)
Removes(offset, r, ops) ==
  /\ index' = IndexRemove(index, r.key)
  /\ posted' = ops \cup {Op("write", offset, NoRecord, FALSE)}
  /\ contents' = [contents EXCEPT ![offset + 1] = NoRecord]

RemoveRecord(offset) ==
  /\ InUse(offset) /\ Ready(offset)
  /\ IF Cached(offset) # {} THEN Removes(offset, CacheGet(offset), posted)
     ELSE Post(Op("remove", offset, NoRecord, FALSE)) /\ UNCHANGED <<index, contents>>
  /\ answered' = NoAnswer
  /\ UNCHANGED <<disk, nextRecord, cache, job>>

-----------------------------------------------------------------------------
(* The disk takes the operations in any order; a write past the end makes the
   file longer. *)
OnDisk(offset) == IF offset < Len(disk) THEN disk[offset + 1] ELSE NoRecord
Extended(n) == [i \in 1 .. n |-> OnDisk(i - 1)]
DiskWrites == \E op \in posted :
  /\ op.kind = "write"
  /\ disk' = [Extended(IF Len(disk) > op.offset THEN Len(disk) ELSE op.offset + 1)
                EXCEPT ![op.offset + 1] = op.record]
  /\ posted' = posted \ {op} /\ answered' = NoAnswer
  /\ UNCHANGED <<index, nextRecord, cache, job, contents>>

DiskReads == \E op \in posted :
  /\ op.kind # "write" /\ ~op.done
  /\ posted' = (posted \ {op}) \cup {[op EXCEPT !.done = TRUE, !.record = OnDisk(op.offset)]}
  /\ answered' = NoAnswer
  /\ UNCHANGED <<index, disk, nextRecord, cache, job, contents>>

(* A read past the end of the file fails, and nobody is called. *)
OnQueryRead == \E op \in posted :
  /\ op.kind = "query" /\ op.done /\ op.offset < Len(disk)
  /\ cache' = CacheSet(cache, op.offset, op.record)
  /\ answered' = [got |-> op.record, stored |-> Stored(op.offset)]
  /\ posted' = posted \ {op}
  /\ UNCHANGED <<index, disk, nextRecord, job, contents>>

OnRemoveRead == \E op \in posted :
  /\ op.kind = "remove" /\ op.done /\ op.offset < Len(disk)
  /\ Removes(op.offset, op.record, posted \ {op})
  /\ answered' = NoAnswer
  /\ UNCHANGED <<disk, nextRecord, cache, job>>

-----------------------------------------------------------------------------
(* The rebuild.  The next page is the one after _index_read_offset, which
   StartIndexingRead and OnIndexingRead both have moved on. *)
StartIndexing(size) ==
  IF size = 0 THEN NoJob
  ELSE [state |-> "reading", size |-> size, readOffset |-> IndexReads, completed |-> 0,
        reads |-> 0 .. IndexReads - 1]
NextPage(j) == j.readOffset + 1

(* The end is reached when all is counted.  Mutant: when a page past the end
   would be next. *)
AllReadByOffset(j) == NextPage(j) >= j.size
AllRead(j) == j.completed + 1 >= j.size

OnIndexingRead == \E page \in job.reads :
  LET next == NextPage(job)
      left == job.reads \ {page}
  IN
  /\ job.state = "reading"
  /\ IF page >= Len(disk)
     THEN UNCHANGED index /\ job' = [job EXCEPT !.reads = left]
     ELSE /\ index' = IndexInsert(index, OnDisk(page).key, page)
          /\ job' = IF AllRead(job) THEN NoJob
                    ELSE [job EXCEPT !.completed = @ + 1, !.readOffset = next,
                                     !.reads = IF next >= job.size THEN left ELSE left \cup {next}]
  /\ answered' = NoAnswer
  /\ UNCHANGED <<disk, nextRecord, cache, posted, contents>>

(* ~Table() saves the index with a check hash; then the table is opened again
   and the index is loaded as it was saved. *)
Close == /\ posted = {} /\ job.state = Idle
         /\ nextRecord' = Len(disk) /\ cache' = <<>> /\ answered' = NoAnswer
         /\ UNCHANGED <<disk, posted, contents>>
CloseAndOpen == Close /\ UNCHANGED <<index, job>>
(* The file of the index is missing, truncated or has a wrong check hash. *)
OpenWithoutIndex ==
  /\ Close
  /\ Len(disk) <= IndexReads    \* bound: a longer file is not read to its end
  /\ index' = NewIndex(MinElements)
  /\ job' = StartIndexing(Len(disk))

TableNext ==
  \/ \E key \in Keys : Insert(key)
  \/ \E offset \in Offsets : Update(offset) \/ Query(offset) \/ RemoveRecord(offset)
  \/ DiskWrites \/ DiskReads \/ OnQueryRead \/ OnRemoveRead
  \/ OnIndexingRead \/ CloseAndOpen \/ OpenWithoutIndex
TableSpec == TableInit /\ [][TableNext]_tableVars

-----------------------------------------------------------------------------
(* "Table index must present a complete index of the contents of a Table"
   (BombayTableIndex.hpp): every record is found by its key, and nothing else. *)
PlaceOf(key) == {o \in Offsets : InUse(o) /\ Stored(o).key = key}
IndexComplete ==
  job.state = Idle => \A key \in Keys :
    Lookup(index, key) = IF PlaceOf(key) = {} THEN InvalidOffset ELSE Least(PlaceOf(key))

(* A query is answered with what was stored last, from the cache or from the
   file, through evictions, updates, restarts and reads that come late. *)
QueriesRight == answered.got = answered.stored

(* The rebuild of the index does not stop before it is over. *)
RebuildGoesOn == job.state = Idle \/ job.reads # {}

(* The table, as long as the index has not grown. *)
TableRight == /\ QueriesRight /\ RebuildGoesOn
              /\ index.size = MinElements => IndexComplete
=============================================================================
