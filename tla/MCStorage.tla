----------------------------- MODULE MCStorage -----------------------------
(***************************************************************************)
(* Memory, files, settings, the database, the singletons; codecs, numbers,   *)
(* handshakes, lists and the estimates of the transport, each by itself: a   *)
(* behaviour is one of the subject chosen in the initial state, and the      *)
(* others rest.                                                             *)
(***************************************************************************)
EXTENDS BombayCache, BombayTable, BufferPool, FileReader, MergeSort, Singletons,
        SettingsTable, RagdollFile, RangeCoder, Huffman, BigInt, OldHandshakes,
        FlowControl, ClockSync, PathMTU, LinkedLists

CONSTANT Subjects
VARIABLE subject
algorithmVars == <<rangeVars, huffVars, bigop, shakeVars, flowVars, syncVars,
                   pathVars, listVars>>

(* Counts of a text: by the character before, of '\0' and of the letters. *)
Counts(after0, after1, after2, after3) ==
  LET row(s) == [c \in 0 .. 3 |-> s[c + 1]]
  IN  [c \in 0 .. 3 |-> row(<<after0, after1, after2, after3>>[c + 1])]
MCTallied == {Counts(<<1, 0, 0, 0>>, <<0, 0, 0, 0>>, <<0, 0, 0, 0>>, <<0, 0, 0, 0>>),
              Counts(<<1, 2, 1, 3>>, <<2, 5, 0, 0>>, <<0, 3, 0, 3>>, <<7, 0, 0, 0>>),
              Counts(<<70, 1, 0, 0>>, <<0, 0, 0, 0>>, <<8, 2, 60, 1>>, <<1, 1, 1, 1>>)}
MCLogTotal == <<0, 1000, 1585, 2000>>

(* What another subject does not look at has one value. *)
Only(s, fixed) == subject = s \/ fixed
AlgorithmInit ==
  /\ subject \in Subjects
  /\ HuffInit /\ BigInit /\ FlowInit
  /\ RangeInit /\ Only("range", stats.seen = {0})
  /\ ShakeInit /\ Only("shake", shake = "ecc")
  /\ SyncInit /\ Only("sync", offset = Min(ClockOffsets))
  /\ PathInit /\ Only("path", path = MINIMUM_MTU)
  /\ ListInit /\ Only("lists", kind = "single")

Rests(s, part, v) == s # part => UNCHANGED v
AlgorithmsRest(s) ==
  /\ Rests(s, "range", rangeVars)  /\ Rests(s, "huffman", huffVars)
  /\ Rests(s, "numbers", bigop)    /\ Rests(s, "shake", shakeVars)
  /\ Rests(s, "flow", flowVars)    /\ Rests(s, "sync", syncVars)
  /\ Rests(s, "path", pathVars)    /\ Rests(s, "lists", listVars)

(* A subject that rests is in one of its initial states, which is also the first
   state of a behaviour about it: P is looked at there. *)
About(s, P) == subject = s => P
(* The algorithms that compute a result from their input: the range coder and the
   Huffman codes, numbers of any length, the older handshakes made of them, and
   the estimate of the server's clock. *)
AlgorithmsRight == /\ About("range", RangeCoderRight) /\ About("huffman", HuffmanRight)
                   /\ About("numbers", NumbersRight) /\ About("shake", HandshakesRight)
                   /\ About("sync", SyncRight)

storageVars == <<subject, cacheVars, tableVars, poolVars, fileVars, sortVars,
                 singletonVars, settingsVars, ragdollVars, algorithmVars>>

(* Lines of settings files: depth, name and value. *)
Line(d, n, v) == <<[depth |-> d, name |-> n], v>>
MCFiles == {<<>>} \cup {Line(0, a, 1) : a \in 1 .. 2}
             \cup {Line(0, a, 1) \o Line(d, 2, 1) : a \in 1 .. 2, d \in 0 .. 1}
             \cup {Line(0, 1, 1) \o Line(d, b, 1) \o Line(1, c, 1) :
                     b \in 1 .. 2, c \in 1 .. 2, d \in 0 .. 1}
MCOverrides == {Line(0, 1, 2) \o Line(1, 2, 2)}
MCSettingKeys == {<<1>>, <<1, 1>>, <<1, 2>>, <<1, 2, 1>>, <<2>>}

StorageInit ==
  /\ AlgorithmInit
  /\ CacheInit /\ TableInit /\ SettingsInit
  /\ PoolInit /\ Only("pool", pool = "fixed")
  /\ FileInit /\ Only("reader", file_size = 0)
  /\ SortInit /\ Only("sort", sort_value = <<1>>)
  /\ SingletonInit /\ Only("singletons", \A s \in Singles : uses[s] = {} /\ wish[s] = "none")
  /\ RagdollInit /\ Only("ragdoll", text = <<>>)

Others(s) == /\ AlgorithmsRest(s) /\ Rests(s, "cache", cacheVars)
             /\ Rests(s, "table", tableVars) /\ Rests(s, "pool", poolVars)
             /\ Rests(s, "reader", fileVars) /\ Rests(s, "sort", sortVars)
             /\ Rests(s, "singletons", singletonVars)
             /\ Rests(s, "settings", settingsVars) /\ Rests(s, "ragdoll", ragdollVars)
Step(s, A) == subject = s /\ A /\ UNCHANGED subject /\ Others(s)

StorageNext == \/ Step("cache", CacheNext)
               \/ Step("table", TableNext)        \/ Step("pool", PoolNext)
               \/ Step("reader", FileNext)        \/ Step("sort", SortNext)
               \/ Step("singletons", SingletonNext)
               \/ Step("settings", SettingsNext)  \/ Step("ragdoll", RagdollNext)
               \/ Step("range", RangeNext)        \/ Step("huffman", HuffNext)
               \/ Step("numbers", BigNext)        \/ Step("shake", ShakeNext)
               \/ Step("flow", FlowNext)          \/ Step("sync", SyncNext)
               \/ Step("path", PathNext)          \/ Step("lists", ListNext)
StorageSpec == StorageInit /\ [][StorageNext]_storageVars

(* What is kept: the cache of the database's records, its table with the index,
   the shared table of settings, and the file they are read from and written to. *)
StoredRight == /\ About("cache", CacheExact) /\ About("table", TableRight)
               /\ About("settings", SettingsRight) /\ About("ragdoll", SettingsKept)
(* Structures linked by pointers: the lists with their iterators, the merge sort
   over them, the free lists of the buffer allocators, and the singletons, which
   come up in the order of their uses and are sorted by priority at exit. *)
StructuresRight == /\ About("lists", ListsRight) /\ About("sort", SortRight)
                   /\ About("pool", PoolExact /\ SendsExact)
                   /\ About("singletons", SingletonsRight)
=============================================================================
