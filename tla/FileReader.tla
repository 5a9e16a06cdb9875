----------------------------- MODULE FileReader -----------------------------
(***************************************************************************)
(* PolledFileReader, src/src/io/PolledFileReader.cpp: two buffers, of which *)
(* one is copied from while the disk fills the other.  The completions run  *)
(* on a worker while Read() polls, and they share flags and no lock.        *)
(***************************************************************************)
EXTENDS Integers, Sequences

CONSTANTS HalfSize,       \* _cache_size, in bytes
          FileSizes,      \* sizes of the file
          Requests,       \* bytes asked of Read()
          FrontFlag       \* what _cache_front_done holds when the file is opened

ASSUME FileAssumption == /\ HalfSize \in Nat \ {0} /\ FileSizes \subseteq Nat
                         /\ Requests \subseteq Nat /\ FrontFlag \subseteq BOOLEAN

Junk == 0                 \* a byte the disk is about to write
Halves == {0, 1}
NoDiskRead == [pc |-> "none", from |-> 0, halves |-> {}]

VARIABLES file_size, half,         \* the two buffers: bytes, named by their place in the file
          disk_offset,             \* _offset
          front_index, front_bytes, cache_offset, front_done, back_bytes, back_done,
          disk_read,               \* the read under way, and where its completion is
          copied, eof              \* what Read() copied so far, and whether it said the end
fileVars == <<file_size, half, disk_offset, front_index, front_bytes, cache_offset, front_done,
              back_bytes, back_done, disk_read, copied, eof>>

Junks == [n \in 1 .. HalfSize |-> Junk]

(* Open: one read fills both halves. *)
FileInit ==
  /\ file_size \in FileSizes /\ front_done \in FrontFlag
  /\ half = [h \in Halves |-> Junks]
  /\ disk_offset = 2 * HalfSize /\ front_index = 0 /\ front_bytes = 0 /\ cache_offset = 0
  /\ back_bytes = 0 /\ back_done = FALSE
  /\ disk_read = [pc |-> "first", from |-> 0, halves |-> Halves]
  /\ copied = <<>> /\ eof = FALSE

Smaller(x, y) == IF x < y THEN x ELSE y
(* Bytes of the file from an offset on, at most n. *)
Available(from, n) == IF file_size > from THEN Smaller(file_size - from, n) ELSE 0
(* Both halves, when the first read is done, or the one that was given. *)
Filled(h) == LET from == disk_read.from + (IF disk_read.pc = "first" THEN h * HalfSize ELSE 0)
             IN  [n \in 1 .. HalfSize |-> IF from + n <= file_size THEN from + n ELSE Junk]
DiskDone ==
  /\ disk_read.pc \in {"first", "again"}
  /\ half' = [h \in Halves |-> IF h \in disk_read.halves THEN Filled(h) ELSE half[h]]
  /\ disk_read' = [disk_read EXCEPT !.pc = IF @ = "first" THEN "front" ELSE "bytes"]
  /\ UNCHANGED <<file_size, disk_offset, front_index, front_bytes, cache_offset, front_done,
                 back_bytes, back_done, copied, eof>>

-----------------------------------------------------------------------------
(* OnFirstRead: the bytes of both halves, and the flag of the front one last. *)
OnFirstReadFront ==
  /\ disk_read.pc = "front"
  /\ front_bytes' = Available(0, HalfSize) /\ back_bytes' = Available(0, 2 * HalfSize)
  /\ back_done' = TRUE
  /\ disk_read' = [disk_read EXCEPT !.pc = "back"]
  /\ UNCHANGED <<file_size, half, disk_offset, front_index, cache_offset, front_done, copied, eof>>
OnFirstReadBack ==
  /\ disk_read.pc = "back"
  /\ back_bytes' = Available(HalfSize, HalfSize)
  /\ disk_read' = [disk_read EXCEPT !.pc = "ready"]
  /\ UNCHANGED <<file_size, half, disk_offset, front_index, front_bytes, cache_offset, front_done,
                 back_done, copied, eof>>
OnFirstReadDone ==
  /\ disk_read.pc = "ready"
  /\ front_done' = TRUE /\ disk_read' = NoDiskRead
  /\ UNCHANGED <<file_size, half, disk_offset, front_index, front_bytes, cache_offset, back_bytes,
                 back_done, copied, eof>>

(* OnRead: the bytes, then the flag. *)
OnReadBytes ==
  /\ disk_read.pc = "bytes"
  /\ back_bytes' = Available(disk_read.from, HalfSize)
  /\ disk_read' = [disk_read EXCEPT !.pc = "flag"]
  /\ UNCHANGED <<file_size, half, disk_offset, front_index, front_bytes, cache_offset, front_done,
                 back_done, copied, eof>>
OnReadFlag ==
  /\ disk_read.pc = "flag"
  /\ back_done' = TRUE /\ disk_read' = NoDiskRead
  /\ UNCHANGED <<file_size, half, disk_offset, front_index, front_bytes, cache_offset, front_done,
                 back_bytes, copied, eof>>

-----------------------------------------------------------------------------
(* Read, one turn of its loop at a time: what is left of the request is asked
   for again in the next turn.  The halves change places when the front one is
   used up and the back one is there, and the disk gets the one that was in
   front (bound: it takes the request).  Mutant: it gets the other one. *)
GivenToDiskBack(front) == 1 - front
GivenToDisk(front) == front
(* Mutant: the flag of the back half is not looked at. *)
BackReadyAlways == TRUE
BackReady == back_done
Copy(n) == /\ copied' = copied \o SubSeq(half[front_index], cache_offset + 1, cache_offset + n)
           /\ cache_offset' = cache_offset + n
ReadFront(requested) ==
  LET left == front_bytes - cache_offset IN
  /\ front_done /\ ~eof
  /\ left > requested \/ ~BackReady
  /\ Copy(Smaller(left, requested))
  /\ UNCHANGED <<file_size, half, disk_offset, front_index, front_bytes, front_done, back_bytes,
                 back_done, disk_read, eof>>
ReadEnd(requested) ==
  LET left == front_bytes - cache_offset IN
  /\ front_done /\ ~eof /\ left <= requested /\ BackReady /\ back_bytes = 0
  /\ Copy(left) /\ eof' = TRUE
  /\ UNCHANGED <<file_size, half, disk_offset, front_index, front_bytes, front_done, back_bytes,
                 back_done, disk_read>>
ReadSwap(requested) ==
  LET left == front_bytes - cache_offset IN
  /\ front_done /\ ~eof /\ left <= requested /\ BackReady /\ back_bytes # 0
  /\ copied' = copied \o SubSeq(half[front_index], cache_offset + 1, front_bytes)
  /\ cache_offset' = 0 /\ front_bytes' = back_bytes /\ back_bytes' = 0 /\ back_done' = FALSE
  /\ disk_read' = [pc |-> "again", from |-> disk_offset, halves |-> {GivenToDisk(front_index)}]
  /\ half' = [half EXCEPT ![GivenToDisk(front_index)] = Junks]
  /\ front_index' = 1 - front_index
  /\ disk_offset' = disk_offset + HalfSize
  /\ UNCHANGED <<file_size, front_done, eof>>

FileNext == \/ DiskDone \/ OnFirstReadFront \/ OnFirstReadBack \/ OnFirstReadDone
            \/ OnReadBytes \/ OnReadFlag
            \/ \E n \in Requests : ReadFront(n) \/ ReadEnd(n) \/ ReadSwap(n)
FileSpec == FileInit /\ [][FileNext]_fileVars

-----------------------------------------------------------------------------
(* Read() copies the bytes of the file in their order, none twice, none skipped
   and none that the disk has still to write, however the completions fall
   between its turns; when it says that the end was found, all was copied. *)
ReadInOrder == /\ copied = [n \in 1 .. Len(copied) |-> n] /\ Len(copied) <= file_size
               /\ eof => Len(copied) = file_size
=============================================================================
