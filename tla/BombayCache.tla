---------------------------- MODULE BombayCache ----------------------------
(***************************************************************************)
(* The record cache of a Bombay table, src/src/db/BombayTable.cpp: slots of *)
(* one memory block are used in turn, the oldest is used again when all     *)
(* are taken, and a hash table of binary trees finds the slot of an offset. *)
(* Every operation runs under the lock of the table.                        *)
(***************************************************************************)
EXTENDS Integers, FiniteSets

CONSTANTS CacheSlots,     \* slots of the cache
          Buckets,        \* _hash_table_size
          CacheOffsets    \* offsets of records in the file

NoNode == 0
NoOffset == -1            \* INVALID_RECORD_OFFSET
Slots == 1 .. CacheSlots

VARIABLES root,           \* _cache_hash_table
          node,           \* the nodes in the slots
          nextSlot, cacheFull
cacheVars == <<root, node, nextSlot, cacheFull>>

(* Any function will do. *)
GetHash64(offset) == offset % Buckets

NewNode(offset) == [parent |-> NoNode, lower |-> NoNode, higher |-> NoNode, offset |-> offset]

CacheInit ==
  /\ root = [k \in 0 .. Buckets - 1 |-> NoNode]
  /\ node = [s \in Slots |-> NewNode(NoOffset)]
  /\ nextSlot = 1 /\ cacheFull = FALSE

(* A state of the trees, as one value. *)
Trees == [root |-> root, node |-> node]

(* The nodes met on the way to an offset, the last one first to stop. *)
Branch(t, s, offset) == IF offset > t.node[s].offset THEN t.node[s].higher ELSE t.node[s].lower
Descent(t, from, offset) ==
  LET at[n \in 0 .. CacheSlots] ==
        IF n = 0 THEN from
        ELSE IF at[n - 1] = NoNode THEN NoNode
        ELSE IF t.node[at[n - 1]].offset = offset THEN at[n - 1]
        ELSE Branch(t, at[n - 1], offset)
  IN  at
FindNode(t, offset) == Descent(t, t.root[GetHash64(offset)], offset)[CacheSlots]

(* The last node before the descent falls off the tree. *)
Leaf(t, from, offset) ==
  LET at == Descent(t, from, offset)
      n == CHOOSE n \in 0 .. CacheSlots : at[n] # NoNode /\ (n = CacheSlots \/ at[n + 1] = NoNode)
  IN  at[n]

(* The leftmost or rightmost node of a tree. *)
Outermost(t, from, side) ==
  LET at[n \in 0 .. CacheSlots] ==
        IF n = 0 THEN from
        ELSE IF t.node[at[n - 1]][side] = NoNode THEN at[n - 1] ELSE t.node[at[n - 1]][side]
  IN  at[CacheSlots]

SetParent(t, s, parent) == IF s = NoNode THEN t ELSE [t EXCEPT !.node[s].parent = parent]

(* The tree that takes a node's place: the child on the far side of the       *)
(* parent, with the other hung at its near end.  Mutant: hung at its top.     *)
Replacement(t, s, side) ==
  LET other == IF side = "lower" THEN "higher" ELSE "lower"
      near == t.node[s][side]
      far == t.node[s][other]
  IN  IF near = NoNode THEN far ELSE IF far = NoNode THEN near ELSE far
HungAtTop(t, s, side) ==
  LET top == Replacement(t, s, side)
      kept == t.node[s][side]
  IN  IF kept \in {NoNode, top} THEN t
      ELSE [t EXCEPT !.node[top][side] = kept, !.node[kept].parent = top]
Hung(t, s, side) ==
  LET top == Replacement(t, s, side)
      end == Outermost(t, top, side)
      kept == t.node[s][side]
  IN  IF kept \in {NoNode, top} THEN t
      ELSE [t EXCEPT !.node[end][side] = kept, !.node[kept].parent = end]

UnlinkNode(t, s) ==
  LET parent == t.node[s].parent
      side == IF parent # NoNode /\ t.node[parent].lower # s THEN "higher" ELSE "lower"
      top == Replacement(t, s, side)
      u == SetParent(Hung(t, s, side), top, parent)
  IN  IF parent = NoNode THEN [u EXCEPT !.root[GetHash64(t.node[s].offset)] = top]
      ELSE [u EXCEPT !.node[parent][side] = top]

(* The new node goes under the leaf below the hint, or below the root. *)
InsertNode(t, offset, hint, s) ==
  LET from == IF hint = NoNode THEN t.root[GetHash64(offset)] ELSE hint
      u == [t EXCEPT !.node[s] = NewNode(offset)]
      leaf == Leaf(t, from, offset)
  IN  IF from = NoNode THEN [u EXCEPT !.root[GetHash64(offset)] = s]
      ELSE IF offset > t.node[leaf].offset
      THEN [u EXCEPT !.node[leaf].higher = s, !.node[s].parent = leaf]
      ELSE [u EXCEPT !.node[leaf].lower = s, !.node[s].parent = leaf]

(* The next slot is freed of the record it held. *)
Freed(t, s) == IF t.node[s].offset # NoOffset /\ cacheFull THEN UnlinkNode(t, s) ELSE t

TakeSlot == /\ nextSlot' = IF nextSlot = CacheSlots THEN 1 ELSE nextSlot + 1
            /\ cacheFull' = (cacheFull \/ nextSlot = CacheSlots)
Become(t) == root' = t.root /\ node' = t.node

(* The leaf that was found may be the node whose slot is used again.  Mutant: *)
(* it is used all the same. *)
HintAnyway(t, leaf) == leaf
Hint(t, leaf) == IF leaf = nextSlot /\ cacheFull THEN t.node[leaf].parent ELSE leaf

SetOffset(offset) ==
  LET t == Trees
      top == t.root[GetHash64(offset)]
      hint == IF top = NoNode THEN NoNode ELSE Hint(t, Leaf(t, top, offset))
  IN  IF FindNode(t, offset) # NoNode THEN UNCHANGED cacheVars
      ELSE TakeSlot /\ Become(InsertNode(Freed(t, nextSlot), offset, hint, nextSlot))

(* InsertOffset: a new record, which is not in the cache. *)
InsertOffset(offset) ==
  /\ FindNode(Trees, offset) = NoNode
  /\ TakeSlot
  /\ Become(InsertNode(Freed(Trees, nextSlot), offset, NoNode, nextSlot))

RemoveOffset(offset) ==
  LET s == FindNode(Trees, offset)
      t == UnlinkNode(Trees, s)
  IN  /\ s # NoNode
      /\ Become([t EXCEPT !.node[s] = NewNode(NoOffset)])
      /\ UNCHANGED <<nextSlot, cacheFull>>

CacheNext == \E offset \in CacheOffsets :
               SetOffset(offset) \/ InsertOffset(offset) \/ RemoveOffset(offset)
CacheSpec == CacheInit /\ [][CacheNext]_cacheVars

-----------------------------------------------------------------------------
(* Slots that hold a record. *)
Holding == {s \in Slots : node[s].offset # NoOffset}

(* The trees find exactly the records that lie in the slots, whichever slot is
   used again and whatever hangs below it: no record is in two slots, each is
   found from the root of its bucket, and the way back up, which the next
   removal takes, is the way down. *)
CacheExact ==
  /\ \A s \in Holding : FindNode(Trees, node[s].offset) = s
  /\ \A offset \in CacheOffsets :
       FindNode(Trees, offset) # NoNode => node[FindNode(Trees, offset)].offset = offset
  /\ \A s \in Holding : LET p == node[s].parent IN
       IF p = NoNode THEN root[GetHash64(node[s].offset)] = s
       ELSE p \in Holding /\ s = Branch(Trees, p, node[s].offset)
=============================================================================
