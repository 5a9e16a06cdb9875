------------------------------ MODULE RecvQueue ------------------------------
(***************************************************************************)
(* The wait queue of a reliable stream as the code keeps it                 *)
(* (StoreReliableOutOfOrder and RunReliableReceiveQueue, src/src/sphynx/-   *)
(* Transport.cpp): a linked list in the order of the ids, in which the      *)
(* first node of every unbroken sequence points to the last one, so that a  *)
(* search skips from sequence to sequence.  ReliableStream keeps a set of   *)
(* ids in its place; the ghost rqStored is that set.                        *)
(*                                                                         *)
(* Ids are words that wrap.  A node is known by its id, its fields are      *)
(* [next, eos]; an id may arrive in any order and more than once.  One       *)
(* datagram is handled at a time, turn by turn of the loops.                *)
(***************************************************************************)
EXTENDS Integers, FiniteSets

CONSTANTS RqWord,       \* 2^32
          RqFirst,      \* the first id, which the code draws at random
          RqLast,       \* bound on the ids that arrive when they are expected
          RqReach,      \* how far ahead of the expected one an id may be
          OutOfOrderLimit, OutOfOrderLoops,
          RqNull, RqGarbage,
          AcrossWrap    \* may an id wait on the far side of the wrap?

ASSUME RecvQueueAssumption ==
  /\ RqWord \in Nat \ {0} /\ RqFirst \in 0 .. RqWord - 1 /\ RqLast \in Nat
  /\ RqReach \in 1 .. RqWord - 1 /\ AcrossWrap \in BOOLEAN
  /\ OutOfOrderLimit \in Nat /\ OutOfOrderLoops \in Nat
  /\ {RqNull, RqGarbage} \cap (0 .. RqWord - 1) = {}

VARIABLES rqNodes,     \* the nodes, by id
          rqHead, rqSize,
          rqExpected,  \* _next_recv_expected_id
          rqAt,        \* the handler: what it is at, and its local variables
          rqHanded,    \* messages that arrived when they were expected
          rqStored     \* ids that arrived early and were not handed over yet
recvQueueVars == <<rqNodes, rqHead, rqSize, rqExpected, rqAt, rqHanded, rqStored>>

RqAt(pc, id, next, prev, seq, loops) ==
  [pc |-> pc, id |-> id, next |-> next, prev |-> prev, seq |-> seq, loops |-> loops]
RqRest == RqAt("rest", RqNull, RqNull, RqNull, RqNull, 0)

RecvQueueInit ==
  /\ rqNodes = [i \in {} |-> 0] /\ rqHead = RqNull /\ rqSize = 0
  /\ rqExpected = RqFirst /\ rqAt = RqRest /\ rqHanded = 0 /\ rqStored = {}

Succ(id) == (id + 1) % RqWord
Early(id) == LET d == (id - rqExpected) % RqWord IN d >= 1 /\ d <= RqReach

-----------------------------------------------------------------------------
(* StoreReliableOutOfOrder() *)

StoreOutOfOrder(id) ==
  /\ rqAt.pc = "rest" /\ Early(id) /\ (AcrossWrap \/ id > rqExpected)
  /\ rqSize < OutOfOrderLimit
  /\ rqAt' = RqAt("search", id, rqHead, RqNull, RqNull, 0)
  /\ UNCHANGED <<rqNodes, rqHead, rqSize, rqExpected, rqHanded, rqStored>>

\* Mutant: the last id of a sequence is taken to lie behind it.
WithinShort(id, eos) == id < eos
Within(id, eos) == id <= eos

(* A turn of the search, from a sequence to the next: the id is in this one, or
   the loop goes on behind it, unless it took too many turns. *)
PlaceFound == IF rqAt.next = RqNull THEN TRUE ELSE rqAt.id < rqAt.next
SearchOn ==
  /\ rqAt.pc = "search" /\ ~PlaceFound
  /\ LET eos == rqNodes[rqAt.next].eos IN
     rqAt' = IF Within(rqAt.id, eos) \/ rqAt.loops + 1 >= OutOfOrderLoops THEN RqRest
             ELSE RqAt("search", rqAt.id, rqNodes[eos].next, eos, rqAt.next, rqAt.loops + 1)
  /\ UNCHANGED <<rqNodes, rqHead, rqSize, rqExpected, rqHanded, rqStored>>

Behind(id, prev) == prev # RqNull /\ Succ(prev) = id
Joins(id, next) == next # RqNull /\ Succ(id) = next

\* Mutant: a node that joins two sequences ends the first one.
EndWithShort(id, next) == id
EndWith(id, next) == IF Joins(id, next) THEN rqNodes[next].eos ELSE id

(* The list with a node for id put in: it continues the sequence before it,
   perhaps up to the one after it, or begins the one after it, or is alone.
   The eos of a node that continues a sequence is not written. *)
LinkedIn(id, next, prev, seq) ==
  [i \in DOMAIN rqNodes \cup {id} |->
     IF i = id THEN [next |-> next,
                     eos |-> IF Behind(id, prev) THEN RqGarbage ELSE EndWith(id, next)]
     ELSE [next |-> IF i = prev THEN id ELSE rqNodes[i].next,
           eos  |-> IF Behind(id, prev) /\ i = seq THEN EndWith(id, next) ELSE rqNodes[i].eos]]

LinkIn ==
  /\ rqAt.pc = "search" /\ PlaceFound
  /\ rqNodes' = LinkedIn(rqAt.id, rqAt.next, rqAt.prev, rqAt.seq)
  /\ rqHead' = IF rqAt.prev = RqNull THEN rqAt.id ELSE rqHead
  /\ rqSize' = rqSize + 1
  /\ rqStored' = rqStored \cup {rqAt.id}
  /\ rqAt' = RqRest
  /\ UNCHANGED <<rqExpected, rqHanded>>

-----------------------------------------------------------------------------
(* RunReliableReceiveQueue() *)

\* Mutant: the queue waits for the next datagram.
IsReadyNever(node, id) == FALSE
IsReady(node, id) == node # RqNull /\ node = id

(* The expected message arrives, *)
RunReceiveQueue ==
  /\ rqAt.pc = "rest" /\ rqHanded < RqLast
  /\ rqHanded' = rqHanded + 1
  /\ rqStored' = rqStored \ {rqExpected}
  /\ LET ack_id == Succ(rqExpected) IN
     IF IsReady(rqHead, ack_id)
       THEN rqAt' = RqAt("run", RqNull, rqHead, RqNull, RqNull, 0) /\ UNCHANGED rqExpected
       ELSE rqExpected' = ack_id /\ UNCHANGED rqAt
  /\ UNCHANGED <<rqNodes, rqHead, rqSize>>

(* and takes along those that waited for it, one after the other; then the size,
   the head and the expected id are written. *)
RunTurn ==
  /\ rqAt.pc = "run"
  /\ rqNodes' = [i \in DOMAIN rqNodes \ {rqAt.next} |-> rqNodes[i]]
  /\ rqStored' = rqStored \ {rqAt.next}
  /\ LET next == rqNodes[rqAt.next].next
         next_ack_id == Succ(rqAt.next)
     IN IF IsReady(next, next_ack_id)
          THEN /\ rqAt' = RqAt("run", RqNull, next, RqNull, RqNull, 0)
               /\ UNCHANGED <<rqSize, rqHead, rqExpected>>
          ELSE /\ rqSize' = rqSize - ((next_ack_id - Succ(rqExpected)) % RqWord)
               /\ rqHead' = next /\ rqExpected' = next_ack_id /\ rqAt' = RqRest
  /\ UNCHANGED rqHanded

RecvQueueNext == \/ RunReceiveQueue \/ RunTurn \/ SearchOn \/ LinkIn
                 \/ \E id \in 0 .. RqWord - 1 : StoreOutOfOrder(id)
RecvQueueSpec == RecvQueueInit /\ [][RecvQueueNext]_recvQueueVars

-----------------------------------------------------------------------------
(* node is the first one of the ids S, in their order. *)
LeadsTo(node, S) == IF S = {} THEN node = RqNull
                    ELSE node \in S /\ \A j \in S : node <= j

(* The list is the set ReliableStream keeps, each id once and in order, so
   that a duplicate is found wherever it belongs: from the head, and from node
   to node, it leads to the next id that waits. *)
QueueIsSet ==
  /\ DOMAIN rqNodes = rqStored /\ rqSize = Cardinality(rqStored)
  /\ LeadsTo(rqHead, rqStored)
  /\ \A i \in rqStored : LeadsTo(rqNodes[i].next, {j \in rqStored : j > i})

(* The skip pointers lead from the first id of each unbroken sequence to its
   last one: a pointer that falls short stores a duplicate, one that goes too
   far loses what lies between. *)
SkipsExact ==
  \A id \in rqStored : (id - 1) % RqWord \notin rqStored =>
    LET e == rqNodes[id].eos IN
    /\ e \in rqStored /\ id <= e /\ Succ(e) \notin rqStored
    /\ id .. e \subseteq rqStored

(* Nothing waits that could be handed over. *)
NothingReadyWaits == rqExpected \notin rqStored

(* The skip list stands for the set of ids that wait, whenever the queue was
   run to its end. *)
WaitQueueExact == rqAt.pc # "run" => QueueIsSet /\ SkipsExact /\ NothingReadyWaits
==============================================================================
