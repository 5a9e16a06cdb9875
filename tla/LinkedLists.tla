---------------------------- MODULE LinkedLists ----------------------------
(***************************************************************************)
(* The linked lists, as memory with pointers: DListForward, DList,           *)
(* SListForward and their iterators (LinkedLists.hpp, LinkedLists.cpp), the   *)
(* send queue and the sent list of the transport (Transport.cpp) and the     *)
(* batches of buffers (IAllocator.hpp).  A behaviour is about lists of one   *)
(* kind: "forward", "double", "single", "queue", "sent" or "batch".  InsertBefore()  *)
(* and InsertAfter(), which no caller uses, are left out.                   *)
(***************************************************************************)
EXTENDS Integers, SequencesExt

CONSTANTS Nodes, ListKinds
Nil == 0
ASSUME ListAssumption ==
  /\ Nodes \subseteq Nat \ {Nil}
  /\ ListKinds \subseteq {"forward", "double", "single", "queue", "sent", "batch"}

VARIABLES kind,
          mem,        \* the pointers next and prev of every node
          first,      \* a list: its head and its tail
          second,     \* another one, to steal from or to chop into
          iter,       \* an iterator over the first list
          should,     \* what the two lists should hold, and
          todo        \* what the iterator has still to visit, its own item first
listVars == <<kind, mem, first, second, iter, should, todo>>

EmptyList == [head |-> Nil, tail |-> Nil]
NoIter == [on |-> "no", prev |-> Nil, item |-> Nil, next |-> Nil]

(* A freed node may hold anything; it holds what it held. *)
ListInit ==
  /\ kind \in ListKinds
  /\ mem = [next |-> [n \in Nodes |-> Nil], prev |-> [n \in Nodes |-> Nil]]
  /\ first = EmptyList /\ second = EmptyList /\ iter = NoIter
  /\ should = [first |-> <<>>, second |-> <<>>] /\ todo = <<>>

FreeNode(n) == n \notin ToSet(should.first) \cup ToSet(should.second) \cup ToSet(todo)
Doubly == kind \in {"forward", "double", "sent"}
HasTail == kind \in {"double", "queue", "sent", "batch"}
Idle0 == iter = NoIter

(* Where n is in s (Nil: after its end), and s without the items from i to
   before j. *)
Place(s, n) == IF n = Nil THEN Len(s) + 1 ELSE CHOOSE i \in 1 .. Len(s) : s[i] = n
Without(s, i, j) == SubSeq(s, 1, i - 1) \o SubSeq(s, j, Len(s))

(* p->next = q and p->prev = q, where p is not null *)
Next1(m, p, q) == IF p = Nil THEN m ELSE [m EXCEPT !.next[p] = q]
Prev1(m, p, q) == IF p = Nil THEN m ELSE [m EXCEPT !.prev[p] = q]

-----------------------------------------------------------------------------
(* Items in and out *)

\* Mutant: the old head does not learn of the new one.
FrontLinkedOnce(m, l, n) == Next1(Prev1(m, n, Nil), n, l.head)
(* CAT_FDLL_PUSH_FRONT, CAT_BDLL_PUSH_FRONT *)
FrontLinked(m, l, n) == Prev1(Next1(Prev1(m, n, Nil), n, l.head), l.head, n)

(* PushFront(), and DList::PushBack(), which does the same. *)
PushFront(n) ==
  /\ kind \in {"forward", "double", "single"} /\ FreeNode(n)
  /\ (kind = "single" => Idle0) /\ iter.on # "back"
  /\ mem' = IF Doubly THEN FrontLinked(mem, first, n) ELSE Next1(mem, n, first.head)
  /\ first' = [head |-> n, tail |-> IF HasTail /\ first.head = Nil THEN n ELSE first.tail]
  /\ should' = [should EXCEPT !.first = <<n>> \o @]
  /\ UNCHANGED <<kind, second, iter, todo>>

\* Mutant: a tail from before the list became empty is believed.
AppendedTo(m, l, n) == IF l.head = Nil THEN [head |-> n, tail |-> n]
                       ELSE [head |-> l.head, tail |-> l.tail]
(* SendQueue::Append(), BatchSet::PushBack(); SentList::Append() with prev *)
Appended(m, l, n) == [head |-> IF l.tail # Nil THEN l.head ELSE n, tail |-> n]
ListAppend(n) ==
  /\ kind \in {"queue", "sent", "batch"} /\ FreeNode(n)
  /\ LET linked == Next1(Next1(mem, first.tail, n), n, Nil)
     IN  mem' = IF Doubly THEN Prev1(linked, n, first.tail) ELSE linked
  /\ first' = Appended(mem, first, n)
  /\ should' = [should EXCEPT !.first = Append(@, n)]
  /\ UNCHANGED <<kind, second, iter, todo>>

\* Mutant: the head stays.
ErasedInside(m, l, n) ==
  [mem |-> Prev1(Next1(m, m.prev[n], m.next[n]), m.next[n], m.prev[n]),
   head |-> l.head,
   tail |-> IF m.next[n] # Nil THEN l.tail ELSE m.prev[n]]
(* CAT_FDLL_ERASE, CAT_BDLL_ERASE *)
Erased(m, l, n) ==
  [mem |-> Prev1(Next1(m, m.prev[n], m.next[n]), m.next[n], m.prev[n]),
   head |-> IF m.prev[n] # Nil THEN l.head ELSE m.next[n],
   tail |-> IF m.next[n] # Nil THEN l.tail ELSE m.prev[n]]

(* Erase() of a doubly linked list: of any item, or of the iterator's. *)
Erase(n) ==
  /\ kind \in {"forward", "double"} /\ n \in ToSet(should.first)
  /\ Idle0 \/ n = iter.item
  /\ LET e == Erased(mem, first, n)
     IN  /\ mem' = e.mem
         /\ first' = [head |-> e.head, tail |-> IF HasTail THEN e.tail ELSE first.tail]
  /\ should' = [should EXCEPT !.first = Without(@, Place(@, n), Place(@, n) + 1)]
  /\ UNCHANGED <<kind, second, iter, todo>>

\* Mutant: the iterator stays on what was erased.
AfterErased(it) == it
(* SListForward::Erase(): the iterator goes back. *)
SteppedBack(it) == [it EXCEPT !.item = it.prev]
EraseAfter ==
  /\ kind = "single" /\ iter.on = "forward" /\ iter.item # Nil
  /\ iter.item = Head(todo)
  /\ mem' = Next1(mem, iter.prev, mem.next[iter.item])
  /\ first' = [first EXCEPT !.head = IF iter.prev # Nil THEN @ ELSE mem.next[iter.item]]
  /\ iter' = [SteppedBack(iter) EXCEPT !.on = "erased"]
  /\ should' = [should EXCEPT !.first = Without(@, Place(@, iter.item), Place(@, iter.item) + 1)]
  /\ UNCHANGED <<kind, second, todo>>

-----------------------------------------------------------------------------
(* Whole lists *)

(* Steal() of the list classes: into an empty list.  SendQueue::Steal() and
   BatchSet::PushBack() of a set append. *)
Steal ==
  /\ Idle0 /\ (kind \in {"forward", "double", "single"} => first.head = Nil)
  /\ kind # "sent"
  /\ IF kind \in {"queue", "batch"}
       THEN IF second.head = Nil THEN UNCHANGED <<mem, first>>
            ELSE /\ mem' = Next1(mem, first.tail, second.head)
                 /\ first' = [head |-> IF first.tail # Nil THEN first.head ELSE second.head,
                              tail |-> second.tail]
       ELSE first' = second /\ UNCHANGED mem
  /\ second' = EmptyList
  /\ should' = [first |-> should.first \o should.second, second |-> <<>>]
  /\ UNCHANGED <<kind, iter, todo>>
(* operator= and Clear() *)
Exchange ==
  /\ Idle0 /\ first' = second /\ second' = first
  /\ should' = [first |-> should.second, second |-> should.first]
  /\ UNCHANGED <<kind, mem, iter, todo>>

\* Mutant: the item before the cut keeps its successor.
ChoppedOff(m, n) == Prev1(m, n, Nil)
(* Chop() *)
Chopped(m, n) == Next1(Prev1(m, n, Nil), m.prev[n], Nil)
Chop(n) ==
  /\ kind = "double" /\ Idle0 /\ n \in ToSet(should.first) /\ second.head = Nil
  /\ mem' = Chopped(mem, n)
  /\ second' = [head |-> n, tail |-> first.tail]
  /\ first' = [head |-> IF mem.prev[n] # Nil THEN first.head ELSE Nil, tail |-> mem.prev[n]]
  /\ LET s == should.first
         at == Place(s, n)
     IN  should' = [first |-> SubSeq(s, 1, at - 1), second |-> SubSeq(s, at, Len(s))]
  /\ UNCHANGED <<kind, iter, todo>>

(* SentList::RemoveBefore(): a cumulative acknowledgement.  Nil empties it. *)
RemoveBefore(n) ==
  /\ kind = "sent" /\ n \in ToSet(should.first) \cup {Nil}
  /\ mem' = Prev1(mem, n, Nil)
  /\ first' = [head |-> n, tail |-> IF n = Nil THEN Nil ELSE first.tail]
  /\ should' = [should EXCEPT !.first = Without(@, 1, Place(@, n))]
  /\ UNCHANGED <<kind, second, iter, todo>>

\* Mutant: the tail stays.
BetweenJoined(m, l, p, q) ==
  [mem |-> Prev1(Next1(m, p, q), q, p), head |-> IF p # Nil THEN l.head ELSE q, tail |-> l.tail]
(* SentList::RemoveBetween(): a range from a was acknowledged, up to before q. *)
Joined(m, l, p, q) ==
  [mem |-> Prev1(Next1(m, p, q), q, p), head |-> IF p # Nil THEN l.head ELSE q,
   tail |-> IF q # Nil THEN l.tail ELSE p]
RemoveBetween(a, q) ==
  /\ kind = "sent" /\ a \in ToSet(should.first) /\ q \in ToSet(should.first) \cup {Nil}
  /\ Place(should.first, a) < Place(should.first, q)
  /\ LET j == Joined(mem, first, mem.prev[a], q)
     IN  mem' = j.mem /\ first' = [head |-> j.head, tail |-> j.tail]
  /\ should' = [should EXCEPT !.first = Without(@, Place(@, a), Place(@, q))]
  /\ UNCHANGED <<kind, second, iter, todo>>

-----------------------------------------------------------------------------
(* Iterators *)

Neighbour(m, way, p) == IF p = Nil THEN Nil ELSE IF way = "back" THEN m.prev[p] ELSE m.next[p]

(* Iterator(list), ForwardIterator(list), BackIterator(list) *)
IterBegin(way) ==
  /\ Idle0 /\ kind \in {"forward", "double", "single"}
  /\ (way = "back" => kind = "double")
  /\ LET item == IF way = "back" THEN first.tail ELSE first.head
     IN  iter' = [on |-> way, prev |-> Nil, item |-> item, next |-> Neighbour(mem, way, item)]
  /\ todo' = IF way = "back" THEN Reverse(should.first) ELSE should.first
  /\ UNCHANGED <<kind, mem, first, second, should>>

\* Mutant: the item after the next one is looked up when it is needed.
StepNow(m, it, way) == [on |-> way, prev |-> it.item, item |-> Neighbour(m, way, it.item),
                        next |-> Nil]
(* operator++, operator--: to the item that was looked up before. *)
Stepped(m, it, way) == [on |-> way, prev |-> it.item, item |-> it.next,
                        next |-> Neighbour(m, way, it.next)]
Advance ==
  /\ ~Idle0
  /\ IF iter.item = Nil /\ iter.on # "erased"
       THEN iter' = NoIter /\ UNCHANGED todo
       ELSE /\ iter' = Stepped(mem, iter, IF iter.on = "erased" THEN "forward" ELSE iter.on)
            /\ todo' = IF todo = <<>> THEN todo ELSE Tail(todo)
  /\ UNCHANGED <<kind, mem, first, second, should>>

ListNext ==
  \/ Steal \/ Exchange \/ EraseAfter \/ Advance
  \/ \E way \in {"forward", "back"} : IterBegin(way)
  \/ \E n \in Nodes : PushFront(n) \/ ListAppend(n) \/ Erase(n) \/ Chop(n)
  \/ \E n \in Nodes \cup {Nil} : RemoveBefore(n)
  \/ \E a \in Nodes, q \in Nodes \cup {Nil} : RemoveBetween(a, q)
ListSpec == ListInit /\ [][ListNext]_listVars

-----------------------------------------------------------------------------
(* Following the pointers from the head of a list gives the items it should
   hold, in their order, and from its tail, where there is one, the same in the
   reverse order, also after items were chopped off, stolen, erased while an
   iterator stood on them or acknowledged in the middle. *)
ItemAt(s, i) == IF i \in 1 .. Len(s) THEN s[i] ELSE Nil
ListHolds(l, s) ==
  /\ l.head = ItemAt(s, 1)
  /\ \A i \in 1 .. Len(s) : /\ mem.next[s[i]] = ItemAt(s, i + 1)
                            /\ Doubly => mem.prev[s[i]] = ItemAt(s, i - 1)
  /\ HasTail => l.tail = ItemAt(s, Len(s))
ListsHold == ListHolds(first, should.first) /\ ListHolds(second, should.second)

(* An iterator visits what was in the list when it began, each item once and in
   order, though the loop erases items under it and pushes new ones. *)
VisitsAll == /\ iter.on \in {"forward", "back"}
                  => iter.item = IF todo = <<>> THEN Nil ELSE Head(todo)
             /\ iter.on = "no" => todo = <<>>

ListsRight == ListsHold /\ VisitsAll
=============================================================================
