---------------------------- MODULE MergeSort ----------------------------
(***************************************************************************)
(* The merge sort of a linked list, src/include/cat/lang/MergeSort.hpp and  *)
(* the same code in RefSingletonBase::MergeSort.  It sorts in place: a      *)
(* first pass orders pairs, and each further pass merges neighbouring runs  *)
(* of step_size nodes, which it finds through a second list that skips from *)
(* run to run.                                                              *)
(***************************************************************************)
EXTENDS Integers, FiniteSets

CONSTANTS MaxSorted,      \* bound: nodes of the list
          SortValues      \* _sort_value
Null == 0

VARIABLES sort_value,     \* of nodes 1 .. n, which form the list in this order
          sort_next, sort_skip, sort_head,
          ms              \* the local variables, and where the code is
sortVars == <<sort_value, sort_next, sort_skip, sort_head, ms>>

Sorted == DOMAIN sort_value
At0 == [pc |-> "pairs", a |-> 1, b |-> Null, tail |-> Null, skip_last |-> Null, step_size |-> 2,
        b_remaining |-> 0, b_head |-> Null, next_list |-> Null, prev_tail |-> Null]
SortInit == \E n \in 1 .. MaxSorted :
  /\ sort_value \in [1 .. n -> SortValues]
  /\ sort_next = [k \in 1 .. n |-> IF k = n THEN Null ELSE k + 1]
  /\ sort_skip = [k \in 1 .. n |-> Null]
  /\ sort_head = 1 /\ ms = At0

(* The node after x, if any. *)
Following(x) == IF x = Null THEN Null ELSE sort_next[x]
(* f with x changed to v, where x is a node. *)
Linked(f, x, v) == IF x = Null THEN f ELSE [f EXCEPT ![x] = v]

-----------------------------------------------------------------------------
(* A pair is put in order.  Mutant: equal ones are swapped as well. *)
InOrderStrictly(x, y) == sort_value[x] < sort_value[y]
InOrder(x, y) == sort_value[x] <= sort_value[y]

OrderPair ==
  LET a == ms.a
      b == Following(a)
      next_pair == sort_next[b]
      first == IF InOrder(a, b) THEN a ELSE b
      last == IF InOrder(a, b) THEN b ELSE a
  IN
  /\ ms.pc = "pairs" /\ b # Null
  /\ IF InOrder(a, b) THEN UNCHANGED <<sort_next, sort_head>>
     ELSE /\ sort_next' = Linked([sort_next EXCEPT ![a] = next_pair, ![b] = a], ms.tail, b)
          /\ sort_head' = IF ms.tail = Null THEN b ELSE sort_head
  /\ sort_skip' = [(IF ~InOrder(a, b) /\ ms.tail # Null THEN Linked(sort_skip, ms.skip_last, b) ELSE sort_skip)
                    EXCEPT ![first] = next_pair]
  /\ ms' = [ms EXCEPT !.a = next_pair, !.tail = last, !.skip_last = first]
  /\ UNCHANGED sort_value
LastPair ==
  /\ ms.pc = "pairs" /\ Following(ms.a) = Null
  /\ sort_skip' = Linked(sort_skip, ms.a, Null)
  /\ ms' = [ms EXCEPT !.pc = "pass"]
  /\ UNCHANGED <<sort_value, sort_next, sort_head>>

-----------------------------------------------------------------------------
(* A pass starts with the two runs at the head of the list. *)
StartPass ==
  LET b == sort_skip[sort_head] IN
  /\ ms.pc = "pass"
  /\ ms' = IF b = Null THEN [ms EXCEPT !.pc = "sorted"]
           ELSE [ms EXCEPT !.pc = "merge", !.a = sort_head, !.b = b, !.tail = Null, !.prev_tail = Null,
                           !.next_list = sort_skip[b], !.b_remaining = ms.step_size, !.b_head = b]
  /\ UNCHANGED <<sort_value, sort_next, sort_skip, sort_head>>

(* The node x goes behind the tail. *)
LinkTail(x) == /\ sort_head' = IF ms.tail = Null THEN x ELSE sort_head
               /\ UNCHANGED <<sort_value, sort_skip>>
(* The node n after x, or the last of the list.  Mutant: x itself. *)
ForwardNot(x, n) == x
Forward(x, n) ==
  LET f[i \in 0 .. n] == IF i = 0 THEN x ELSE IF sort_next[f[i - 1]] = Null THEN f[i - 1]
                         ELSE sort_next[f[i - 1]]
  IN  f[n]
(* The last node before stop. *)
LastBefore(x, stop) ==
  LET f[i \in 0 .. Cardinality(Sorted)] ==
        IF i = 0 THEN x ELSE IF sort_next[f[i - 1]] = stop THEN f[i - 1] ELSE sort_next[f[i - 1]]
  IN  f[Cardinality(Sorted)]

(* The next a-item is not greater, so that equal ones keep their order. *)
TakeA ==
  LET a == ms.a
      next == sort_next[a]
      linked == Linked(sort_next, ms.tail, a)
  IN
  /\ ms.pc = "merge" /\ InOrder(a, ms.b)
  /\ LinkTail(a)
  /\ IF next = ms.b_head
     THEN /\ sort_next' = [linked EXCEPT ![a] = ms.b]
          /\ ms' = [ms EXCEPT !.pc = "merged", !.tail = Forward(ms.b, ms.b_remaining - 1)]
     ELSE /\ sort_next' = linked
          /\ ms' = [ms EXCEPT !.a = next, !.tail = a]
(* The b-items end with the run or with the list. *)
NoMoreB(remaining, next) == remaining = 0 \/ next = Null
TakeB ==
  LET b == ms.b
      next == sort_next[b]
      linked == Linked(sort_next, ms.tail, b)
      last == LastBefore(ms.a, ms.b_head)
  IN
  /\ ms.pc = "merge" /\ ~InOrder(ms.a, b)
  /\ LinkTail(b)
  /\ IF NoMoreB(ms.b_remaining - 1, next)
     THEN /\ sort_next' = [linked EXCEPT ![b] = ms.a, ![last] = next]
          /\ ms' = [ms EXCEPT !.pc = "merged", !.tail = last]
     ELSE /\ sort_next' = linked
          /\ ms' = [ms EXCEPT !.b = next, !.tail = b, !.b_remaining = @ - 1]

(* The merged run is put in the skip list, and the next two runs are taken. *)
NextRuns ==
  LET merged == IF ms.prev_tail = Null THEN sort_head ELSE sort_next[ms.prev_tail]
      skip == IF ms.prev_tail = Null THEN sort_skip ELSE Linked(sort_skip, ms.skip_last, merged)
      a == ms.next_list
      b == IF a = Null THEN Null ELSE skip[a]
  IN
  /\ ms.pc = "merged"
  /\ IF b = Null
     THEN /\ sort_skip' = [skip EXCEPT ![merged] = a]
          /\ ms' = [ms EXCEPT !.pc = "pass", !.step_size = 2 * @, !.skip_last = merged]
     ELSE /\ sort_skip' = [skip EXCEPT ![a] = skip[b]]
          /\ ms' = [ms EXCEPT !.pc = "merge", !.a = a, !.b = b, !.next_list = skip[b],
                              !.prev_tail = ms.tail, !.b_remaining = ms.step_size,
                              !.b_head = b, !.skip_last = merged]
  /\ UNCHANGED <<sort_value, sort_next, sort_head>>

SortNext == OrderPair \/ LastPair \/ StartPass \/ TakeA \/ TakeB \/ NextRuns
SortSpec == SortInit /\ [][SortNext]_sortVars

-----------------------------------------------------------------------------
(* "Preserves existing order for items that have the same position": when the
   sort is over the list is the nodes in the order of their values, equal ones in
   the order they had, each once, and the last one ends it. *)
Precedes(x, y) == sort_value[x] < sort_value[y] \/ (sort_value[x] = sort_value[y] /\ x < y)
SortRight ==
  ms.pc = "sorted" =>
    /\ \A x \in Sorted : sort_next[x] # Null => Precedes(x, sort_next[x])
    /\ \A x \in Sorted : x = sort_head \/ \E y \in Sorted : sort_next[y] = x
=============================================================================
