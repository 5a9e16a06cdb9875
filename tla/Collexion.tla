------------------------------ MODULE Collexion ------------------------------
(***************************************************************************)
(* The set of connexions an application keeps to broadcast to               *)
(* (include/cat/sphynx/Collexion.hpp): a hash table whose probe sequence is *)
(* a linear congruence, with collision flags that are cleared again on      *)
(* removal, and two lists threaded through it.  While a subset is out, a    *)
(* removed connexion only moves to the inactive list, so that the pointers  *)
(* in the subset stay referenced.  Every call works under one lock.         *)
(*                                                                         *)
(* The table does not grow here (at most half of it is used): see README.   *)
(***************************************************************************)
EXTENDS Integers, FiniteSets, Sequences, SequencesExt

CONSTANTS Members,      \* connexions
          NoMember,     \* the null pointer
          TableSize,    \* _allocated, a power of 2
          Multiplier, Incrementer, MultInverse,  \* COLLISION_... (mod TableSize)
          Hashes,       \* values of HashPtr (mod TableSize)
          MaxSubsets    \* bound on the subsets out at a time

Keys == 0 .. TableSize - 1

ASSUME CollexionAssumption ==
  /\ NoMember \notin Members /\ TableSize \in Nat \ {0} /\ Hashes \subseteq Keys
  /\ Multiplier \in Nat /\ Incrementer \in Nat /\ MultInverse \in Nat
  /\ (Multiplier * MultInverse) % TableSize = 1

VARIABLES table, hash, activeHead, inactiveHead, used, subsetCount, lent, tableRefs
collexionVars == <<table, hash, activeHead, inactiveHead, used, subsetCount, lent, tableRefs>>

(* next and prev are a key + 1, or 0 at the end of a list. *)
EmptyEntry == [conn |-> NoMember, collide |-> FALSE, kill |-> FALSE, next |-> 0, prev |-> 0]

CollexionInit ==
  /\ table = [k \in Keys |-> EmptyEntry] /\ hash \in [Members -> Hashes]
  /\ activeHead = 0 /\ inactiveHead = 0 /\ used = 0
  /\ subsetCount = 0                        \* _reference_count: subsets not released
  /\ lent = {}                              \* what was in a subset since it was 0
  /\ tableRefs = [c \in Members |-> 0]      \* references the table holds

-----------------------------------------------------------------------------
(* The probe sequence, forwards and backwards. *)
Forward(k) == (k * Multiplier + Incrementer) % TableSize
Backward(k) == ((k - Incrementer) * MultInverse) % TableSize

(* A walk from k on, with f to the next one. *)
Steps(f, k) ==
  LET p[i \in 0 .. TableSize] == IF i = 0 THEN k ELSE f[p[i - 1]] IN p
Probes == [k \in Keys |-> Steps([q \in Keys |-> Forward(q)], k)]
Backs == [k \in Keys |-> Steps([q \in Keys |-> Backward(q)], k)]
Probe(c) == Probes[hash[c]]

(* The multiplier is 1 modulo 4, the incrementer odd and the size a power of 2:
   from everywhere, the probes meet every entry. *)
ASSUME PeriodAssumption ==
  \A k \in Keys, q \in Keys : \E i \in 0 .. TableSize - 1 : Probes[k][i] = q

\* Mutant: flags are cleared past an entry that is used.
ClearFlagsPastUsed(t, key) ==
  LET back == Backs[key]
      stops == {i \in 1 .. TableSize : ~t[back[i]].collide}
      last == Min({TableSize} \cup {i - 1 : i \in stops})
      cleared == {back[i] : i \in 1 .. last}
  IN [k \in Keys |-> IF k \in cleared THEN [t[k] EXCEPT !.collide = FALSE] ELSE t[k]]

(* Walk backwards and clear the collision flags that are no longer needed: up
   to an entry without one, or to the first that is used. *)
ClearFlags(t, key) ==
  LET back == Backs[key]
      stops == {i \in 1 .. TableSize : ~t[back[i]].collide}
      uses == {i \in 1 .. TableSize : t[back[i]].conn # NoMember}
      last == Min({TableSize} \cup {i - 1 : i \in stops} \cup uses)
      cleared == {back[i] : i \in 1 .. last}
  IN [k \in Keys |-> IF k \in cleared THEN [t[k] EXCEPT !.collide = FALSE] ELSE t[k]]

\* Mutant: only the link forwards is mended.
UnlinkedForward(t, key) ==
  LET e == t[key] IN
  [k \in Keys |-> [t[k] EXCEPT !.next = IF k + 1 = e.prev THEN e.next ELSE @]]

WithLinks(e, next, prev) == [e EXCEPT !.next = next, !.prev = prev]

(* Take an entry out of the list it is in. *)
Unlinked(t, key) ==
  LET e == t[key] IN
  [k \in Keys |-> WithLinks(t[k], IF k + 1 = e.prev THEN e.next ELSE t[k].next,
                                  IF k + 1 = e.next THEN e.prev ELSE t[k].prev)]
HeadAfter(head, e) == IF e.prev = 0 THEN e.next ELSE head

(* Put an entry at the front of a list. *)
Linked(t, key, head) ==
  [k \in Keys |->
     IF k = key THEN WithLinks(t[k], head, 0)
     ELSE IF k + 1 = head THEN WithLinks(t[k], t[k].next, key + 1) ELSE t[k]]

-----------------------------------------------------------------------------
(* Where Insert() stops: the connexion itself, or the first free entry. *)
InsertStop(c) == Min({i \in 0 .. TableSize - 1 : table[Probe(c)[i]].conn \in {c, NoMember}})

CollexionInsert(c) ==
  LET at == InsertStop(c)
      key == Probe(c)[at]
      passed == {Probe(c)[i] : i \in 0 .. at - 1}
      flagged == [k \in Keys |-> IF k \in passed THEN [table[k] EXCEPT !.collide = TRUE]
                                                 ELSE table[k]]
      filled == [flagged EXCEPT ![key].conn = c]
  IN /\ used < TableSize \div 2
     /\ table[key].conn = NoMember
     /\ table' = Linked(filled, key, activeHead)
     /\ activeHead' = key + 1
     /\ used' = used + 1
     /\ tableRefs' = [tableRefs EXCEPT ![c] = @ + 1]
     /\ UNCHANGED <<hash, inactiveHead, subsetCount, lent>>

(* Insert() of a connexion it meets: only the flags on the way are set. *)
CollexionInsertAgain(c) ==
  LET at == InsertStop(c)
      passed == {Probe(c)[i] : i \in 0 .. at - 1}
  IN /\ used < TableSize \div 2
     /\ table[Probe(c)[at]].conn = c
     /\ table' = [k \in Keys |-> IF k \in passed THEN [table[k] EXCEPT !.collide = TRUE]
                                                 ELSE table[k]]
     /\ UNCHANGED <<hash, activeHead, inactiveHead, used, subsetCount, lent, tableRefs>>

(* Where Remove() finds it: behind flagged entries only. *)
FoundAt(c) == {i \in 0 .. TableSize - 1 :
                 /\ table[Probe(c)[i]].conn = c
                 /\ \A j \in 0 .. i - 1 : table[Probe(c)[j]].collide}

\* Mutant: the subsets that are out are not looked at.
CollexionRemoveAlways(c) ==
  /\ used > 0 /\ FoundAt(c) # {}
  /\ LET key == Probe(c)[Min(FoundAt(c))]
         t == [Unlinked(table, key) EXCEPT
                 ![key] = [EmptyEntry EXCEPT !.collide = table[key].collide]]
     IN /\ ~table[key].kill
        /\ table' = IF table[key].collide THEN t ELSE ClearFlags(t, key)
        /\ activeHead' = HeadAfter(activeHead, table[key])
  /\ used' = used - 1
  /\ tableRefs' = [tableRefs EXCEPT ![c] = @ - 1]
  /\ UNCHANGED <<hash, inactiveHead, subsetCount, lent>>

(* Remove() with no subset out: UnlinkActive(). *)
CollexionRemove(c) ==
  /\ subsetCount = 0 /\ used > 0 /\ FoundAt(c) # {}
  /\ LET key == Probe(c)[Min(FoundAt(c))]
         t == [Unlinked(table, key) EXCEPT
                 ![key] = [EmptyEntry EXCEPT !.collide = table[key].collide]]
     IN /\ table' = IF table[key].collide THEN t ELSE ClearFlags(t, key)
        /\ activeHead' = HeadAfter(activeHead, table[key])
  /\ used' = used - 1
  /\ tableRefs' = [tableRefs EXCEPT ![c] = @ - 1]
  /\ UNCHANGED <<hash, inactiveHead, subsetCount, lent>>

(* Remove() while a subset is out: Inactivate(), once. *)
CollexionInactivate(c) ==
  /\ subsetCount # 0 /\ used > 0 /\ FoundAt(c) # {}
  /\ LET key == Probe(c)[Min(FoundAt(c))] IN
     /\ ~table[key].kill
     /\ table' = Linked([Unlinked(table, key) EXCEPT ![key].kill = TRUE], key, inactiveHead)
     /\ activeHead' = HeadAfter(activeHead, table[key])
     /\ inactiveHead' = key + 1
  /\ UNCHANGED <<hash, used, subsetCount, lent, tableRefs>>

-----------------------------------------------------------------------------
(* The keys of a list from its head on. *)
Walk(t, head) ==
  LET at == Steps([l \in 0 .. TableSize |-> IF l = 0 THEN 0 ELSE t[l - 1].next], head)
  IN  [i \in 1 .. Cardinality({n \in 0 .. TableSize : at[n] # 0}) |-> at[i - 1] - 1]

(* SubsetAcquire() and BinnedSubsetAcquire() when some connexion meets the
   criterion (none: nothing changes).  The widest one, AnyConnexion, lends all
   that a narrower one would. *)
SubsetAcquire ==
  /\ activeHead # 0 /\ subsetCount < MaxSubsets
  /\ subsetCount' = subsetCount + 1
  /\ lent' = lent \cup {table[k].conn : k \in Range(Walk(table, activeHead))}
  /\ UNCHANGED <<table, hash, activeHead, inactiveHead, used, tableRefs>>

(* ReleaseInactive() for one entry. *)
Released(t, key) ==
  IF t[key].collide THEN [t EXCEPT ![key] = [EmptyEntry EXCEPT !.collide = TRUE]]
  ELSE ClearFlags([t EXCEPT ![key] = EmptyEntry], key)
ReleasedAll(t, keys) ==
  LET u[n \in 0 .. Len(keys)] == IF n = 0 THEN t ELSE Released(u[n - 1], keys[n])
  IN  u[Len(keys)]

SubsetRelease ==
  /\ subsetCount > 0 /\ subsetCount' = subsetCount - 1
  /\ IF subsetCount > 1 THEN UNCHANGED <<table, inactiveHead, used, lent, tableRefs>>
     ELSE LET inactive == Walk(table, inactiveHead) IN
          /\ lent' = {}
          /\ table' = ReleasedAll(table, inactive)
          /\ inactiveHead' = 0
          /\ used' = used - Len(inactive)
          /\ tableRefs' = [c \in Members |-> tableRefs[c] -
               Cardinality({k \in Range(inactive) : table[k].conn = c})]
  /\ UNCHANGED <<hash, activeHead>>

CollexionNext ==
  \/ \E c \in Members : \/ CollexionInsert(c) \/ CollexionInsertAgain(c)
                        \/ CollexionRemove(c) \/ CollexionInactivate(c)
  \/ SubsetAcquire \/ SubsetRelease
CollexionSpec == CollexionInit /\ [][CollexionNext]_collexionVars

-----------------------------------------------------------------------------
InList(kill) == {k \in Keys : table[k].conn # NoMember /\ table[k].kill = kill}

(* The two lists hold the used entries, each once, whatever was inserted,
   removed, deactivated and released in between. *)
ListsExact ==
  LET a == Walk(table, activeHead)
      b == Walk(table, inactiveHead)
  IN /\ Range(a) = InList(FALSE) /\ Range(b) = InList(TRUE)
     /\ Len(a) = Cardinality(Range(a)) /\ Len(b) = Cardinality(Range(b))
     /\ used = Len(a) + Len(b)
     /\ \A s \in {a, b} : \A i \in 2 .. Len(s) : table[s[i]].prev = s[i - 1] + 1

(* A connexion in the table is found: no flag that leads to it was cleared
   with another one's removal. *)
EveryMemberFound == \A k \in Keys : table[k].conn # NoMember => FoundAt(table[k].conn) # {}

(* What is in a subset stays referenced until every subset is released, and
   what waits for that is released with the last one. *)
SubsetsStayReferenced ==
  /\ \A c \in lent : tableRefs[c] > 0
  /\ inactiveHead # 0 => subsetCount > 0
  /\ \A c \in Members : tableRefs[c] = Cardinality({k \in Keys : table[k].conn = c})

(* Table, lists and subsets agree on who is a member. *)
CollexionSafe == ListsExact /\ EveryMemberFound /\ SubsetsStayReferenced
=============================================================================
