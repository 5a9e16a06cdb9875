---------------------------- MODULE NetworkProofs ----------------------------
(***************************************************************************)
(* Proofs about what stands between the sockets and the transport: the     *)
(* lookups of the DNS client, the reads a UDP endpoint keeps outstanding,  *)
(* the budget of the flow control, the skip list of a reliable stream, and *)
(* the window against replays.  Each is for every value of the constants,  *)
(* but for the two assumptions their theorems name (Prompt, ~AcrossWrap).  *)
(***************************************************************************)
EXTENDS DNSClient, UdpReads, FlowControl, RecvQueue, ReplayWindow, BitMath,
        FiniteSetTheorems, SequenceTheorems, WellFoundedInduction, TLAPS

-----------------------------------------------------------------------------
(* Lookups (DNSClient) *)

(* A set of numbers that is not empty has a least one. *)
LEMMA LeastExists ==
  ASSUME NEW S, S \subseteq Nat, S # {}
  PROVE  \E x \in S : \A y \in S : x <= y
<1> DEFINE R == OpToRel(<, Nat)
<1>1. IsWellFoundedOn(R, Nat)
  BY NatLessThanWellFounded
<1>2. PICK x \in S : \A y \in S : ~(<<y, x>> \in R)
  <2> HIDE DEF R
  <2> QED BY <1>1, WFMin
<1>3. \A y \in S : y < x => <<y, x>> \in R
  BY DEF OpToRel
<1>4. \A y \in S : ~(y < x)
  BY <1>2, <1>3
<1>5. \A y \in S : x <= y
  BY <1>4
<1> QED BY <1>5

LEMMA LeastOf ==
  ASSUME NEW S, S \subseteq Nat, S # {}
  PROVE  Min(S) \in S /\ \A y \in S : Min(S) <= y
<1>1. \E x \in S : \A y \in S : x <= y
  BY LeastExists
<1> QED BY <1>1, Zenon DEF Min

(* The cache *)
CacheEntry == [host : Hosts, age : Nat]
AgeOrder(c) == \A i, j \in 1 .. Len(c) : i < j => c[i].age <= c[j].age
CacheGood(c) == c \in Seq(CacheEntry) /\ Len(c) <= MaxCache /\ AgeOrder(c)

LEMMA CacheCut ==
  ASSUME NEW c, CacheGood(c), NEW n \in Nat, n <= Len(c)
  PROVE  CacheGood(SubSeq(c, 1, n))
<1> DEFINE d == SubSeq(c, 1, n)
<1>1. Len(c) \in Nat /\ \A i \in 1 .. Len(c) : c[i] \in CacheEntry
  BY DEF CacheGood
<1>2. d \in Seq(CacheEntry) /\ Len(d) = n /\ \A i \in 1 .. n : d[i] = c[i]
  <2>1. \A i \in 1 .. n : c[i] \in CacheEntry
    BY <1>1
  <2>2. /\ d \in Seq(CacheEntry) /\ Len(d) = IF 1 <= n THEN n - 1 + 1 ELSE 0
        /\ \A i \in 1 .. n - 1 + 1 : d[i] = c[1 + i - 1]
    BY <2>1, SubSeqProperties
  <2> QED BY <2>2
<1> HIDE DEF d
<1>3. AgeOrder(d) /\ Len(d) <= MaxCache
  BY <1>1, <1>2, DnsAssumption DEF CacheGood, AgeOrder
<1>4. CacheGood(d)
  BY <1>2, <1>3 DEF CacheGood
<1> QED BY <1>4 DEF d

LEMMA CacheWithout ==
  ASSUME NEW c, CacheGood(c), NEW n \in 1 .. Len(c)
  PROVE  CacheGood(RemoveAt(c, n))
<1> DEFINE s == SubSeq(c, 1, n - 1)
           t == SubSeq(c, n + 1, Len(c))
           d == s \o t
<1>1. Len(c) \in Nat /\ \A i \in 1 .. Len(c) : c[i] \in CacheEntry
  BY DEF CacheGood
<1>2. s \in Seq(CacheEntry) /\ Len(s) = n - 1 /\ \A i \in 1 .. n - 1 : s[i] = c[i]
  <2>1. \A i \in 1 .. n - 1 : c[i] \in CacheEntry
    BY <1>1
  <2>2. /\ s \in Seq(CacheEntry) /\ Len(s) = IF 1 <= n - 1 THEN (n - 1) - 1 + 1 ELSE 0
        /\ \A i \in 1 .. (n - 1) - 1 + 1 : s[i] = c[1 + i - 1]
    BY <2>1, SubSeqProperties
  <2> QED BY <2>2, <1>1
<1>3. t \in Seq(CacheEntry) /\ Len(t) = Len(c) - n /\ \A i \in 1 .. Len(c) - n : t[i] = c[n + i]
  <2>1. \A i \in n + 1 .. Len(c) : c[i] \in CacheEntry
    BY <1>1
  <2>2. /\ t \in Seq(CacheEntry) /\ Len(t) = IF n + 1 <= Len(c) THEN Len(c) - (n + 1) + 1 ELSE 0
        /\ \A i \in 1 .. Len(c) - (n + 1) + 1 : t[i] = c[(n + 1) + i - 1]
    BY <2>1, <1>1, SubSeqProperties
  <2> QED BY <2>2, <1>1
<1> HIDE DEF s, t
<1>4. d \in Seq(CacheEntry) /\ Len(d) = Len(c) - 1
      /\ \A i \in 1 .. Len(c) - 1 : d[i] = IF i <= n - 1 THEN c[i] ELSE c[i + 1]
  <2>1. d \in Seq(CacheEntry) /\ Len(d) = Len(s) + Len(t)
        /\ \A i \in 1 .. Len(s) + Len(t) : d[i] = IF i <= Len(s) THEN s[i] ELSE t[i - Len(s)]
    BY <1>2, <1>3, ConcatProperties
  <2> HIDE DEF d
  <2>2. ASSUME NEW i \in 1 .. Len(c) - 1
        PROVE  d[i] = IF i <= n - 1 THEN c[i] ELSE c[i + 1]
    <3>1. CASE i <= n - 1
      <4>1. i \in 1 .. n - 1 /\ i \in 1 .. Len(s) + Len(t) /\ i <= Len(s)
        BY <3>1, <1>1, <1>2, <1>3
      <4>2. d[i] = s[i] /\ s[i] = c[i]
        BY <4>1, <2>1, <1>2
      <4> QED BY <3>1, <4>2
    <3>2. CASE ~(i <= n - 1)
      <4>1. d[i] = t[i - (n - 1)] /\ i - (n - 1) \in 1 .. Len(c) - n
        BY <3>2, <2>1, <1>1, <1>2, <1>3
      <4>2. t[i - (n - 1)] = c[n + (i - (n - 1))] /\ n + (i - (n - 1)) = i + 1
        BY <4>1, <1>3, <1>1
      <4> QED BY <4>1, <4>2, <3>2
    <3> QED BY <3>1, <3>2
  <2> QED BY <2>1, <2>2, <1>1, <1>2, <1>3
<1> HIDE DEF d
<1>5. AgeOrder(d)
  <2>1. SUFFICES ASSUME NEW i \in 1 .. Len(d), NEW j \in 1 .. Len(d), i < j
                 PROVE  d[i].age <= d[j].age
    BY DEF AgeOrder
  <2>2. PICK p \in 1 .. Len(c) : d[i] = c[p] /\ p = (IF i <= n - 1 THEN i ELSE i + 1)
    BY <1>4, <1>1
  <2>3. PICK q \in 1 .. Len(c) : d[j] = c[q] /\ q = (IF j <= n - 1 THEN j ELSE j + 1)
    BY <1>4, <1>1
  <2>4. p < q
    BY <2>1, <2>2, <2>3, <1>1, <1>4
  <2> QED BY <2>2, <2>3, <2>4 DEF CacheGood, AgeOrder
<1>6. CacheGood(d)
  <2>1. Len(d) <= MaxCache
    BY <1>1, <1>4, DnsAssumption DEF CacheGood
  <2> QED BY <1>4, <1>5, <2>1 DEF CacheGood
<1>7. RemoveAt(c, n) = d
  BY DEF RemoveAt, d, s, t
<1> QED BY <1>6, <1>7

LEMMA CacheGrows ==
  ASSUME NEW c, CacheGood(c), NEW S, S \subseteq Hosts, IsFiniteSet(S), NEW hosts \in SetToSeqs(S)
  PROVE  CacheGood(CacheAdd(c, hosts))
<1> DEFINE m == Cardinality(S)
           e == Entries(hosts)
           d == e \o c
           k == IF Len(d) < MaxCache THEN Len(d) ELSE MaxCache
           f == SubSeq(d, 1, k)
<1>1. Len(c) \in Nat /\ c \in Seq(CacheEntry) /\ \A i \in 1 .. Len(c) : c[i] \in CacheEntry
  BY DEF CacheGood
<1>2. m \in Nat /\ hosts \in [1 .. m -> S]
  BY FS_CardinalityType DEF SetToSeqs
<1> HIDE DEF m
<1>3. e \in Seq(CacheEntry) /\ Len(e) = m /\ \A i \in 1 .. m : e[i].age = 0
  <2>1. e = [i \in 1 .. m |-> [host |-> hosts[i], age |-> 0]]
    BY <1>2 DEF Entries
  <2>2. \A i \in 1 .. m : hosts[i] \in Hosts
    BY <1>2
  <2>3. \A i \in 1 .. m : [host |-> hosts[i], age |-> 0] \in CacheEntry
    BY <2>2 DEF CacheEntry
  <2>4. e \in [1 .. m -> CacheEntry]
    BY <2>1, <2>3
  <2>5. e \in Seq(CacheEntry) /\ Len(e) = m
    <3> HIDE DEF e
    <3>1. e \in Seq(CacheEntry)
      BY <2>4, <1>2, SeqDef
    <3>2. DOMAIN e = 1 .. m
      BY <2>4
    <3> QED BY <3>1, <3>2, <1>2, LenProperties
  <2> HIDE DEF e
  <2>6. \A i \in 1 .. m : e[i] = [host |-> hosts[i], age |-> 0]
    BY <2>1
  <2>7. ASSUME NEW i \in 1 .. m PROVE e[i].age = 0
    <3>1. e[i] = [host |-> hosts[i], age |-> 0]
      BY <2>6
    <3> QED BY <3>1
  <2> QED BY <2>5, <2>7
<1> HIDE DEF e
<1>4. d \in Seq(CacheEntry) /\ Len(d) = m + Len(c)
      /\ \A i \in 1 .. m + Len(c) : d[i] = IF i <= m THEN e[i] ELSE c[i - m]
  BY <1>1, <1>3, ConcatProperties
<1> HIDE DEF d
<1>5. \A i \in 1 .. Len(d) : d[i] \in CacheEntry
  BY <1>4, ElementOfSeq
<1>6. AgeOrder(d)
  <2>1. SUFFICES ASSUME NEW i \in 1 .. Len(d), NEW j \in 1 .. Len(d), i < j
                 PROVE  d[i].age <= d[j].age
    BY DEF AgeOrder
  <2>2. d[i] \in CacheEntry /\ d[j] \in CacheEntry
    BY <1>5
  <2>3. d[i].age \in Nat /\ d[j].age \in Nat
    BY <2>2 DEF CacheEntry
  <2>4. CASE i <= m
    <3>1. d[i].age = 0
      BY <2>4, <1>2, <1>3, <1>4, <1>1
    <3> QED BY <3>1, <2>3
  <2>5. CASE ~(i <= m)
    <3>1. /\ d[i] = c[i - m] /\ d[j] = c[j - m]
          /\ i - m \in 1 .. Len(c) /\ j - m \in 1 .. Len(c) /\ i - m < j - m
      BY <2>5, <2>1, <1>1, <1>2, <1>4
    <3> QED BY <3>1 DEF CacheGood, AgeOrder
  <2> QED BY <2>4, <2>5
<1>7. k \in Nat /\ k <= Len(d) /\ k <= MaxCache
  BY <1>1, <1>2, <1>4, DnsAssumption
<1> HIDE DEF k
<1>8. f \in Seq(CacheEntry) /\ Len(f) = k /\ \A i \in 1 .. k : f[i] = d[i]
  <2>1. \A i \in 1 .. k : d[i] \in CacheEntry
    BY <1>5, <1>7, <1>4, <1>1, <1>2
  <2>2. /\ f \in Seq(CacheEntry) /\ Len(f) = IF 1 <= k THEN k - 1 + 1 ELSE 0
        /\ \A i \in 1 .. k - 1 + 1 : f[i] = d[1 + i - 1]
    BY <2>1, <1>7, SubSeqProperties
  <2> QED BY <2>2, <1>7
<1> HIDE DEF f
<1>9. AgeOrder(f) /\ Len(f) <= MaxCache
  BY <1>6, <1>7, <1>8, <1>4, <1>1, <1>2 DEF AgeOrder
<1>10. CacheGood(f)
  BY <1>8, <1>9 DEF CacheGood
<1>11. CacheAdd(c, hosts) = f
  BY DEF CacheAdd, Kept, f, k, d, e
<1> QED BY <1>10, <1>11

-----------------------------------------------------------------------------
Request == [id : Ids, host : Hosts, waiters : SUBSET Lookups, age : Nat]
LookupState == [pc : {"new", "missed", "waiting", "done"}, host : Hosts \cup {NoHost},
                calls : Nat, held : BOOLEAN]

(* What holds of one lookup. *)
LookupGood(l) ==
  /\ lookup[l].calls = (IF lookup[l].pc = "done" THEN 1 ELSE 0)
  /\ lookup[l].held <=> lookup[l].pc = "waiting"
  /\ lookup[l].pc = "missed" <=> dnsLock = {l}
  /\ lookup[l].pc = "missed" => lookup[l].host \in Hosts
  /\ lookup[l].pc = "waiting" <=> \E r \in requests : l \in r.waiters

RequestsApart ==
  \A r, s \in requests : r # s => r.id # s.id /\ r.host # s.host /\ r.waiters \cap s.waiters = {}

DnsInv ==
  /\ lookup \in [Lookups -> LookupState]
  /\ requests \subseteq Request /\ IsFiniteSet(requests)
  /\ RequestsApart
  /\ \A l \in Lookups : LookupGood(l)
  /\ CacheGood(cache)

LEMMA FreshBound ==
  ASSUME CacheGood(cache)
  PROVE  FreshLen \in Nat /\ FreshLen <= Len(cache)
<1>1. Len(cache) \in Nat /\ DOMAIN cache = 1 .. Len(cache)
  BY DEF CacheGood
<1>2. CASE Expired = {}
  BY <1>1, <1>2 DEF FreshLen
<1>3. CASE Expired # {}
  <2>1. Expired \subseteq 1 .. Len(cache)
    BY <1>1 DEF Expired
  <2>2. Expired \subseteq Nat
    BY <1>1, <2>1
  <2>3. Min(Expired) \in Expired
    BY <1>3, <2>2, LeastOf
  <2>4. Min(Expired) \in 1 .. Len(cache)
    BY <2>1, <2>3
  <2>5. FreshLen = Min(Expired) - 1
    BY <1>3 DEF FreshLen
  <2> QED BY <1>1, <2>4, <2>5
<1> QED BY <1>2, <1>3

LEMMA DoneRecord ==
  ASSUME NEW h \in Hosts \cup {NoHost}, NEW s,
         s = [pc |-> "done", host |-> h, calls |-> 1, held |-> FALSE]
  PROVE  s.pc = "done" /\ s.calls = 1 /\ ~s.held /\ s \in LookupState
<1>1. s \in LookupState
  BY DEF LookupState
<1>2. ~s.held
  OBVIOUS
<1> QED BY <1>1, <1>2

(* Those who waited for the requests that are given up are called, and nobody
   else waited for these. *)
LEMMA CalledBack ==
  ASSUME DnsInv, NEW over, over \subseteq requests, dnsLock' = dnsLock,
         lookup' = Called(lookup, UNION {r.waiters : r \in over}),
         \A l \in Lookups : (\E r \in requests' : l \in r.waiters)
                             <=> (\E r \in requests \ over : l \in r.waiters)
  PROVE  lookup' \in [Lookups -> LookupState] /\ \A l \in Lookups : LookupGood(l)'
<1> DEFINE ls == UNION {r.waiters : r \in over}
<1>1. \A l \in Lookups : l \in ls <=> \E r \in over : l \in r.waiters
  OBVIOUS
<1> HIDE DEF ls
<1>2. lookup' = 
        [l \in Lookups |->
           IF l \in ls THEN [pc |-> "done", host |-> lookup[l].host, calls |-> lookup[l].calls + 1,
                             held |-> FALSE]
           ELSE lookup[l]]
  BY DEF Called, ls
<1>3. ASSUME NEW l \in Lookups
      PROVE  lookup'[l] \in LookupState /\ LookupGood(l)'
  <2>1. lookup[l] \in LookupState /\ LookupGood(l)
    BY DEF DnsInv
  <2>2. CASE l \in ls
    <3>1. PICK r \in over : l \in r.waiters
      BY <2>2, <1>1
    <3>2. lookup[l].pc = "waiting"
      BY <3>1, <2>1 DEF LookupGood
    <3>3. lookup'[l] = [pc |-> "done", host |-> lookup[l].host, calls |-> lookup[l].calls + 1,
                          held |-> FALSE]
      BY <1>2, <2>2
    <3>4. lookup[l].calls = 0 /\ dnsLock # {l}
      BY <3>2, <2>1 DEF LookupGood
    <3>5. lookup'[l].pc = "done" /\ lookup'[l].calls = 1 /\ ~lookup'[l].held
          /\ lookup'[l] \in LookupState
      <4>1. lookup'[l] = [pc |-> "done", host |-> lookup[l].host, calls |-> 1, held |-> FALSE]
        BY <3>3, <3>4
      <4>2. lookup[l].host \in Hosts \cup {NoHost}
        BY <2>1 DEF LookupState
      <4> QED BY <4>1, <4>2, DoneRecord
    <3>6. ~ \E q \in requests \ over : l \in q.waiters
      BY <3>1 DEF DnsInv, RequestsApart
    <3> QED BY <3>4, <3>5, <3>6 DEF LookupGood
  <2>3. CASE l \notin ls
    <3>1. lookup'[l] = lookup[l]
      BY <1>2, <2>3
    <3>2. (\E r \in requests' : l \in r.waiters) <=> (\E r \in requests : l \in r.waiters)
      BY <2>3, <1>1
    <3> QED BY <3>1, <3>2, <2>1 DEF LookupGood
  <2> QED BY <2>2, <2>3
<1> QED BY <1>2, <1>3

LEMMA DnsInitial == DnsInit => DnsInv
<1> SUFFICES ASSUME DnsInit PROVE DnsInv
  OBVIOUS
<1>1. CacheGood(cache)
  BY DnsAssumption DEF DnsInit, CacheGood, AgeOrder
<1>2. IsFiniteSet(requests)
  BY FS_EmptySet DEF DnsInit
<1>3. lookup \in [Lookups -> LookupState]
  BY DEF DnsInit, LookupState
<1> QED BY <1>1, <1>2, <1>3 DEF DnsInit, DnsInv, RequestsApart, LookupGood


(* A lookup that is answered at once, or fails. *)
LEMMA CalledAlone ==
  ASSUME DnsInv, NEW l \in Lookups, lookup[l].pc \in {"new", "missed"}, requests' = requests,
         lookup' = Called(lookup, {l}), dnsLock' = {}, dnsLock \subseteq {l}
  PROVE  lookup' \in [Lookups -> LookupState] /\ \A k \in Lookups : LookupGood(k)'
<1>1. lookup' = [k \in Lookups |->
           IF k = l THEN [pc |-> "done", host |-> lookup[k].host, calls |-> lookup[k].calls + 1,
                          held |-> FALSE]
           ELSE lookup[k]]
  BY DEF Called
<1>2. ASSUME NEW k \in Lookups
      PROVE  lookup'[k] \in LookupState /\ LookupGood(k)'
  <2>1. lookup[k] \in LookupState /\ LookupGood(k)
    BY DEF DnsInv
  <2>2. CASE k = l
    <3>1. lookup[l].calls = 0 /\ ~(lookup[l].pc = "waiting")
      BY <2>1, <2>2 DEF LookupGood
    <3>2. lookup'[k] = [pc |-> "done", host |-> lookup[k].host, calls |-> 1, held |-> FALSE]
      <4>1. lookup'[k] = [pc |-> "done", host |-> lookup[k].host, calls |-> lookup[k].calls + 1,
                          held |-> FALSE]
        BY <1>1, <2>2
      <4>2. lookup[k].calls + 1 = 1
        BY <3>1, <2>2
      <4> QED BY <4>1, <4>2
    <3>3. lookup[k].host \in Hosts \cup {NoHost}
      BY <2>1 DEF LookupState
    <3>4. lookup'[k].pc = "done" /\ lookup'[k].calls = 1 /\ ~lookup'[k].held
          /\ lookup'[k] \in LookupState
      BY <3>2, <3>3, DoneRecord
    <3>5. ~ \E r \in requests' : k \in r.waiters
      BY <3>1, <2>1, <2>2 DEF LookupGood
    <3> QED BY <3>4, <3>5 DEF LookupGood
  <2>3. CASE k # l
    <3>1. lookup'[k] = lookup[k]
      BY <1>1, <2>3
    <3>2. dnsLock # {k} /\ dnsLock' # {k}
      BY <2>3
    <3> QED BY <3>1, <3>2, <2>1 DEF LookupGood
  <2> QED BY <2>2, <2>3
<1> QED BY <1>1, <1>2

(* A lookup that waits now. *)
LEMMA WaitingGood ==
  ASSUME DnsInv, NEW l \in Lookups, dnsLock = {l}, dnsLock' = {}, lookup' = Waiting(l),
         \A k \in Lookups : (\E r \in requests' : k \in r.waiters)
                             <=> k = l \/ (\E r \in requests : k \in r.waiters)
  PROVE  lookup' \in [Lookups -> LookupState] /\ \A k \in Lookups : LookupGood(k)'
<1>1. lookup \in [Lookups -> LookupState] /\ LookupGood(l) /\ lookup[l] \in LookupState
  BY DEF DnsInv
<1>2. lookup' = [lookup EXCEPT ![l].pc = "waiting", ![l].held = TRUE]
  BY DEF Waiting
<1>3. lookup[l].pc = "missed" /\ lookup[l].calls = 0 /\ lookup[l].held = FALSE
  BY <1>1 DEF LookupGood, LookupState
<1>4. ASSUME NEW k \in Lookups
      PROVE  lookup'[k] \in LookupState /\ LookupGood(k)'
  <2>1. lookup[k] \in LookupState /\ LookupGood(k)
    BY DEF DnsInv
  <2>2. CASE k = l
    <3>1. lookup'[k] = [[lookup[l] EXCEPT !.pc = "waiting"] EXCEPT !.held = TRUE]
      BY <1>1, <1>2, <2>2
    <3>2. lookup'[k].pc = "waiting" /\ lookup'[k].calls = 0 /\ lookup'[k].held = TRUE
          /\ lookup'[k] \in LookupState
      BY <3>1, <1>1, <1>3 DEF LookupState
    <3> QED BY <3>2, <2>2 DEF LookupGood
  <2>3. CASE k # l
    <3>1. lookup'[k] = lookup[k]
      BY <1>1, <1>2, <2>3
    <3>2. dnsLock # {k} /\ dnsLock' # {k}
      BY <2>3
    <3> QED BY <3>1, <3>2, <2>1, <2>3 DEF LookupGood
  <2> QED BY <2>2, <2>3
<1> QED BY <1>1, <1>2, <1>4


LEMMA NotifyGood ==
  ASSUME DnsInv, NEW over, over \subseteq requests, NEW keep, keep \subseteq over,
         NotifyRequesters(over, keep), dnsLock' = dnsLock,
         \A l \in Lookups : (\E r \in requests' : l \in r.waiters)
                             <=> (\E r \in requests \ over : l \in r.waiters)
  PROVE  /\ lookup' \in [Lookups -> LookupState] /\ \A l \in Lookups : LookupGood(l)'
         /\ CacheGood(cache')
<1>1. lookup' \in [Lookups -> LookupState] /\ \A l \in Lookups : LookupGood(l)'
  BY CalledBack DEF NotifyRequesters
<1>2. CacheGood(cache')
  <2> DEFINE S == {r.host : r \in keep}
  <2>1. PICK hosts \in SetToSeqs(S) : cache' = CacheAdd(cache, hosts)
    BY DEF NotifyRequesters
  <2>2. S \subseteq Hosts
    BY DEF DnsInv, Request
  <2>3. IsFiniteSet(S)
    <3>1. IsFiniteSet(keep)
      BY FS_Subset DEF DnsInv
    <3> DEFINE f == [r \in keep |-> r.host]
    <3>2. f \in Surjection(keep, S)
      BY DEF Surjection
    <3> HIDE DEF f, S
    <3> QED BY <3>1, <3>2, FS_Surjection
  <2> HIDE DEF S
  <2> QED BY <2>1, <2>2, <2>3, CacheGrows DEF DnsInv
<1> QED BY <1>1, <1>2

LEMMA ResolveAtOnceStep ==
  ASSUME DnsInv, NEW l \in Lookups, ResolveAtOnce(l)
  PROVE  DnsInv'
<1>1. lookup' \in [Lookups -> LookupState] /\ \A k \in Lookups : LookupGood(k)'
  BY CalledAlone DEF ResolveAtOnce
<1> QED BY <1>1 DEF DnsInv, RequestsApart, ResolveAtOnce

LEMMA ResolveCachedStep ==
  ASSUME DnsInv, NEW l \in Lookups, NEW h \in Hosts, ResolveCached(l, h)
  PROVE  DnsInv'
<1>1. lookup' \in [Lookups -> LookupState] /\ \A k \in Lookups : LookupGood(k)'
  BY CalledAlone DEF ResolveCached
<1>2. CacheGood(cache')
  <2>1. CacheGood(cache) /\ FreshLen \in Nat /\ FreshLen <= Len(cache) /\ Len(cache) \in Nat
    BY FreshBound DEF DnsInv, CacheGood
  <2>2. CacheHits(h) \subseteq 1 .. Len(cache) /\ CacheHits(h) \subseteq Nat
    BY <2>1 DEF CacheHits
  <2>3. Min(CacheHits(h)) \in 1 .. Len(cache)
    BY <2>2, LeastOf DEF ResolveCached
  <2>4. CacheGood(RemoveAt(cache, Min(CacheHits(h))))
    BY <2>1, <2>3, CacheWithout
  <2> QED BY <2>1, <2>4 DEF ResolveCached
<1> QED BY <1>1, <1>2 DEF DnsInv, RequestsApart, ResolveCached

LEMMA ResolveMissedStep ==
  ASSUME DnsInv, NEW l \in Lookups, NEW h \in Hosts, ResolveMissed(l, h)
  PROVE  DnsInv'
<1>1. CacheGood(cache')
  BY FreshBound, CacheCut DEF DnsInv, ResolveMissed
<1>2. lookup' = [lookup EXCEPT ![l].pc = "missed", ![l].host = h]
  BY DEF ResolveMissed
<1>3. ASSUME NEW k \in Lookups
      PROVE  lookup'[k] \in LookupState /\ LookupGood(k)'
  <2>1. lookup[k] \in LookupState /\ LookupGood(k) /\ lookup \in [Lookups -> LookupState]
    BY DEF DnsInv
  <2>2. dnsLock = {} /\ dnsLock' = {l} /\ requests' = requests /\ lookup[l].pc = "new"
    BY DEF ResolveMissed
  <2>3. CASE k = l
    <3>1. lookup'[k] = [[lookup[k] EXCEPT !.pc = "missed"] EXCEPT !.host = h]
      BY <1>2, <2>1, <2>3
    <3>2. lookup[k].calls = 0 /\ ~lookup[k].held /\ ~ \E r \in requests : k \in r.waiters
      BY <2>1, <2>2, <2>3 DEF LookupGood
    <3>3. lookup'[k].pc = "missed" /\ lookup'[k].calls = 0 /\ ~lookup'[k].held
          /\ lookup'[k].host = h
      BY <3>1, <3>2, <2>1 DEF LookupState
    <3>4. lookup'[k] \in LookupState
      BY <3>1, <2>1 DEF LookupState
    <3> QED BY <3>2, <3>3, <3>4, <2>2, <2>3 DEF LookupGood
  <2>4. CASE k # l
    <3>1. lookup'[k] = lookup[k]
      BY <1>2, <2>1, <2>4
    <3>2. dnsLock # {k} /\ dnsLock' # {k}
      BY <2>2, <2>4
    <3> QED BY <3>1, <3>2, <2>1, <2>2 DEF LookupGood
  <2> QED BY <2>3, <2>4
<1>4. lookup' \in [Lookups -> LookupState]
  BY <1>2, <1>3 DEF DnsInv
<1> QED BY <1>1, <1>3, <1>4 DEF DnsInv, RequestsApart, ResolveMissed

LEMMA ResolveFailsStep ==
  ASSUME DnsInv, NEW l \in Lookups, ResolveFails(l)
  PROVE  DnsInv'
<1>1. lookup[l].pc = "missed"
  BY DEF DnsInv, LookupGood, ResolveFails
<1>2. lookup' \in [Lookups -> LookupState] /\ \A k \in Lookups : LookupGood(k)'
  BY <1>1, CalledAlone DEF ResolveFails
<1> QED BY <1>2 DEF DnsInv, RequestsApart, ResolveFails

LEMMA ResolveJoinStep ==
  ASSUME DnsInv, NEW l \in Lookups, ResolveJoin(l)
  PROVE  DnsInv'
<1>1. PICK r \in Same(lookup[l].host) :
        requests' = (requests \ {r}) \cup {[r EXCEPT !.waiters = @ \cup {l}]}
  BY DEF ResolveJoin
<1> DEFINE q == [r EXCEPT !.waiters = @ \cup {l}]
<1>2. r \in requests /\ r \in Request
  BY DEF Same, DnsInv
<1>3. q \in Request /\ q.id = r.id /\ q.host = r.host /\ q.waiters = r.waiters \cup {l}
  BY <1>2 DEF Request
<1> HIDE DEF q
<1>4. requests' = (requests \ {r}) \cup {q}
  BY <1>1 DEF q
<1>5. \A k \in Lookups : (\E p \in requests' : k \in p.waiters)
                           <=> k = l \/ (\E p \in requests : k \in p.waiters)
  BY <1>2, <1>3, <1>4
<1>6. lookup' \in [Lookups -> LookupState] /\ \A k \in Lookups : LookupGood(k)'
  BY <1>5, WaitingGood DEF ResolveJoin
<1>7. \A p \in requests : l \notin p.waiters
  BY DEF DnsInv, LookupGood, ResolveJoin
<1>8. RequestsApart'
  BY <1>2, <1>3, <1>4, <1>7 DEF DnsInv, RequestsApart
<1>9. requests' \subseteq Request /\ IsFiniteSet(requests')
  <2>1. IsFiniteSet(requests \ {r})
    BY FS_RemoveElement DEF DnsInv
  <2>2. IsFiniteSet(requests')
    BY <2>1, <1>4, FS_AddElement
  <2> QED BY <2>2, <1>3, <1>4 DEF DnsInv
<1> QED BY <1>6, <1>8, <1>9 DEF DnsInv, ResolveJoin

LEMMA ResolveNewStep ==
  ASSUME DnsInv, NEW l \in Lookups, ResolveNew(l)
  PROVE  DnsInv'
<1>1. PICK id \in Ids :
        /\ \A r \in requests : r.id # id
        /\ requests' = requests \cup
             {[id |-> id, host |-> lookup[l].host, waiters |-> {l}, age |-> 0]}
  BY DEF ResolveNew
<1> DEFINE q == [id |-> id, host |-> lookup[l].host, waiters |-> {l}, age |-> 0]
<1>2. lookup[l].host \in Hosts
  BY DEF DnsInv, LookupGood, ResolveNew
<1>3. q \in Request /\ q.id = id /\ q.host = lookup[l].host /\ q.waiters = {l}
  BY <1>2 DEF Request
<1> HIDE DEF q
<1>4. requests' = requests \cup {q}
  BY <1>1 DEF q
<1>5. \A k \in Lookups : (\E p \in requests' : k \in p.waiters)
                           <=> k = l \/ (\E p \in requests : k \in p.waiters)
  BY <1>3, <1>4
<1>6. lookup' \in [Lookups -> LookupState] /\ \A k \in Lookups : LookupGood(k)'
  BY <1>5, WaitingGood DEF ResolveNew
<1>7. \A p \in requests : l \notin p.waiters /\ p.host # lookup[l].host /\ p.id # id
  BY <1>1 DEF DnsInv, LookupGood, ResolveNew, Same
<1>8. RequestsApart'
  BY <1>3, <1>4, <1>7 DEF DnsInv, RequestsApart
<1>9. requests' \subseteq Request /\ IsFiniteSet(requests')
  BY <1>3, <1>4, FS_AddElement DEF DnsInv
<1> QED BY <1>6, <1>8, <1>9 DEF DnsInv, ResolveNew

LEMMA OnRecvStep ==
  ASSUME DnsInv, NEW a \in answers, OnRecvAnswer(a)
  PROVE  DnsInv'
<1>1. PICK r \in PullRequest(a.id) : \E keep \in ProcessDNSResponse(r) :
         requests' = requests \ {r} /\ NotifyRequesters({r}, keep)
  BY DEF OnRecvAnswer
<1>2. PICK keep \in ProcessDNSResponse(r) :
         requests' = requests \ {r} /\ NotifyRequesters({r}, keep)
  BY <1>1
<1>3. r \in requests /\ keep \subseteq {r} /\ dnsLock' = dnsLock
  BY DEF PullRequest, ProcessDNSResponse, OnRecvAnswer
<1>4. /\ lookup' \in [Lookups -> LookupState] /\ \A l \in Lookups : LookupGood(l)'
      /\ CacheGood(cache')
  <2>1. \A l \in Lookups : (\E q \in requests' : l \in q.waiters)
                            <=> (\E q \in requests \ {r} : l \in q.waiters)
    BY <1>2
  <2>2. {r} \subseteq requests /\ keep \subseteq {r}
    BY <1>3
  <2> QED BY <1>2, <1>3, <2>1, <2>2, NotifyGood
<1>5. IsFiniteSet(requests') /\ requests' \subseteq requests
  BY <1>2, FS_RemoveElement DEF DnsInv
<1> QED BY <1>4, <1>5 DEF DnsInv, RequestsApart

LEMMA OnTickStep ==
  ASSUME DnsInv, OnDnsTick
  PROVE  DnsInv'
<1>1. PICK unsent, keep \in SUBSET requests : DnsTick(unsent, keep)
  BY DEF OnDnsTick
<1> DEFINE over == Late \cup unsent
           left == requests \ over
<1>2. /\ over \subseteq requests /\ keep \subseteq over /\ requests' = Older(left)
      /\ NotifyRequesters(over, keep) /\ dnsLock' = dnsLock
  BY <1>1 DEF DnsTick, Late
<1>3. left \subseteq requests /\ IsFiniteSet(left)
  BY FS_Subset DEF DnsInv
<1> HIDE DEF over
<1>4. requests' = {[r EXCEPT !.age = @ + 1] : r \in left}
  BY <1>2 DEF Older
<1>5. ASSUME NEW r \in left
      PROVE  LET q == [r EXCEPT !.age = @ + 1]
             IN  q \in Request /\ q.id = r.id /\ q.host = r.host /\ q.waiters = r.waiters
  <2>1. r \in Request
    BY <1>3 DEF DnsInv
  <2> QED BY <2>1 DEF Request
<1>6. requests' \subseteq Request /\ RequestsApart'
      /\ \A l \in Lookups : (\E r \in requests' : l \in r.waiters)
                              <=> (\E r \in left : l \in r.waiters)
  <2> DEFINE q(r) == [r EXCEPT !.age = @ + 1]
  <2>1. requests' = {q(r) : r \in left}
    BY <1>4
  <2>2. \A r \in left : q(r) \in Request /\ q(r).id = r.id /\ q(r).host = r.host
                        /\ q(r).waiters = r.waiters
    BY <1>5
  <2> HIDE DEF q
  <2>3. requests' \subseteq Request
    BY <2>1, <2>2
  <2>4. RequestsApart'
    <3>1. SUFFICES ASSUME NEW r \in requests', NEW s \in requests', r # s
                   PROVE  r.id # s.id /\ r.host # s.host /\ r.waiters \cap s.waiters = {}
      BY DEF RequestsApart
    <3>2. PICK u \in left : r = q(u)
      BY <2>1
    <3>3. PICK v \in left : s = q(v)
      BY <2>1
    <3>4. u # v
      BY <3>1, <3>2, <3>3
    <3>5. u.id # v.id /\ u.host # v.host /\ u.waiters \cap v.waiters = {}
      BY <3>4, <1>3 DEF DnsInv, RequestsApart
    <3> QED BY <3>2, <3>3, <3>5, <2>2
  <2>5. \A l \in Lookups : (\E r \in requests' : l \in r.waiters)
                            <=> (\E r \in left : l \in r.waiters)
    BY <2>1, <2>2
  <2> QED BY <2>3, <2>4, <2>5
<1>7. IsFiniteSet(requests')
  <2> DEFINE f == [r \in left |-> [r EXCEPT !.age = @ + 1]]
  <2>1. f \in Surjection(left, requests')
    BY <1>4 DEF Surjection
  <2> HIDE DEF f, left
  <2> QED BY <1>3, <2>1, FS_Surjection
<1>8. /\ lookup' \in [Lookups -> LookupState] /\ \A l \in Lookups : LookupGood(l)'
      /\ CacheGood(cache')
  BY <1>2, <1>6, NotifyGood
<1> QED BY <1>6, <1>7, <1>8 DEF DnsInv

LEMMA CacheAgesStep ==
  ASSUME DnsInv, CacheAges
  PROVE  DnsInv'
<1> DEFINE d == [i \in DOMAIN cache |->
                   [cache[i] EXCEPT !.age = IF @ < CacheLife THEN @ + 1 ELSE @]]
<1>1. /\ Len(cache) \in Nat /\ DOMAIN cache = 1 .. Len(cache) /\ Len(cache) <= MaxCache
      /\ \A i \in 1 .. Len(cache) : cache[i] \in CacheEntry
  BY DEF DnsInv, CacheGood
<1>2. ASSUME NEW i \in 1 .. Len(cache)
      PROVE  /\ d[i] \in CacheEntry /\ cache[i].age \in Nat
             /\ d[i].age = IF cache[i].age < CacheLife THEN cache[i].age + 1 ELSE cache[i].age
  <2>1. cache[i] \in CacheEntry
    BY <1>1
  <2>2. d[i] = [cache[i] EXCEPT !.age = IF @ < CacheLife THEN @ + 1 ELSE @]
    BY <1>1
  <2> QED BY <2>1, <2>2 DEF CacheEntry
<1>3. d \in [1 .. Len(cache) -> CacheEntry]
  BY <1>1, <1>2
<1> HIDE DEF d
<1>4. d \in Seq(CacheEntry) /\ Len(d) = Len(cache)
  <2>1. d \in Seq(CacheEntry)
    BY <1>1, <1>3, SeqDef
  <2>2. DOMAIN d = 1 .. Len(cache)
    BY <1>3
  <2> QED BY <2>1, <2>2, <1>1, LenProperties
<1>5. AgeOrder(d)
  <2>1. SUFFICES ASSUME NEW i \in 1 .. Len(d), NEW j \in 1 .. Len(d), i < j
                 PROVE  d[i].age <= d[j].age
    BY DEF AgeOrder
  <2>2. cache[i].age <= cache[j].age
    BY <1>4, <2>1 DEF DnsInv, CacheGood, AgeOrder
  <2> QED BY <1>2, <1>4, <2>2, DnsAssumption
<1>6. CacheGood(cache')
  <2>1. cache' = d
    BY DEF CacheAges, d
  <2> QED BY <2>1, <1>1, <1>4, <1>5 DEF CacheGood
<1> QED BY <1>6 DEF DnsInv, RequestsApart, LookupGood, CacheAges

LEMMA FinalizedStep ==
  ASSUME DnsInv, EndpointFinalized
  PROVE  DnsInv'
<1>1. /\ requests' = {} /\ cache' = << >> /\ dnsLock' = dnsLock
      /\ lookup' = Called(lookup, UNION {r.waiters : r \in requests})
  BY DEF EndpointFinalized
<1>2. lookup' \in [Lookups -> LookupState] /\ \A l \in Lookups : LookupGood(l)'
  <2>1. \A l \in Lookups : (\E r \in requests' : l \in r.waiters)
                            <=> (\E r \in requests \ requests : l \in r.waiters)
    BY <1>1
  <2> QED BY <1>1, <2>1, CalledBack
<1>3. CacheGood(cache')
  BY <1>1, DnsAssumption DEF CacheGood, AgeOrder
<1>4. IsFiniteSet(requests')
  BY <1>1, FS_EmptySet
<1> QED BY <1>1, <1>2, <1>3, <1>4 DEF DnsInv, RequestsApart

LEMMA DnsStep == DnsInv /\ [DnsNext]_dnsVars => DnsInv'
<1> SUFFICES ASSUME DnsInv, [DnsNext]_dnsVars PROVE DnsInv'
  OBVIOUS
<1>1. CASE UNCHANGED dnsVars
  BY <1>1 DEF dnsVars, DnsInv, RequestsApart, LookupGood
<1>2. CASE \E l \in Lookups : \/ ResolveAtOnce(l) \/ ResolveStep(l)
                             \/ \E h \in Hosts : ResolveCached(l, h) \/ ResolveMissed(l, h)
  BY <1>2, ResolveAtOnceStep, ResolveCachedStep, ResolveMissedStep, ResolveJoinStep,
     ResolveNewStep, ResolveFailsStep DEF ResolveStep
<1>3. CASE \E a \in answers : OnRecvAnswer(a) \/ LoseAnswer(a)
  <2>1. ASSUME NEW a \in answers, LoseAnswer(a) PROVE DnsInv'
    BY <2>1 DEF LoseAnswer, DnsInv, RequestsApart, LookupGood
  <2> QED BY <1>3, <2>1, OnRecvStep
<1>4. CASE EndpointDestroyed
  BY <1>4 DEF EndpointDestroyed, DnsInv, RequestsApart, LookupGood
<1> QED BY <1>1, <1>2, <1>3, <1>4, OnTickStep, CacheAgesStep, FinalizedStep DEF DnsNext

LEMMA DnsInvSafe == DnsInv => DnsSafe
<1> SUFFICES ASSUME DnsInv PROVE DnsSafe
  OBVIOUS
<1>1. DnsCalledOnce
  <2>1. SUFFICES ASSUME NEW l \in Lookups
                 PROVE  Cardinality({r \in requests : l \in r.waiters})
                          = (IF lookup[l].pc = "waiting" THEN 1 ELSE 0)
    BY DEF DnsCalledOnce, DnsInv, LookupGood
  <2> DEFINE S == {r \in requests : l \in r.waiters}
  <2>2. CASE lookup[l].pc = "waiting"
    <3>1. PICK r \in requests : l \in r.waiters
      BY <2>2 DEF DnsInv, LookupGood
    <3>2. S = {r}
      BY <3>1 DEF DnsInv, RequestsApart
    <3> QED BY <3>2, <2>2, FS_Singleton
  <2>3. CASE lookup[l].pc # "waiting"
    <3>1. S = {}
      BY <2>3 DEF DnsInv, LookupGood
    <3> QED BY <3>1, <2>3, FS_EmptySet
  <2> QED BY <2>2, <2>3
<1>2. RequestsDiffer
  BY DEF RequestsDiffer, DnsInv, RequestsApart
<1>3. CacheByAge
  <2>1. DOMAIN cache = 1 .. Len(cache)
    BY DEF DnsInv, CacheGood
  <2> QED BY <2>1 DEF CacheByAge, DnsInv, CacheGood, AgeOrder
<1> QED BY <1>1, <1>2, <1>3 DEF DnsSafe

(* No lookup is lost, called twice or left without its reference, whatever
   order answers, retries, timeouts and the shutdown come in; no two pending
   requests have one id or one name; and the cache stays in the order of age,
   within its bound, so that CacheGet() frees nothing fresh (DNSClient.cpp). *)
THEOREM DnsCorrect == DnsSpec => []DnsSafe
<1>1. DnsInit => DnsInv
  BY DnsInitial
<1>2. DnsInv /\ [DnsNext]_dnsVars => DnsInv'
  BY DnsStep
<1>3. DnsInv => DnsSafe
  BY DnsInvSafe
<1> QED BY <1>1, <1>2, <1>3, PTL DEF DnsSpec

-----------------------------------------------------------------------------
(* Outstanding reads (UdpReads) *)

(* Sums over the posters *)
PairsOf(g, T) == UNION {{t} \X (1 .. g[t]) : t \in T}

LEMMA PairsFinite ==
  ASSUME NEW g \in [Posters -> Nat], NEW T \in SUBSET Posters
  PROVE  IsFiniteSet(PairsOf(g, T))
<1> DEFINE P(t) == {t} \X (1 .. g[t])
           F == [t \in T |-> P(t)]
           Q == {P(t) : t \in T}
<1>1. IsFiniteSet(T)
  BY UdpAssumption, FS_Subset
<1>2. \A t \in T : IsFiniteSet(P(t))
  <2> SUFFICES ASSUME NEW t \in T PROVE IsFiniteSet(P(t))
    OBVIOUS
  <2>1. IsFiniteSet({t}) /\ IsFiniteSet(1 .. g[t])
    <3>1. g[t] \in Nat
      OBVIOUS
    <3>2. IsFiniteSet(1 .. g[t])
      BY <3>1, FS_Interval
    <3> QED BY <3>2, FS_Singleton
  <2> QED BY <2>1, FS_Product
<1>3. IsFiniteSet(Q)
  <2>1. F \in Surjection(T, Q)
    BY DEF Surjection
  <2> HIDE DEF F, Q
  <2> QED BY <2>1, <1>1, FS_Surjection
<1>4. \A S \in Q : IsFiniteSet(S)
  BY <1>2
<1>5. IsFiniteSet(UNION Q)
  <2> HIDE DEF Q
  <2> QED BY <1>3, <1>4, FS_UNION
<1> QED BY <1>5 DEF PairsOf

LEMMA TogetherSplit ==
  ASSUME NEW g \in [Posters -> Nat], NEW t \in Posters
  PROVE  /\ Together(g) = Cardinality(PairsOf(g, Posters \ {t})) + g[t]
         /\ Together(g) \in Nat /\ Cardinality(PairsOf(g, Posters \ {t})) \in Nat
<1> DEFINE R == PairsOf(g, Posters \ {t})
           P == {t} \X (1 .. g[t])
<1>1. IsFiniteSet(R) /\ Cardinality(R) \in Nat
  BY PairsFinite, FS_CardinalityType
<1>2. IsFiniteSet(P) /\ Cardinality(P) = g[t]
  <2>1. IsFiniteSet({t}) /\ Cardinality({t}) = 1
    BY FS_Singleton
  <2>2. IsFiniteSet(1 .. g[t]) /\ Cardinality(1 .. g[t]) = g[t]
    <3>1. g[t] \in Nat
      OBVIOUS
    <3> QED BY <3>1, FS_Interval
  <2>3. IsFiniteSet(P) /\ Cardinality(P) = 1 * g[t]
    BY <2>1, <2>2, FS_Product
  <2> QED BY <2>3
<1>3. R \cap P = {}
  BY DEF PairsOf
<1>4. PairsOf(g, Posters) = R \cup P
  BY DEF PairsOf
<1> HIDE DEF R, P
<1>5. Cardinality(R \cup P) = Cardinality(R) + Cardinality(P) - Cardinality(R \cap P)
  BY <1>1, <1>2, FS_Union
<1>6. Cardinality(R \cap P) = 0
  BY <1>3, FS_EmptySet
<1>7. Together(g) = Cardinality(R \cup P)
  BY <1>4 DEF Together, PairsOf
<1>8. g[t] \in Nat
  OBVIOUS
<1> QED BY <1>1, <1>2, <1>5, <1>6, <1>7, <1>8 DEF R

LEMMA TogetherChanges ==
  ASSUME NEW g \in [Posters -> Nat], NEW h \in [Posters -> Nat], NEW t \in Posters,
         \A s \in Posters : s # t => h[s] = g[s]
  PROVE  Together(h) = (Together(g) - g[t]) + h[t]
<1>1. PairsOf(g, Posters \ {t}) = PairsOf(h, Posters \ {t})
  BY DEF PairsOf
<1>2. g[t] \in Nat /\ h[t] \in Nat
  OBVIOUS
<1> QED BY <1>1, <1>2, TogetherSplit

LEMMA TogetherZero ==
  ASSUME NEW g \in [Posters -> Nat], \A t \in Posters : g[t] = 0
  PROVE  Together(g) = 0
<1>1. PairsOf(g, Posters) = {}
  BY DEF PairsOf
<1> QED BY <1>1, FS_EmptySet DEF Together, PairsOf

-----------------------------------------------------------------------------
UdpFields == {"refs", "posted", "reads", "lent", "free", "lost", "sends", "shutdown", "failed",
              "freed"}
UdpTyped(u) == /\ DOMAIN u = UdpFields
               /\ u.refs \in Int /\ u.posted \in Int
               /\ u.reads \in Nat /\ u.lent \in Nat /\ u.free \in Nat /\ u.sends \in Nat
PosterFields == {"pc", "count", "set", "extra", "done"}
PosterGood(p) ==
  /\ DOMAIN p = PosterFields
  /\ p.count \in Nat /\ p.set \in Nat /\ p.extra \in Nat /\ p.done \in Nat
  /\ p.done <= p.count
  /\ p.pc = "rest" => p.count = 0 /\ p.extra = 0 /\ p.done = 0
  /\ p.pc = "post" => p.done = 0 /\ p.count <= p.set

PostersGood == posters \in [Posters -> {posters[t] : t \in Posters}]
               /\ \A t \in Posters : PosterGood(posters[t])

Owner(u) == IF u.shutdown THEN 0 ELSE 1

(* The counts are right when reuse references are in hand. *)
UdpCounts(u, reuse) ==
  /\ UdpTyped(u)
  /\ u.refs = Owner(u) + u.reads + u.lent + u.sends + Together(RefsHeld) + reuse
  /\ u.posted = u.reads - Together(Uncounted)
  /\ ~u.shutdown /\ ~u.failed => u.reads + u.lent + Together(ToPost) + reuse > 0

PostedAll == ~udp.failed => \A t \in Posters : posters[t].pc = "count" => posters[t].done = posters[t].count

UdpInv ==
  /\ PostersGood /\ PostedAll
  /\ UdpCounts(udp, 0)
  /\ udp.freed => udp.shutdown /\ udp.refs = 0

SumsGood ==
  /\ RefsHeld \in [Posters -> Nat] /\ Uncounted \in [Posters -> Nat] /\ ToPost \in [Posters -> Nat]
  /\ Together(RefsHeld) \in Nat /\ Together(Uncounted) \in Nat /\ Together(ToPost) \in Nat

LEMMA SumsTyped == ASSUME PostersGood PROVE SumsGood
<1>1. RefsHeld \in [Posters -> Nat]
  BY DEF RefsHeld, PostersGood, PosterGood
<1>2. Uncounted \in [Posters -> Nat]
  BY DEF Uncounted, PostersGood, PosterGood
<1>3. ToPost \in [Posters -> Nat]
  BY DEF ToPost, PostersGood, PosterGood
<1>4. IoThread \in Posters
  BY UdpAssumption
<1> QED BY <1>1, <1>2, <1>3, <1>4, TogetherSplit DEF SumsGood

LEMMA SumsGoodNext == PostersGood' => SumsGood'
<1>1. PostersGood => SumsGood
  BY SumsTyped
<1> QED BY <1>1, PTL

(* One poster moves on. *)
PosterMoved(t, q) ==
  /\ PostersGood'
  /\ \A s \in Posters : posters'[s] = IF s = t THEN q ELSE posters[s]
  /\ Together(RefsHeld') = (Together(RefsHeld)
       - (posters[t].extra + (posters[t].count - posters[t].done)))
       + (q.extra + (q.count - q.done))
  /\ Together(Uncounted') = (Together(Uncounted)
       - (IF posters[t].pc = "count" THEN posters[t].done ELSE 0))
       + (IF q.pc = "count" THEN q.done ELSE 0)
  /\ Together(ToPost') = (Together(ToPost) - (posters[t].count - posters[t].done))
       + (q.count - q.done)

LEMMA PosterMoves ==
  ASSUME PostersGood, NEW t \in Posters, NEW q, PosterGood(q),
         posters' = [posters EXCEPT ![t] = q]
  PROVE  PosterMoved(t, q)
<1>1. /\ \A s \in Posters : posters'[s] = IF s = t THEN q ELSE posters[s]
      /\ DOMAIN posters' = Posters
      /\ posters' = [s \in Posters |-> posters'[s]]
  BY DEF PostersGood
<1>2. PostersGood'
  <2>1. \A s \in Posters : PosterGood(posters'[s])
    BY <1>1 DEF PostersGood
  <2> QED BY <1>1, <2>1 DEF PostersGood
<1>3. RefsHeld' \in [Posters -> Nat] /\ Uncounted' \in [Posters -> Nat] /\ ToPost' \in [Posters -> Nat]
  BY <1>2, SumsGoodNext DEF SumsGood
<1>4. RefsHeld \in [Posters -> Nat] /\ Uncounted \in [Posters -> Nat] /\ ToPost \in [Posters -> Nat]
  BY SumsTyped DEF SumsGood
<1>5. /\ \A s \in Posters : s # t => RefsHeld'[s] = RefsHeld[s]
      /\ RefsHeld'[t] = q.extra + (q.count - q.done)
      /\ RefsHeld[t] = posters[t].extra + (posters[t].count - posters[t].done)
  BY <1>1 DEF RefsHeld
<1>6. /\ \A s \in Posters : s # t => Uncounted'[s] = Uncounted[s]
      /\ Uncounted'[t] = IF q.pc = "count" THEN q.done ELSE 0
      /\ Uncounted[t] = IF posters[t].pc = "count" THEN posters[t].done ELSE 0
  BY <1>1 DEF Uncounted
<1>7. /\ \A s \in Posters : s # t => ToPost'[s] = ToPost[s]
      /\ ToPost'[t] = q.count - q.done
      /\ ToPost[t] = posters[t].count - posters[t].done
  BY <1>1 DEF ToPost
<1>8. Together(RefsHeld') = (Together(RefsHeld) - RefsHeld[t]) + RefsHeld'[t]
  BY <1>3, <1>4, <1>5, TogetherChanges
<1>9. Together(Uncounted') = (Together(Uncounted) - Uncounted[t]) + Uncounted'[t]
  BY <1>3, <1>4, <1>6, TogetherChanges
<1>10. Together(ToPost') = (Together(ToPost) - ToPost[t]) + ToPost'[t]
  BY <1>3, <1>4, <1>7, TogetherChanges
<1> QED BY <1>1, <1>2, <1>5, <1>6, <1>7, <1>8, <1>9, <1>10 DEF PosterMoved

-----------------------------------------------------------------------------
(* PostReads() with the counts right and reuse references in hand leaves them
   right with none in hand. *)
LEMMA PostReadsCounts ==
  ASSUME PostersGood, PostedAll, NEW t \in Posters, posters[t].pc = "rest",
         NEW u, NEW reuse \in Nat, NEW limit \in Nat \ {0},
         UdpCounts(u, reuse), u.failed = udp.failed, ~u.freed, PostReads(t, u, limit, reuse)
  PROVE  UdpInv'
<1> DEFINE count == Least(Simultaneous - u.posted, limit)
           acquired == Least(count - reuse, u.free)
           p == posters[t]
<1>1. UdpTyped(u) /\ Simultaneous \in Nat \ {0} /\ PosterGood(p)
  BY UdpAssumption DEF UdpCounts, PostersGood
<1>2. p.count = 0 /\ p.extra = 0 /\ p.done = 0
  BY <1>1 DEF PosterGood
<1>3. count \in Int /\ (count <= 0 => u.posted >= 1)
  BY <1>1 DEF UdpTyped, Least
<1>4. acquired \in Int /\ (reuse < count => acquired \in Nat /\ acquired <= u.free)
  BY <1>1, <1>3 DEF UdpTyped, Least
<1>5. Together(RefsHeld) \in Nat /\ Together(Uncounted) \in Nat /\ Together(ToPost) \in Nat
  BY SumsTyped DEF SumsGood
<1>6. PostReads(t, u, limit, reuse) <=>
        IF u.shutdown \/ count <= 0
          THEN /\ udp' = [u EXCEPT !.refs = @ - reuse, !.lost = @ + reuse]
               /\ posters' = posters
        ELSE IF reuse < count
          THEN /\ udp' = [u EXCEPT !.free = @ - acquired, !.refs = @ + acquired]
               /\ posters' = [posters EXCEPT ![t] = [pc |-> "post", count |-> reuse + acquired,
                                set |-> reuse + acquired, extra |-> 0, done |-> 0]]
        ELSE /\ udp' = u
             /\ posters' = [posters EXCEPT ![t] = [pc |-> "post", count |-> count,
                              set |-> reuse, extra |-> reuse - count, done |-> 0]]
  BY DEF PostReads
<1> HIDE DEF count, acquired
<1>7. CASE u.shutdown \/ count <= 0
  <2>1. udp' = [u EXCEPT !.refs = @ - reuse, !.lost = @ + reuse] /\ posters' = posters
    BY <1>6, <1>7
  <2>2. /\ DOMAIN udp' = UdpFields /\ udp'.refs = u.refs - reuse /\ udp'.posted = u.posted
        /\ udp'.reads = u.reads /\ udp'.lent = u.lent /\ udp'.free = u.free /\ udp'.sends = u.sends
    BY <2>1, <1>1 DEF UdpTyped, UdpFields
  <2>3. udp'.shutdown = u.shutdown /\ udp'.failed = u.failed /\ udp'.freed = u.freed
    BY <2>1, <1>1 DEF UdpTyped, UdpFields
  <2>4. RefsHeld' = RefsHeld /\ Uncounted' = Uncounted /\ ToPost' = ToPost /\ PostersGood'
    BY <2>1 DEF RefsHeld, Uncounted, ToPost, PostersGood
  <2>5. UdpTyped(udp')
    BY <2>2, <1>1 DEF UdpTyped
  <2>6. udp'.refs = Owner(udp') + udp'.reads + udp'.lent + udp'.sends + Together(RefsHeld') + 0
    BY <2>2, <2>3, <2>4, <1>1, <1>5 DEF UdpCounts, Owner, UdpTyped
  <2>7. udp'.posted = udp'.reads - Together(Uncounted')
    BY <2>2, <2>4 DEF UdpCounts
  <2>8. ASSUME ~udp'.shutdown, ~udp'.failed
        PROVE  udp'.reads + udp'.lent + Together(ToPost') + 0 > 0
    <3>1. u.posted >= 1
      BY <1>3, <1>7, <2>3, <2>8
    <3>2. u.reads >= 1
      BY <3>1, <1>1, <1>5 DEF UdpCounts, UdpTyped
    <3> QED BY <3>2, <2>2, <2>4, <1>1, <1>5 DEF UdpTyped
  <2>9. PostedAll'
    BY <2>1, <2>3 DEF PostedAll
  <2>10. UdpCounts(udp, 0)'
    BY <2>5, <2>6, <2>7, <2>8 DEF UdpCounts
  <2> QED BY <2>3, <2>4, <2>9, <2>10 DEF UdpInv
<1>8. CASE ~(u.shutdown \/ count <= 0) /\ reuse < count
  <2> DEFINE q == [pc |-> "post", count |-> reuse + acquired, set |-> reuse + acquired,
                   extra |-> 0, done |-> 0]
  <2>1. udp' = [u EXCEPT !.free = @ - acquired, !.refs = @ + acquired]
        /\ posters' = [posters EXCEPT ![t] = q]
    BY <1>6, <1>8
  <2>2. /\ PosterGood(q) /\ q.extra + (q.count - q.done) = reuse + acquired
        /\ q.count - q.done = reuse + acquired /\ q.pc = "post"
    BY <1>4, <1>8 DEF PosterGood, PosterFields
  <2> HIDE DEF q
  <2>3. /\ PostersGood' /\ \A s \in Posters : posters'[s] = IF s = t THEN q ELSE posters[s]
        /\ Together(RefsHeld') = Together(RefsHeld) + (reuse + acquired)
        /\ Together(Uncounted') = Together(Uncounted)
        /\ Together(ToPost') = Together(ToPost) + (reuse + acquired)
    <3>1. PosterMoved(t, q)
      BY <2>1, <2>2, PosterMoves
    <3>2. Together(RefsHeld') = Together(RefsHeld) + (reuse + acquired)
      BY <3>1, <2>2, <1>2, <1>5 DEF PosterMoved
    <3>3. Together(Uncounted') = Together(Uncounted)
      BY <3>1, <2>2, <1>2, <1>5 DEF PosterMoved
    <3>4. Together(ToPost') = Together(ToPost) + (reuse + acquired)
      BY <3>1, <2>2, <1>2, <1>5 DEF PosterMoved
    <3> QED BY <3>1, <3>2, <3>3, <3>4 DEF PosterMoved
  <2>4. /\ DOMAIN udp' = UdpFields /\ udp'.refs = u.refs + acquired /\ udp'.posted = u.posted
        /\ udp'.reads = u.reads /\ udp'.lent = u.lent /\ udp'.free = u.free - acquired
        /\ udp'.sends = u.sends
    BY <2>1, <1>1 DEF UdpTyped, UdpFields
  <2>5. udp'.shutdown = u.shutdown /\ udp'.failed = u.failed /\ udp'.freed = u.freed
    BY <2>1, <1>1 DEF UdpTyped, UdpFields
  <2>6. acquired \in Nat /\ acquired <= u.free
    BY <1>4, <1>8
  <2>7. UdpTyped(udp')
    BY <2>4, <2>6, <1>1 DEF UdpTyped
  <2>8. udp'.refs = Owner(udp') + udp'.reads + udp'.lent + udp'.sends + Together(RefsHeld') + 0
    BY <2>3, <2>4, <2>5, <2>6, <1>1, <1>5 DEF UdpCounts, Owner, UdpTyped
  <2>9. udp'.posted = udp'.reads - Together(Uncounted')
    BY <2>3, <2>4 DEF UdpCounts
  <2>10. ASSUME ~udp'.shutdown, ~udp'.failed
         PROVE  udp'.reads + udp'.lent + Together(ToPost') + 0 > 0
    BY <2>3, <2>4, <2>5, <2>6, <2>10, <1>1, <1>5 DEF UdpCounts, UdpTyped
  <2>11. PostedAll'
    BY <2>2, <2>3, <2>5 DEF PostedAll
  <2>12. UdpCounts(udp, 0)'
    BY <2>7, <2>8, <2>9, <2>10 DEF UdpCounts
  <2> QED BY <2>3, <2>5, <2>11, <2>12 DEF UdpInv
<1>9. CASE ~(u.shutdown \/ count <= 0) /\ ~(reuse < count)
  <2> DEFINE q == [pc |-> "post", count |-> count, set |-> reuse,
                   extra |-> reuse - count, done |-> 0]
  <2>1. udp' = u /\ posters' = [posters EXCEPT ![t] = q]
    BY <1>6, <1>9
  <2>2. /\ PosterGood(q) /\ q.extra + (q.count - q.done) = reuse
        /\ q.count - q.done = count /\ q.pc = "post"
    BY <1>3, <1>9 DEF PosterGood, PosterFields
  <2> HIDE DEF q
  <2>3. /\ PostersGood' /\ \A s \in Posters : posters'[s] = IF s = t THEN q ELSE posters[s]
        /\ Together(RefsHeld') = Together(RefsHeld) + reuse
        /\ Together(Uncounted') = Together(Uncounted)
        /\ Together(ToPost') = Together(ToPost) + count
    <3>1. PosterMoved(t, q)
      BY <2>1, <2>2, PosterMoves
    <3>2. Together(RefsHeld') = Together(RefsHeld) + reuse
      BY <3>1, <2>2, <1>2, <1>5 DEF PosterMoved
    <3>3. Together(Uncounted') = Together(Uncounted)
      BY <3>1, <2>2, <1>2, <1>5 DEF PosterMoved
    <3>4. Together(ToPost') = Together(ToPost) + count
      BY <3>1, <2>2, <1>2, <1>3, <1>5 DEF PosterMoved
    <3> QED BY <3>1, <3>2, <3>3, <3>4 DEF PosterMoved
  <2>4. udp'.refs = Owner(udp') + udp'.reads + udp'.lent + udp'.sends + Together(RefsHeld') + 0
    BY <2>1, <2>3, <1>1, <1>5 DEF UdpCounts, Owner, UdpTyped
  <2>5. udp'.posted = udp'.reads - Together(Uncounted')
    BY <2>1, <2>3 DEF UdpCounts
  <2>6. udp'.reads + udp'.lent + Together(ToPost') + 0 > 0
    BY <2>1, <2>3, <1>1, <1>3, <1>5, <1>9 DEF UdpTyped
  <2>7. PostedAll'
    BY <2>1, <2>2, <2>3 DEF PostedAll
  <2>8. UdpCounts(udp, 0)'
    BY <2>1, <1>1, <2>4, <2>5, <2>6 DEF UdpCounts
  <2> QED BY <2>1, <2>3, <2>7, <2>8 DEF UdpInv
<1> QED BY <1>7, <1>8, <1>9

(* Before a poster begins: the state is right, and a field of the endpoint changes. *)
LEMMA UdpInvFacts ==
  ASSUME UdpInv
  PROVE  /\ PostersGood /\ PostedAll /\ UdpTyped(udp)
         /\ Together(RefsHeld) \in Nat /\ Together(Uncounted) \in Nat /\ Together(ToPost) \in Nat
         /\ udp.refs = Owner(udp) + udp.reads + udp.lent + udp.sends + Together(RefsHeld)
         /\ udp.posted = udp.reads - Together(Uncounted)
         /\ ~udp.shutdown /\ ~udp.failed => udp.reads + udp.lent + Together(ToPost) > 0
         /\ udp.freed => udp.shutdown /\ udp.refs = 0
         /\ Owner(udp) \in Nat
<1>1. Together(RefsHeld) \in Nat /\ Together(Uncounted) \in Nat /\ Together(ToPost) \in Nat
  BY SumsTyped DEF SumsGood, UdpInv
<1> QED BY <1>1 DEF UdpInv, UdpCounts, Owner, UdpTyped

(* The posters rest, and the counts of the endpoint stay right. *)
LEMMA UdpAlone ==
  ASSUME PostersGood, PostedAll, posters' = posters, UdpCounts(udp', 0),
         udp.failed = udp'.failed, udp'.freed => udp'.shutdown /\ udp'.refs = 0
  PROVE  UdpInv'
<1>1. RefsHeld' = RefsHeld /\ Uncounted' = Uncounted /\ ToPost' = ToPost /\ PostersGood'
  BY DEF RefsHeld, Uncounted, ToPost, PostersGood
<1>2. UdpCounts(udp, 0)'
  BY <1>1 DEF UdpCounts
<1>3. PostedAll'
  BY DEF PostedAll
<1> QED BY <1>1, <1>2, <1>3 DEF UdpInv

LEMMA ReadsCompleteStep ==
  ASSUME UdpInv, NEW n \in Nat, ReadsComplete(n)
  PROVE  UdpInv'
<1> DEFINE u == [udp EXCEPT !.reads = @ - n, !.posted = @ - n]
<1>1. /\ PostersGood /\ PostedAll /\ UdpTyped(udp)
      /\ Together(RefsHeld) \in Nat /\ Together(Uncounted) \in Nat /\ Together(ToPost) \in Nat
      /\ udp.refs = Owner(udp) + udp.reads + udp.lent + udp.sends + Together(RefsHeld)
      /\ udp.posted = udp.reads - Together(Uncounted) /\ Owner(udp) \in Nat
  BY UdpInvFacts
<1>2. n \in 1 .. udp.reads /\ posters[IoThread].pc = "rest" /\ ~udp.freed /\ IoThread \in Posters
  BY UdpAssumption DEF ReadsComplete, MayAct
<1>3. /\ DOMAIN u = UdpFields /\ u.refs = udp.refs /\ u.posted = udp.posted - n
      /\ u.reads = udp.reads - n /\ u.lent = udp.lent /\ u.free = udp.free /\ u.sends = udp.sends
  BY <1>1 DEF UdpTyped, UdpFields
<1>4. u.shutdown = udp.shutdown /\ u.failed = udp.failed /\ u.freed = udp.freed
  BY <1>1 DEF UdpTyped, UdpFields
<1>5. IF udp.shutdown
        THEN udp' = [u EXCEPT !.free = @ + n, !.refs = @ - n] /\ posters' = posters
        ELSE PostReads(IoThread, [u EXCEPT !.lent = @ + n], Simultaneous, 0)
  BY DEF ReadsComplete
<1> HIDE DEF u
<1>6. CASE udp.shutdown
  <2>1. udp' = [u EXCEPT !.free = @ + n, !.refs = @ - n] /\ posters' = posters
    BY <1>5, <1>6
  <2>2. /\ DOMAIN udp' = UdpFields /\ udp'.refs = u.refs - n /\ udp'.posted = u.posted
        /\ udp'.reads = u.reads /\ udp'.lent = u.lent /\ udp'.free = u.free + n
        /\ udp'.sends = u.sends
    BY <2>1, <1>3 DEF UdpFields
  <2>3. udp'.shutdown = u.shutdown /\ udp'.failed = u.failed /\ udp'.freed = u.freed
    BY <2>1, <1>3 DEF UdpFields
  <2>4. UdpTyped(udp')
    BY <2>2, <1>1, <1>2, <1>3 DEF UdpTyped
  <2>5. Owner(udp') = Owner(udp)
    BY <2>3, <1>4 DEF Owner
  <2>6. UdpCounts(udp', 0)
    BY <2>2, <2>3, <2>4, <2>5, <1>1, <1>2, <1>3, <1>4, <1>6 DEF UdpCounts, UdpTyped
  <2> QED BY <2>1, <2>3, <2>6, <1>1, <1>2, <1>4, UdpAlone
<1>7. CASE ~udp.shutdown
  <2> DEFINE v == [u EXCEPT !.lent = @ + n]
  <2>1. PostReads(IoThread, v, Simultaneous, 0)
    BY <1>5, <1>7
  <2>2. /\ DOMAIN v = UdpFields /\ v.refs = u.refs /\ v.posted = u.posted
        /\ v.reads = u.reads /\ v.lent = u.lent + n /\ v.free = u.free /\ v.sends = u.sends
    BY <1>3 DEF UdpFields
  <2>3. v.shutdown = u.shutdown /\ v.failed = u.failed /\ v.freed = u.freed
    BY <1>3 DEF UdpFields
  <2> HIDE DEF v
  <2>4. UdpTyped(v)
    BY <2>2, <1>1, <1>2, <1>3 DEF UdpTyped
  <2>5. Owner(v) = Owner(udp)
    BY <2>3, <1>4 DEF Owner
  <2>6. UdpCounts(v, 0)
    BY <2>2, <2>3, <2>4, <2>5, <1>1, <1>2, <1>3, <1>4 DEF UdpCounts, UdpTyped
  <2>7. v.failed = udp.failed /\ ~v.freed /\ Simultaneous \in Nat \ {0}
    BY <2>3, <1>4, <1>2, UdpAssumption
  <2> QED BY <2>1, <2>6, <2>7, <1>1, <1>2, PostReadsCounts
<1> QED BY <1>6, <1>7

LEMMA ReleaseStep ==
  ASSUME UdpInv, NEW t \in Posters, NEW n \in Nat, ReleaseRecvBuffers(t, n)
  PROVE  UdpInv'
<1> DEFINE v == [udp EXCEPT !.lent = @ - n]
<1>1. /\ PostersGood /\ PostedAll /\ UdpTyped(udp)
      /\ Together(RefsHeld) \in Nat /\ Together(Uncounted) \in Nat /\ Together(ToPost) \in Nat
      /\ udp.refs = Owner(udp) + udp.reads + udp.lent + udp.sends + Together(RefsHeld)
      /\ udp.posted = udp.reads - Together(Uncounted) /\ Owner(udp) \in Nat
      /\ ~udp.shutdown /\ ~udp.failed => udp.reads + udp.lent + Together(ToPost) > 0
  BY UdpInvFacts
<1>2. n \in 1 .. udp.lent /\ posters[t].pc = "rest" /\ ~udp.freed /\ PostReads(t, v, PostLimit, n)
  BY DEF ReleaseRecvBuffers, MayAct
<1>3. /\ DOMAIN v = UdpFields /\ v.refs = udp.refs /\ v.posted = udp.posted
      /\ v.reads = udp.reads /\ v.lent = udp.lent - n /\ v.free = udp.free /\ v.sends = udp.sends
  BY <1>1 DEF UdpTyped, UdpFields
<1>4. v.shutdown = udp.shutdown /\ v.failed = udp.failed /\ v.freed = udp.freed
  BY <1>1 DEF UdpTyped, UdpFields
<1> HIDE DEF v
<1>5. UdpTyped(v)
  BY <1>1, <1>2, <1>3 DEF UdpTyped
<1>6. Owner(v) = Owner(udp)
  BY <1>4 DEF Owner
<1>7. UdpCounts(v, n)
  BY <1>1, <1>2, <1>3, <1>4, <1>5, <1>6 DEF UdpCounts, UdpTyped
<1>8. v.failed = udp.failed /\ ~v.freed /\ PostLimit \in Nat \ {0}
  BY <1>2, <1>4, UdpAssumption
<1> QED BY <1>1, <1>2, <1>7, <1>8, PostReadsCounts

LEMMA UdpWriteStep ==
  ASSUME UdpInv, NEW t \in Posters, NEW written \in BOOLEAN, UdpWrite(t, written)
  PROVE  UdpInv'
<1> DEFINE v == IF written THEN [udp EXCEPT !.sends = @ + 1, !.refs = @ + 1] ELSE udp
<1>1. /\ PostersGood /\ PostedAll /\ UdpTyped(udp)
      /\ Together(RefsHeld) \in Nat /\ Together(Uncounted) \in Nat /\ Together(ToPost) \in Nat
      /\ udp.refs = Owner(udp) + udp.reads + udp.lent + udp.sends + Together(RefsHeld)
      /\ udp.posted = udp.reads - Together(Uncounted) /\ Owner(udp) \in Nat
      /\ ~udp.shutdown /\ ~udp.failed => udp.reads + udp.lent + Together(ToPost) > 0
  BY UdpInvFacts
<1>2. posters[t].pc = "rest" /\ ~udp.freed /\ PostReads(t, v, PostLimit, 0)
  BY DEF UdpWrite, MayAct
<1>3. /\ DOMAIN v = UdpFields /\ v.posted = udp.posted
      /\ v.reads = udp.reads /\ v.lent = udp.lent /\ v.free = udp.free
      /\ v.sends = udp.sends + (IF written THEN 1 ELSE 0)
      /\ v.refs = udp.refs + (IF written THEN 1 ELSE 0)
  <2>1. CASE written
    BY <2>1, <1>1 DEF UdpTyped, UdpFields
  <2>2. CASE ~written
    BY <2>2, <1>1 DEF UdpTyped
  <2> QED BY <2>1, <2>2
<1>4. v.shutdown = udp.shutdown /\ v.failed = udp.failed /\ v.freed = udp.freed
  BY <1>1 DEF UdpTyped, UdpFields
<1> HIDE DEF v
<1>5. UdpTyped(v)
  BY <1>1, <1>3 DEF UdpTyped
<1>6. Owner(v) = Owner(udp)
  BY <1>4 DEF Owner
<1>7. UdpCounts(v, 0)
  BY <1>1, <1>3, <1>4, <1>5, <1>6 DEF UdpCounts, UdpTyped
<1>8. v.failed = udp.failed /\ ~v.freed /\ PostLimit \in Nat \ {0}
  BY <1>2, <1>4, UdpAssumption
<1> QED BY <1>1, <1>2, <1>7, <1>8, PostReadsCounts

LEMMA WritesCompleteStep ==
  ASSUME UdpInv, NEW n \in Nat, WritesComplete(n)
  PROVE  UdpInv'
<1>1. /\ PostersGood /\ PostedAll /\ UdpTyped(udp)
      /\ Together(RefsHeld) \in Nat /\ Together(Uncounted) \in Nat /\ Together(ToPost) \in Nat
      /\ udp.refs = Owner(udp) + udp.reads + udp.lent + udp.sends + Together(RefsHeld)
      /\ udp.posted = udp.reads - Together(Uncounted) /\ Owner(udp) \in Nat
      /\ ~udp.shutdown /\ ~udp.failed => udp.reads + udp.lent + Together(ToPost) > 0
  BY UdpInvFacts
<1>2. /\ n \in 1 .. udp.sends /\ ~udp.freed /\ posters' = posters
      /\ udp' = [udp EXCEPT !.sends = @ - n, !.refs = @ - n]
  BY DEF WritesComplete, MayAct
<1>3. /\ DOMAIN udp' = UdpFields /\ udp'.refs = udp.refs - n /\ udp'.posted = udp.posted
      /\ udp'.reads = udp.reads /\ udp'.lent = udp.lent /\ udp'.free = udp.free
      /\ udp'.sends = udp.sends - n
  BY <1>1, <1>2 DEF UdpTyped, UdpFields
<1>4. udp'.shutdown = udp.shutdown /\ udp'.failed = udp.failed /\ udp'.freed = udp.freed
  BY <1>1, <1>2 DEF UdpTyped, UdpFields
<1>5. UdpTyped(udp')
  BY <1>1, <1>2, <1>3 DEF UdpTyped
<1>6. Owner(udp') = Owner(udp)
  BY <1>4 DEF Owner
<1>7. UdpCounts(udp', 0)
  BY <1>1, <1>2, <1>3, <1>4, <1>5, <1>6 DEF UdpCounts, UdpTyped
<1> QED BY <1>1, <1>2, <1>4, <1>7, UdpAlone

LEMMA UdpDestroyStep ==
  ASSUME UdpInv, UdpDestroy
  PROVE  UdpInv'
<1>1. /\ PostersGood /\ PostedAll /\ UdpTyped(udp)
      /\ Together(RefsHeld) \in Nat /\ Together(Uncounted) \in Nat /\ Together(ToPost) \in Nat
      /\ udp.refs = Owner(udp) + udp.reads + udp.lent + udp.sends + Together(RefsHeld)
      /\ udp.posted = udp.reads - Together(Uncounted)
      /\ udp.freed => udp.shutdown
  BY UdpInvFacts
<1>2. ~udp.shutdown /\ posters' = posters /\ udp' = [udp EXCEPT !.shutdown = TRUE, !.refs = @ - 1]
  BY DEF UdpDestroy
<1>3. /\ DOMAIN udp' = UdpFields /\ udp'.refs = udp.refs - 1 /\ udp'.posted = udp.posted
      /\ udp'.reads = udp.reads /\ udp'.lent = udp.lent /\ udp'.free = udp.free
      /\ udp'.sends = udp.sends
  BY <1>1, <1>2 DEF UdpTyped, UdpFields
<1>4. udp'.failed = udp.failed /\ udp'.freed = udp.freed
  BY <1>1, <1>2 DEF UdpTyped, UdpFields
<1>5. udp'.shutdown
  BY <1>1, <1>2 DEF UdpTyped, UdpFields
<1>6. UdpTyped(udp')
  BY <1>1, <1>3 DEF UdpTyped
<1>7. Owner(udp) = 1 /\ Owner(udp') = 0
  BY <1>2, <1>5 DEF Owner
<1>8. UdpCounts(udp', 0)
  BY <1>1, <1>3, <1>5, <1>6, <1>7 DEF UdpCounts, UdpTyped
<1> QED BY <1>1, <1>2, <1>4, <1>8, UdpAlone

LEMMA UdpFinalizeStep ==
  ASSUME UdpInv, UdpFinalize
  PROVE  UdpInv'
<1>1. /\ PostersGood /\ PostedAll /\ UdpTyped(udp) /\ UdpCounts(udp, 0)
  BY UdpInvFacts DEF UdpInv
<1>2. /\ udp.shutdown /\ udp.refs = 0 /\ posters' = posters
      /\ udp' = [udp EXCEPT !.freed = TRUE]
  BY DEF UdpFinalize
<1>3. /\ DOMAIN udp' = UdpFields /\ udp'.refs = udp.refs /\ udp'.posted = udp.posted
      /\ udp'.reads = udp.reads /\ udp'.lent = udp.lent /\ udp'.free = udp.free
      /\ udp'.sends = udp.sends
  BY <1>1, <1>2 DEF UdpTyped, UdpFields
<1>4. udp'.failed = udp.failed /\ udp'.shutdown = udp.shutdown
  BY <1>1, <1>2 DEF UdpTyped, UdpFields
<1>5. UdpCounts(udp', 0)
  BY <1>1, <1>3, <1>4 DEF UdpCounts, Owner, UdpTyped
<1> QED BY <1>1, <1>2, <1>3, <1>4, <1>5, UdpAlone

LEMMA PostEachStep ==
  ASSUME UdpInv, NEW t \in Posters, NEW n \in Nat, PostEach(t, n)
  PROVE  UdpInv'
<1> DEFINE p == posters[t]
           q == [p EXCEPT !.pc = "count", !.done = n, !.set = @ - n]
<1>1. /\ PostersGood /\ PostedAll /\ UdpTyped(udp)
      /\ Together(RefsHeld) \in Nat /\ Together(Uncounted) \in Nat /\ Together(ToPost) \in Nat
      /\ udp.refs = Owner(udp) + udp.reads + udp.lent + udp.sends + Together(RefsHeld)
      /\ udp.posted = udp.reads - Together(Uncounted) /\ Owner(udp) \in Nat
      /\ ~udp.shutdown /\ ~udp.failed => udp.reads + udp.lent + Together(ToPost) > 0
      /\ udp.freed => udp.shutdown /\ udp.refs = 0
  BY UdpInvFacts
<1>2. /\ p.pc = "post" /\ n <= p.count /\ (udp.shutdown => n = 0)
      /\ udp' = [udp EXCEPT !.reads = @ + n, !.failed = @ \/ n < p.count]
      /\ posters' = [posters EXCEPT ![t] = q]
  BY DEF PostEach
<1>3. PosterGood(p)
  BY <1>1 DEF PostersGood
<1>4. p.done = 0 /\ p.count <= p.set /\ p.count \in Nat /\ p.extra \in Nat /\ p.set \in Nat
  BY <1>2, <1>3 DEF PosterGood
<1>5. DOMAIN q = PosterFields /\ q.pc = "count" /\ q.count = p.count /\ q.extra = p.extra
      /\ q.done = n /\ q.set = p.set - n
  BY <1>3 DEF PosterGood, PosterFields
<1> HIDE DEF p, q
<1>6. PosterGood(q)
  BY <1>2, <1>4, <1>5 DEF PosterGood
<1>7. /\ PostersGood' /\ \A s \in Posters : posters'[s] = IF s = t THEN q ELSE posters[s]
      /\ Together(RefsHeld') = Together(RefsHeld) - n
      /\ Together(Uncounted') = Together(Uncounted) + n
      /\ Together(ToPost') = Together(ToPost) - n
  <2>1. PosterMoved(t, q)
    BY <1>1, <1>2, <1>6, PosterMoves
  <2>2. Together(RefsHeld') = Together(RefsHeld) - n
    BY <2>1, <1>1, <1>2, <1>4, <1>5 DEF PosterMoved, p
  <2>3. Together(Uncounted') = Together(Uncounted) + n
    BY <2>1, <1>1, <1>2, <1>4, <1>5 DEF PosterMoved, p
  <2>4. Together(ToPost') = Together(ToPost) - n
    BY <2>1, <1>1, <1>2, <1>4, <1>5 DEF PosterMoved, p
  <2> QED BY <2>1, <2>2, <2>3, <2>4 DEF PosterMoved
<1>8. /\ DOMAIN udp' = UdpFields /\ udp'.refs = udp.refs /\ udp'.posted = udp.posted
      /\ udp'.reads = udp.reads + n /\ udp'.lent = udp.lent /\ udp'.free = udp.free
      /\ udp'.sends = udp.sends
  BY <1>1, <1>2 DEF UdpTyped, UdpFields
<1>9. udp'.shutdown = udp.shutdown /\ udp'.freed = udp.freed
  BY <1>1, <1>2 DEF UdpTyped, UdpFields
<1>10. udp'.failed <=> udp.failed \/ n < p.count
  BY <1>1, <1>2 DEF UdpTyped, UdpFields
<1>11. UdpTyped(udp')
  BY <1>1, <1>8 DEF UdpTyped
<1>12. Owner(udp') = Owner(udp)
  BY <1>9 DEF Owner
<1>13. UdpCounts(udp, 0)'
  <2>1. udp'.refs = Owner(udp') + udp'.reads + udp'.lent + udp'.sends + Together(RefsHeld') + 0
    BY <1>1, <1>7, <1>8, <1>12 DEF UdpTyped
  <2>2. udp'.posted = udp'.reads - Together(Uncounted')
    BY <1>1, <1>7, <1>8 DEF UdpTyped
  <2>3. ~udp'.shutdown /\ ~udp'.failed => udp'.reads + udp'.lent + Together(ToPost') + 0 > 0
    BY <1>1, <1>7, <1>8, <1>9, <1>10 DEF UdpTyped
  <2> QED BY <1>11, <2>1, <2>2, <2>3 DEF UdpCounts
<1>14. PostedAll'
  BY <1>1, <1>2, <1>4, <1>5, <1>7, <1>10 DEF PostedAll
<1>15. udp'.freed => udp'.shutdown /\ udp'.refs = 0
  BY <1>1, <1>8, <1>9
<1> QED BY <1>7, <1>13, <1>14, <1>15 DEF UdpInv

LEMMA PostCountedStep ==
  ASSUME UdpInv, NEW t \in Posters, PostCounted(t)
  PROVE  UdpInv'
<1> DEFINE p == posters[t]
<1>1. /\ PostersGood /\ PostedAll /\ UdpTyped(udp)
      /\ Together(RefsHeld) \in Nat /\ Together(Uncounted) \in Nat /\ Together(ToPost) \in Nat
      /\ udp.refs = Owner(udp) + udp.reads + udp.lent + udp.sends + Together(RefsHeld)
      /\ udp.posted = udp.reads - Together(Uncounted) /\ Owner(udp) \in Nat
      /\ ~udp.shutdown /\ ~udp.failed => udp.reads + udp.lent + Together(ToPost) > 0
      /\ udp.freed => udp.shutdown /\ udp.refs = 0
  BY UdpInvFacts
<1>2. /\ p.pc = "count"
      /\ udp' = [udp EXCEPT !.posted = @ + p.done, !.free = @ + p.set,
                            !.refs = @ - (p.extra + p.count - p.done)]
      /\ posters' = [posters EXCEPT ![t] = Resting]
  BY DEF PostCounted
<1>3. PosterGood(p)
  BY <1>1 DEF PostersGood
<1>4. p.count \in Nat /\ p.extra \in Nat /\ p.set \in Nat /\ p.done \in Nat /\ p.done <= p.count
  BY <1>3 DEF PosterGood
<1>5. PosterGood(Resting) /\ Resting.pc = "rest" /\ Resting.count = 0 /\ Resting.extra = 0
      /\ Resting.done = 0
  BY DEF PosterGood, Resting, PosterFields
<1>6. ~udp.failed => p.done = p.count
  BY <1>1, <1>2 DEF PostedAll
<1> HIDE DEF p
<1>7. /\ PostersGood' /\ \A s \in Posters : posters'[s] = IF s = t THEN Resting ELSE posters[s]
      /\ Together(RefsHeld') = Together(RefsHeld) - (p.extra + (p.count - p.done))
      /\ Together(Uncounted') = Together(Uncounted) - p.done
      /\ Together(ToPost') = Together(ToPost) - (p.count - p.done)
  <2>1. PosterMoved(t, Resting)
    BY <1>1, <1>2, <1>5, PosterMoves
  <2>2. Together(RefsHeld') = Together(RefsHeld) - (p.extra + (p.count - p.done))
    BY <2>1, <1>1, <1>2, <1>4, <1>5 DEF PosterMoved, p
  <2>3. Together(Uncounted') = Together(Uncounted) - p.done
    BY <2>1, <1>1, <1>2, <1>4, <1>5 DEF PosterMoved, p
  <2>4. Together(ToPost') = Together(ToPost) - (p.count - p.done)
    BY <2>1, <1>1, <1>2, <1>4, <1>5 DEF PosterMoved, p
  <2> QED BY <2>1, <2>2, <2>3, <2>4 DEF PosterMoved
<1>8. /\ DOMAIN udp' = UdpFields /\ udp'.refs = udp.refs - (p.extra + p.count - p.done)
      /\ udp'.posted = udp.posted + p.done /\ udp'.reads = udp.reads /\ udp'.lent = udp.lent
      /\ udp'.free = udp.free + p.set /\ udp'.sends = udp.sends
  BY <1>1, <1>2 DEF UdpTyped, UdpFields
<1>9. udp'.shutdown = udp.shutdown /\ udp'.freed = udp.freed /\ udp'.failed = udp.failed
  BY <1>1, <1>2 DEF UdpTyped, UdpFields
<1>10. UdpTyped(udp')
  BY <1>1, <1>4, <1>8 DEF UdpTyped
<1>11. Owner(udp') = Owner(udp)
  BY <1>9 DEF Owner
<1>12. UdpCounts(udp, 0)'
  <2>1. udp'.refs = Owner(udp') + udp'.reads + udp'.lent + udp'.sends + Together(RefsHeld') + 0
    BY <1>1, <1>4, <1>7, <1>8, <1>11 DEF UdpTyped
  <2>2. udp'.posted = udp'.reads - Together(Uncounted')
    BY <1>1, <1>4, <1>7, <1>8 DEF UdpTyped
  <2>3. ~udp'.shutdown /\ ~udp'.failed => udp'.reads + udp'.lent + Together(ToPost') + 0 > 0
    BY <1>1, <1>4, <1>6, <1>7, <1>8, <1>9 DEF UdpTyped
  <2> QED BY <1>10, <2>1, <2>2, <2>3 DEF UdpCounts
<1>13. PostedAll'
  BY <1>1, <1>5, <1>7, <1>9 DEF PostedAll
<1>14. udp'.freed => udp'.shutdown /\ udp'.refs = 0
  <2>1. SUFFICES ASSUME udp.freed PROVE udp'.shutdown /\ udp'.refs = 0
    BY <1>9
  <2>2. Together(RefsHeld) = 0 /\ udp.shutdown /\ udp.refs = 0
    BY <1>1, <2>1 DEF UdpTyped
  <2>3. Together(RefsHeld') \in Nat
    BY <1>7, SumsGoodNext DEF SumsGood
  <2>4. p.extra + (p.count - p.done) = 0
    BY <2>2, <2>3, <1>4, <1>7
  <2> QED BY <2>2, <2>4, <1>4, <1>8, <1>9
<1> QED BY <1>7, <1>12, <1>13, <1>14 DEF UdpInv

LEMMA UdpInitial == UdpInit => UdpInv
<1> SUFFICES ASSUME UdpInit PROVE UdpInv
  OBVIOUS
<1>1. /\ posters = [t \in Posters |-> Resting] /\ Simultaneous \in Nat \ {0} /\ PoolSize \in Nat
      /\ PoolSize >= Simultaneous
  BY UdpAssumption DEF UdpInit
<1>2. PosterGood(Resting) /\ Resting.pc = "rest" /\ Resting.count = 0 /\ Resting.extra = 0
      /\ Resting.done = 0
  BY DEF PosterGood, Resting, PosterFields
<1>3. PostersGood /\ PostedAll
  BY <1>1, <1>2 DEF PostersGood, PostedAll
<1>4. Together(RefsHeld) = 0 /\ Together(Uncounted) = 0 /\ Together(ToPost) = 0
  <2>1. SumsGood
    BY <1>3, SumsTyped
  <2>2. \A t \in Posters : RefsHeld[t] = 0 /\ Uncounted[t] = 0 /\ ToPost[t] = 0
    BY <1>1, <1>2 DEF RefsHeld, Uncounted, ToPost
  <2> QED BY <2>1, <2>2, TogetherZero DEF SumsGood
<1>5. udp.refs = 1 + Simultaneous /\ udp.posted = Simultaneous /\ udp.reads = Simultaneous
      /\ udp.lent = 0 /\ udp.free = PoolSize - Simultaneous /\ udp.sends = 0
      /\ DOMAIN udp = UdpFields
  BY DEF UdpInit, UdpFields
<1>6. ~udp.shutdown /\ ~udp.freed
  BY DEF UdpInit
<1>7. UdpTyped(udp)
  BY <1>1, <1>5 DEF UdpTyped
<1>8. UdpCounts(udp, 0)
  BY <1>1, <1>4, <1>5, <1>6, <1>7 DEF UdpCounts, Owner
<1> QED BY <1>3, <1>6, <1>8 DEF UdpInv

LEMMA UdpStep == UdpInv /\ [UdpNext]_udpVars => UdpInv'
<1> SUFFICES ASSUME UdpInv, [UdpNext]_udpVars PROVE UdpInv'
  OBVIOUS
<1>1. CASE UNCHANGED udpVars
  <2>1. udp' = udp /\ posters' = posters /\ PostersGood /\ PostedAll /\ UdpCounts(udp, 0)
        /\ (udp.freed => udp.shutdown /\ udp.refs = 0)
    BY <1>1 DEF udpVars, UdpInv
  <2> QED BY <2>1, UdpAlone
<1>2. CASE Completions
  <2>1. PICK n \in 1 .. PoolSize + MaxSends : ReadsComplete(n) \/ WritesComplete(n)
    BY <1>2 DEF Completions
  <2>2. n \in Nat
    BY UdpAssumption
  <2> QED BY <2>1, <2>2, ReadsCompleteStep, WritesCompleteStep
<1>3. ASSUME NEW t \in Posters, PosterStep(t) PROVE UdpInv'
  <2>1. \A n \in 0 .. Simultaneous : n \in Nat
    BY UdpAssumption
  <2> QED BY <1>3, <2>1, PostEachStep, PostCountedStep DEF PosterStep
<1>4. ASSUME NEW t \in Posters, Returns(t) PROVE UdpInv'
  <2>1. \A n \in 1 .. PoolSize : n \in Nat
    BY UdpAssumption
  <2> QED BY <1>4, <2>1, ReleaseStep DEF Returns
<1> QED BY <1>1, <1>2, <1>3, <1>4, UdpDestroyStep, UdpFinalizeStep, UdpWriteStep DEF UdpNext

LEMMA NothingSummed ==
  ASSUME NEW a \in Nat, NEW b \in Nat, NEW c \in Nat, NEW d \in Nat, NEW e \in Nat,
         0 = a + b + c + d + e
  PROVE  b = 0 /\ c = 0 /\ d = 0
  OBVIOUS

LEMMA UdpInvSafe == UdpInv => UdpSafe
<1> SUFFICES ASSUME UdpInv PROVE UdpSafe
  OBVIOUS
<1>1. /\ UdpTyped(udp)
      /\ Together(RefsHeld) \in Nat /\ Together(Uncounted) \in Nat /\ Together(ToPost) \in Nat
      /\ udp.refs = Owner(udp) + udp.reads + udp.lent + udp.sends + Together(RefsHeld)
      /\ udp.posted = udp.reads - Together(Uncounted) /\ Owner(udp) \in Nat
      /\ ~udp.shutdown /\ ~udp.failed => udp.reads + udp.lent + Together(ToPost) > 0
      /\ udp.freed => udp.shutdown /\ udp.refs = 0
  BY UdpInvFacts
<1>2. ASSUME udp.freed PROVE udp.reads = 0 /\ udp.lent = 0 /\ udp.sends = 0
  <2>1. udp.refs = 0
    BY <1>1, <1>2
  <2>2. udp.reads \in Nat /\ udp.lent \in Nat /\ udp.sends \in Nat
    BY <1>1 DEF UdpTyped
  <2>3. 0 = Owner(udp) + udp.reads + udp.lent + udp.sends + Together(RefsHeld)
    BY <2>1, <1>1
  <2>4. Owner(udp) \in Nat /\ Together(RefsHeld) \in Nat
    BY <1>1
  <2> QED BY <2>2, <2>3, <2>4, NothingSummed
<1>3. UdpRefsExact
  BY <1>1, <1>2 DEF UdpRefsExact, Owner
<1>4. PostedCounted /\ NeverDeaf
  BY <1>1 DEF PostedCounted, NeverDeaf
<1> QED BY <1>3, <1>4 DEF UdpSafe

(* The endpoint has one reference for the owner, for every read at the kernel,
   buffer at a worker and write in flight, and for what a poster has in hand;
   _buffers_posted is the number of posted reads but for those about to be
   counted; and an endpoint that never failed to post a read always has one
   posted, about to be, or to come back from a worker (UDPEndpoint.cpp). *)
THEOREM UdpCorrect == UdpSpec => []UdpSafe
<1>1. UdpInit => UdpInv
  BY UdpInitial
<1>2. UdpInv /\ [UdpNext]_udpVars => UdpInv'
  BY UdpStep
<1>3. UdpInv => UdpSafe
  BY UdpInvSafe
<1> QED BY <1>1, <1>2, <1>3, PTL DEF UdpSpec

-----------------------------------------------------------------------------
(* Flow control (FlowControl) *)

LEMMA TimesMonotone ==
  ASSUME NEW a \in Int, NEW b \in Int, NEW c \in Nat, a <= b
  PROVE  c * a <= c * b
  OBVIOUS

LEMMA TimesAdds ==
  ASSUME NEW a \in Int, NEW b \in Int, NEW c \in Int
  PROVE  c * (a + b) = c * a + c * b /\ c * (a - b) = c * a - c * b /\ c * a = a * c
         /\ c * a \in Int
  OBVIOUS

LEMMA DivTimes ==
  ASSUME NEW x \in Nat, NEW s \in Nat \ {0}
  PROVE  x \div s \in Nat /\ s * (x \div s) <= x
  OBVIOUS

LEMMA DivMonotone ==
  ASSUME NEW x \in Nat, NEW y \in Nat, NEW s \in Nat \ {0}, x <= y
  PROVE  x \div s <= y \div s
  OBVIOUS

LEMMA DivBounded ==
  ASSUME NEW x \in Nat, NEW m \in Nat, NEW s \in Nat \ {0}, x <= m * s
  PROVE  x \div s <= m
  OBVIOUS

LEMMA MaxOfTwo ==
  ASSUME NEW a \in Int, NEW b \in Int
  PROVE  Max({a, b}) \in {a, b} /\ Max({a, b}) >= a /\ Max({a, b}) >= b
<1>1. \E x \in {a, b} : \A y \in {a, b} : x >= y
  OBVIOUS
<1>2. Max({a, b}) \in {a, b} /\ \A y \in {a, b} : Max({a, b}) >= y
  BY <1>1, Zenon DEF Max
<1> QED BY <1>2

LEMMA MinOfTwo ==
  ASSUME NEW a \in Int, NEW b \in Int
  PROVE  Min({a, b}) \in {a, b} /\ Min({a, b}) <= a /\ Min({a, b}) <= b
<1>1. \E x \in {a, b} : \A y \in {a, b} : x <= y
  OBVIOUS
<1>2. Min({a, b}) \in {a, b} /\ \A y \in {a, b} : Min({a, b}) <= y
  BY <1>1, Zenon DEF Min
<1> QED BY <1>2

-----------------------------------------------------------------------------
FlowFields == {"bps", "available", "last_bw", "rtt", "last_stats", "loss", "goodput"}
FlowTyped(f) ==
  /\ DOMAIN f = FlowFields
  /\ f.bps \in Nat /\ f.available \in Int /\ f.last_bw \in Nat /\ f.rtt \in Nat
  /\ f.last_stats \in Nat /\ f.loss \in Nat /\ f.goodput \in Nat

Burst == HighLimit \div BurstShare
LongestTrip == Max({InitialRtt, MaxTrip})

(* Either no more is out and on offer than two bursts, what the idle time will
   put on offer included, or it is one burst without. *)
AccountKept(a, idle, out) ==
  \/ Second * a + out + idle * HighLimit <= 2 * (Second * Burst)
  \/ Second * a + out <= Second * Burst

AskedGood(q) == /\ q.value \in Nat
                /\ q.step = "read" => q.value = time

FlowInv ==
  /\ FlowTyped(flow) /\ time \in Nat /\ level \in Nat
  /\ flow.last_bw <= time /\ flow.last_stats <= time
  /\ flow.available <= Burst
  /\ AccountKept(flow.available, time - flow.last_bw, level)
  /\ flow.bps >= LowLimit /\ flow.bps <= HighLimit
  /\ flow.rtt <= LongestTrip
  /\ asked \in [Flushers -> [step : {"idle", "read", "granted"}, value : Nat]]
  /\ \A t \in Flushers : asked[t].step = "read" => asked[t].value = time
  /\ pending \in [first : Nat, last : Nat]
  /\ pending.first <= pending.last /\ pending.last <= time

LEMMA FlowConstants ==
  /\ LowLimit \in Nat \ {0} /\ HighLimit \in Nat \ {0} /\ Second \in Nat \ {0}
  /\ BurstShare \in Nat \ {0} /\ RTT_FUZZ \in Nat \ {0} /\ RttWeight \in Nat \ {0}
  /\ MinIncrement \in Nat \ {0} /\ MaxTrip \in Nat \ {0} /\ InitialRtt \in Nat
  /\ LowLimit <= HighLimit /\ SendSizes \subseteq Nat
  /\ Burst \in Nat /\ Second * Burst \in Nat
  /\ LongestTrip \in Nat /\ LongestTrip >= InitialRtt /\ LongestTrip >= MaxTrip
<1>1. /\ LowLimit \in Nat \ {0} /\ HighLimit \in Nat \ {0} /\ Second \in Nat \ {0}
      /\ BurstShare \in Nat \ {0} /\ RTT_FUZZ \in Nat \ {0} /\ RttWeight \in Nat \ {0}
      /\ MinIncrement \in Nat \ {0} /\ MaxTrip \in Nat \ {0} /\ InitialRtt \in Nat
      /\ LowLimit <= HighLimit /\ SendSizes \subseteq Nat
  BY FlowAssumption
<1>2. Burst \in Nat
  BY <1>1, DivTimes DEF Burst
<1>3. LongestTrip \in Nat /\ LongestTrip >= InitialRtt /\ LongestTrip >= MaxTrip
  BY <1>1, MaxOfTwo DEF LongestTrip
<1> QED BY <1>1, <1>2, <1>3

LEMMA FlowInitial == FlowInit => FlowInv
<1> SUFFICES ASSUME FlowInit PROVE FlowInv
  OBVIOUS
<1> USE FlowConstants
<1>1. FlowTyped(flow) /\ flow.available = 0 /\ flow.last_bw = 0 /\ flow.last_stats = 0
      /\ flow.bps = LowLimit /\ flow.rtt = InitialRtt
  BY DEF FlowInit, FlowTyped, FlowFields
<1>2. time = 0 /\ level = 0
  BY DEF FlowInit
<1>3. Second * 0 + 0 <= Second * Burst
  OBVIOUS
<1>4. asked \in [Flushers -> [step : {"idle", "read", "granted"}, value : Nat]]
      /\ \A t \in Flushers : asked[t].step # "read"
  BY DEF FlowInit, FlowIdle
<1>5. pending \in [first : Nat, last : Nat] /\ pending.first = 0 /\ pending.last = 0
  BY DEF FlowInit, Nothing
<1> QED BY <1>1, <1>2, <1>3, <1>4, <1>5 DEF FlowInv, AccountKept

LEMMA FlowTimeStep ==
  ASSUME Prompt, FlowInv, FlowTime
  PROVE  FlowInv'
<1> USE FlowConstants
<1>1. /\ time' = time + 1 /\ flow' = flow /\ asked' = asked /\ pending' = pending
      /\ level' = Max({0, level - HighLimit}) /\ \A t \in Flushers : asked[t].step # "read"
  BY DEF FlowTime
<1>2. level \in Nat /\ time \in Nat /\ flow.last_bw \in Nat /\ flow.available \in Int
      /\ flow.available <= Burst
  BY DEF FlowInv, FlowTyped
<1>3. level' \in Nat /\ (level' = 0 \/ level' = level - HighLimit)
  <2> DEFINE rest == level - HighLimit
  <2>1. rest \in Int
    BY <1>2
  <2> HIDE DEF rest
  <2>2. Max({0, rest}) \in {0, rest} /\ Max({0, rest}) >= 0
    BY <2>1, MaxOfTwo
  <2>3. level' = Max({0, rest})
    BY <1>1 DEF rest
  <2> QED BY <2>1, <2>2, <2>3 DEF rest
<1>4. AccountKept(flow.available, (time + 1) - flow.last_bw, level')
  <2>1. CASE level' = 0
    <3>1. Second * flow.available <= Second * Burst
      BY <1>2, TimesMonotone
    <3>2. Second * flow.available \in Int
      BY <1>2
    <3> QED BY <2>1, <3>1, <3>2 DEF AccountKept
  <2>2. CASE level' = level - HighLimit
    <3> DEFINE e == time - flow.last_bw
               p == Second * flow.available
    <3>1. e \in Int /\ p \in Int /\ (time + 1) - flow.last_bw = e + 1
      BY <1>2
    <3>2. (e + 1) * HighLimit = e * HighLimit + HighLimit /\ e * HighLimit \in Int
      BY <3>1
    <3>3. AccountKept(flow.available, e, level)
      BY DEF FlowInv
    <3> HIDE DEF e, p
    <3>4. \/ p + level + e * HighLimit <= 2 * (Second * Burst)
          \/ p + level <= Second * Burst
      BY <3>3 DEF AccountKept, p
    <3>5. \/ p + level' + (e + 1) * HighLimit <= 2 * (Second * Burst)
          \/ p + level' <= Second * Burst
      BY <2>2, <3>1, <3>2, <3>4, <1>2
    <3>6. AccountKept(flow.available, e + 1, level')
      BY <3>5 DEF AccountKept, p
    <3> QED BY <3>1, <3>6
  <2> QED BY <1>3, <2>1, <2>2
<1>5. FlowTyped(flow') /\ flow'.last_bw <= time' /\ flow'.last_stats <= time'
  BY <1>1 DEF FlowInv, FlowTyped
<1>6. pending'.first <= pending'.last /\ pending'.last <= time'
  BY <1>1 DEF FlowInv
<1> QED BY <1>1, <1>3, <1>4, <1>5, <1>6 DEF FlowInv

LEMMA ReadClockStep ==
  ASSUME FlowInv, NEW t \in Flushers, ReadClock(t)
  PROVE  FlowInv'
<1>1. /\ asked' = [asked EXCEPT ![t] = [step |-> "read", value |-> time]]
      /\ flow' = flow /\ time' = time /\ pending' = pending /\ level' = level
  BY DEF ReadClock
<1>2. asked' \in [Flushers -> [step : {"idle", "read", "granted"}, value : Nat]]
  BY <1>1 DEF FlowInv
<1>3. \A s \in Flushers : asked'[s].step = "read" => asked'[s].value = time
  BY <1>1 DEF FlowInv
<1> QED BY <1>1, <1>2, <1>3 DEF FlowInv

(* What GetRemainingBytes() leaves of the account. *)
LEMMA RefilledKept ==
  ASSUME FlowInv
  PROVE  LET g == Refilled(flow, time)
         IN  /\ FlowTyped(g) /\ g.last_bw = time /\ g.bps = flow.bps /\ g.rtt = flow.rtt
             /\ g.last_stats = flow.last_stats /\ g.available <= Burst
             /\ AccountKept(g.available, 0, level)
<1> USE FlowConstants
<1> DEFINE e == time - flow.last_bw
           raw == (e * flow.bps) \div Second
           most == TickMax(flow)
           bytes == Min({raw, most})
           a == flow.available
           b == Min({a + bytes, most})
           g == Refilled(flow, time)
<1>1. /\ FlowTyped(flow) /\ time \in Nat /\ level \in Nat /\ flow.last_bw \in Nat
      /\ flow.bps \in Nat /\ flow.bps <= HighLimit /\ a \in Int /\ flow.last_bw <= time
      /\ a <= Burst
  BY DEF FlowInv, FlowTyped
<1>2. e \in Nat
  BY <1>1
<1>3. e * flow.bps \in Nat /\ e * flow.bps <= e * HighLimit
  BY <1>1, <1>2, TimesMonotone
<1>4. raw \in Nat /\ Second * raw <= e * flow.bps
  BY <1>3, DivTimes
<1>5. most \in Nat /\ most <= Burst
  BY <1>1, DivTimes, DivMonotone DEF TickMax, Burst
<1>6. g = [flow EXCEPT !.last_bw = time, !.available = b]
  <2>1. ~(time < flow.last_bw)
    BY <1>1
  <2> QED BY <2>1 DEF Refilled
<1> HIDE DEF raw, most
<1>7. bytes \in Nat /\ bytes <= raw /\ bytes <= most
  <2>1. bytes \in {raw, most} /\ bytes <= raw /\ bytes <= most
    BY <1>4, <1>5, MinOfTwo
  <2> QED BY <2>1, <1>4, <1>5
<1> HIDE DEF bytes
<1>8. b \in Int /\ b <= a + bytes /\ b <= most
  <2> DEFINE full == a + bytes
  <2>1. full \in Int
    BY <1>1, <1>7
  <2> HIDE DEF full
  <2>2. /\ Min({full, most}) \in {full, most}
        /\ Min({full, most}) <= full /\ Min({full, most}) <= most
    BY <2>1, <1>5, MinOfTwo
  <2>3. b = Min({full, most})
    BY DEF full
  <2> HIDE DEF b
  <2> QED BY <2>1, <2>2, <2>3, <1>5 DEF full
<1> HIDE DEF b, g
<1>9. FlowTyped(g) /\ g.available = b /\ g.last_bw = time /\ g.bps = flow.bps
      /\ g.rtt = flow.rtt /\ g.last_stats = flow.last_stats
  BY <1>1, <1>6, <1>8 DEF FlowTyped, FlowFields
<1>10. AccountKept(b, 0, level)
  <2>1. Second * b <= Second * a + Second * bytes
    BY <1>1, <1>7, <1>8, TimesMonotone, TimesAdds
  <2>2. Second * bytes <= Second * raw /\ Second * bytes <= Second * Burst
    BY <1>4, <1>5, <1>7, TimesMonotone
  <2>3. Second * bytes <= e * HighLimit
    BY <2>2, <1>3, <1>4, <1>7, <1>2
  <2>4. \/ Second * a + level + e * HighLimit <= 2 * (Second * Burst)
        \/ Second * a + level <= Second * Burst
    BY DEF FlowInv, AccountKept
  <2>5. /\ Second * a \in Int /\ Second * bytes \in Int /\ Second * b \in Int
        /\ e * HighLimit \in Int
    BY <1>1, <1>2, <1>7, <1>8
  <2>6. Second * b + level <= 2 * (Second * Burst)
    BY <1>1, <2>1, <2>2, <2>3, <2>4, <2>5
  <2>7. 0 * HighLimit = 0
    OBVIOUS
  <2> QED BY <2>5, <2>6, <2>7, <1>1 DEF AccountKept
<1> QED BY <1>5, <1>8, <1>9, <1>10, <1>1 DEF g

LEMMA GetRemainingBytesStep ==
  ASSUME FlowInv, NEW t \in Flushers, GetRemainingBytes(t)
  PROVE  FlowInv'
<1> DEFINE g == Refilled(flow, time)
           q == IF flow'.available < 0 THEN FlowIdle
                ELSE [step |-> "granted", value |-> flow'.available]
<1>1. asked[t].value = time
  BY DEF FlowInv, GetRemainingBytes
<1>2. flow' = g /\ asked' = [asked EXCEPT ![t] = q]
      /\ time' = time /\ pending' = pending /\ level' = level
  BY <1>1 DEF GetRemainingBytes
<1>3. /\ FlowTyped(g) /\ g.last_bw = time /\ g.bps = flow.bps /\ g.rtt = flow.rtt
      /\ g.last_stats = flow.last_stats /\ g.available <= Burst
      /\ AccountKept(g.available, 0, level)
  BY RefilledKept
<1> HIDE DEF g
<1>4. q \in [step : {"idle", "read", "granted"}, value : Nat] /\ q.step # "read"
  <2>1. flow'.available \in Int
    BY <1>2, <1>3 DEF FlowTyped
  <2>2. flow'.available >= 0 => flow'.available \in Nat
    BY <2>1
  <2> QED BY <2>1, <2>2 DEF FlowIdle
<1> HIDE DEF q
<1>5. /\ asked' \in [Flushers -> [step : {"idle", "read", "granted"}, value : Nat]]
      /\ \A s \in Flushers : asked'[s].step = "read" => asked'[s].value = time
  BY <1>2, <1>4 DEF FlowInv
<1>6. time \in Nat /\ time - time = 0
  BY DEF FlowInv
<1> QED BY <1>2, <1>3, <1>5, <1>6 DEF FlowInv

LEMMA SpentKept ==
  ASSUME FlowInv, NEW bytes \in Nat, Spent(bytes)
  PROVE  /\ FlowTyped(flow') /\ level' \in Nat /\ flow'.last_bw = flow.last_bw
         /\ flow'.bps = flow.bps /\ flow'.rtt = flow.rtt /\ flow'.last_stats = flow.last_stats
         /\ flow'.available <= Burst
         /\ AccountKept(flow'.available, time - flow.last_bw, level')
<1> USE FlowConstants
<1> DEFINE a == flow.available
           e == time - flow.last_bw
<1>1. /\ FlowTyped(flow) /\ a \in Int /\ a <= Burst /\ level \in Nat /\ e \in Int
      /\ flow' = [flow EXCEPT !.available = a - bytes] /\ level' = level + bytes * Second
  BY DEF FlowInv, FlowTyped, Spent
<1>2. FlowTyped(flow') /\ flow'.available = a - bytes /\ flow'.last_bw = flow.last_bw
      /\ flow'.bps = flow.bps /\ flow'.rtt = flow.rtt /\ flow'.last_stats = flow.last_stats
  BY <1>1 DEF FlowTyped, FlowFields
<1>3. bytes * Second \in Nat /\ e * HighLimit \in Int /\ Second * a \in Int
  BY <1>1
<1>4. Second * (a - bytes) = Second * a - bytes * Second
  <2>1. a \in Int /\ bytes \in Int /\ Second \in Int
    BY <1>1
  <2> HIDE DEF a
  <2>2. Second * (a - bytes) = Second * a - Second * bytes
    BY <2>1, TimesAdds
  <2>3. Second * bytes = bytes * Second
    BY <2>1, TimesAdds
  <2> QED BY <2>2, <2>3
<1>5. AccountKept(a, e, level)
  BY DEF FlowInv
<1> HIDE DEF a, e
<1>6. (Second * a - bytes * Second) + (level + bytes * Second) = Second * a + level
  BY <1>1, <1>3
<1>7. AccountKept(a - bytes, e, level')
  BY <1>1, <1>3, <1>4, <1>5, <1>6 DEF AccountKept
<1>8. level' \in Nat /\ a - bytes <= Burst
  BY <1>1, <1>3
<1> QED BY <1>2, <1>7, <1>8 DEF e

LEMMA FlushSendsStep ==
  ASSUME FlowInv, NEW t \in Flushers, FlushSends(t)
  PROVE  FlowInv'
<1> USE FlowConstants
<1>1. PICK b \in {0, asked[t].value}, other \in SendSizes : Spent(b + other)
  BY DEF FlushSends
<1>2. asked[t].value \in Nat
  BY DEF FlowInv
<1>3. b \in Nat /\ other \in Nat
  <2>1. b = 0 \/ b = asked[t].value
    OBVIOUS
  <2>2. SendSizes \subseteq Nat
    BY FlowAssumption
  <2>3. 0 \in Nat
    OBVIOUS
  <2> QED BY <1>2, <2>1, <2>2, <2>3, Zenon
<1>4. b + other \in Nat
  BY <1>3
<1>5. /\ FlowTyped(flow') /\ level' \in Nat /\ flow'.last_bw = flow.last_bw
      /\ flow'.bps = flow.bps /\ flow'.rtt = flow.rtt /\ flow'.last_stats = flow.last_stats
      /\ flow'.available <= Burst
      /\ AccountKept(flow'.available, time - flow.last_bw, level')
  BY <1>1, <1>4, SpentKept
<1>6. asked' = [asked EXCEPT ![t] = FlowIdle] /\ time' = time /\ pending' = pending
  BY DEF FlushSends
<1>7. /\ asked' \in [Flushers -> [step : {"idle", "read", "granted"}, value : Nat]]
      /\ \A s \in Flushers : asked'[s].step = "read" => asked'[s].value = time
  BY <1>6 DEF FlowInv, FlowIdle
<1> QED BY <1>5, <1>6, <1>7 DEF FlowInv

LEMMA SendUnaskedStep ==
  ASSUME FlowInv, SendUnasked
  PROVE  FlowInv'
<1>1. PICK b \in SendSizes : Spent(b)
  BY DEF SendUnasked
<1>2. /\ FlowTyped(flow') /\ level' \in Nat /\ flow'.last_bw = flow.last_bw
      /\ flow'.bps = flow.bps /\ flow'.rtt = flow.rtt /\ flow'.last_stats = flow.last_stats
      /\ flow'.available <= Burst
      /\ AccountKept(flow'.available, time - flow.last_bw, level')
  BY <1>1, FlowConstants, SpentKept
<1> QED BY <1>2 DEF FlowInv, SendUnasked

LEMMA SendMessageStep ==
  ASSUME FlowInv, SendMessage
  PROVE  FlowInv'
<1>1. pending' = [first |-> time, last |-> time] /\ time \in Nat /\ time' = time
      /\ flow' = flow /\ asked' = asked /\ level' = level
  BY DEF FlowInv, SendMessage
<1>2. pending' \in [first : Nat, last : Nat] /\ pending'.first = time /\ pending'.last = time
  BY <1>1
<1> QED BY <1>1, <1>2 DEF FlowInv

LEMMA SendAgainStep ==
  ASSUME FlowInv, SendAgain
  PROVE  FlowInv'
<1>1. /\ pending' = [pending EXCEPT !.last = time] /\ flow' = [flow EXCEPT !.loss = @ + 1]
      /\ time \in Nat /\ time' = time /\ asked' = asked /\ level' = level /\ FlowTyped(flow)
      /\ pending \in [first : Nat, last : Nat] /\ pending.first <= pending.last
      /\ pending.last <= time
  BY DEF FlowInv, SendAgain
<1>2. pending' \in [first : Nat, last : Nat] /\ pending'.first = pending.first
      /\ pending'.last = time
  BY <1>1
<1>3. pending'.first <= pending'.last /\ pending'.last <= time
  BY <1>1, <1>2
<1>4. /\ FlowTyped(flow') /\ flow'.last_bw = flow.last_bw /\ flow'.available = flow.available
      /\ flow'.bps = flow.bps /\ flow'.rtt = flow.rtt /\ flow'.last_stats = flow.last_stats
  BY <1>1 DEF FlowTyped, FlowFields
<1> QED BY <1>1, <1>2, <1>3, <1>4 DEF FlowInv

(* A weighted mean stays within the larger of the two. *)
LEMMA MeanBounded ==
  ASSUME NEW x \in Nat, NEW y \in Nat, NEW m \in Nat, NEW w \in Nat \ {0}, x <= m, y <= m
  PROVE  (x * (w - 1) + y) \div w \in Nat /\ (x * (w - 1) + y) \div w <= m
<1>1. w - 1 \in Nat
  OBVIOUS
<1>2. (w - 1) * x <= (w - 1) * m
  BY <1>1, TimesMonotone
<1>3. x * (w - 1) = (w - 1) * x /\ m * w = (w - 1) * m + m
  OBVIOUS
<1>4. x * (w - 1) \in Nat /\ (w - 1) * m \in Nat
  BY <1>1
<1>5. x * (w - 1) + y \in Nat /\ x * (w - 1) + y <= m * w
  BY <1>2, <1>3, <1>4
<1> HIDE <1>1, <1>2, <1>3, <1>4
<1> QED BY <1>5, DivTimes, DivBounded

LEMMA OnACKStep ==
  ASSUME FlowInv, OnACK
  PROVE  FlowInv'
<1> USE FlowConstants
<1>1. PICK bytes \in SendSizes : flow' = [Acked(flow, pending, time) EXCEPT !.goodput = @ + bytes]
  BY DEF OnACK
<1>2. /\ FlowTyped(flow) /\ time \in Nat /\ pending.first \in Nat /\ pending.last \in Nat
      /\ pending.first <= pending.last /\ pending.last <= time
      /\ flow.rtt \in Nat /\ flow.rtt <= LongestTrip
  BY DEF FlowInv, FlowTyped
<1>3. time - pending.last <= MaxTrip
  BY DEF OnACK
<1> DEFINE mean == (flow.rtt * (RttWeight - 1) + (time - pending.first)) \div RttWeight
           f == Acked(flow, pending, time)
<1>4. ASSUME pending.first = pending.last
      PROVE  mean \in Nat /\ mean <= LongestTrip
  <2> DEFINE trip == time - pending.first
  <2>1. trip \in Nat /\ trip <= LongestTrip
    BY <1>2, <1>3, <1>4
  <2> HIDE DEF trip
  <2>2. (flow.rtt * (RttWeight - 1) + trip) \div RttWeight \in Nat
        /\ (flow.rtt * (RttWeight - 1) + trip) \div RttWeight <= LongestTrip
    BY <2>1, <1>2, MeanBounded
  <2> QED BY <2>2 DEF trip
<1>5. IF pending.first # pending.last THEN f = flow ELSE f = [flow EXCEPT !.rtt = mean]
  BY DEF Acked
<1> HIDE DEF mean, f
<1>6. /\ FlowTyped(f) /\ f.last_bw = flow.last_bw /\ f.available = flow.available
      /\ f.bps = flow.bps /\ f.rtt <= LongestTrip /\ f.last_stats = flow.last_stats
  BY <1>2, <1>4, <1>5 DEF FlowTyped, FlowFields
<1>7. flow' = [f EXCEPT !.goodput = @ + bytes] /\ bytes \in Nat
  BY <1>1 DEF f
<1>8. /\ FlowTyped(flow') /\ flow'.last_bw = flow.last_bw /\ flow'.available = flow.available
      /\ flow'.bps = flow.bps /\ flow'.rtt <= LongestTrip
      /\ flow'.last_stats = flow.last_stats
  BY <1>6, <1>7 DEF FlowTyped, FlowFields
<1>9. /\ pending' \in [first : Nat, last : Nat] /\ pending'.first = 0 /\ pending'.last = 0
      /\ time' = time /\ asked' = asked /\ level' = level
  BY DEF OnACK, Nothing
<1> QED BY <1>2, <1>8, <1>9 DEF FlowInv

LEMMA AdaptedBounded ==
  ASSUME FlowTyped(flow), flow.bps >= LowLimit, flow.bps <= HighLimit, NEW goodrate \in Nat
  PROVE  /\ Adapted(flow, goodrate) \in Nat
         /\ Adapted(flow, goodrate) >= LowLimit /\ Adapted(flow, goodrate) <= HighLimit
<1> USE FlowConstants
<1> DEFINE half == flow.bps \div 2
           more == Max({goodrate \div 20, MinIncrement})
<1>1. flow.bps \in Nat
  BY DEF FlowTyped
<1>2. half \in Nat /\ half <= flow.bps
  BY <1>1
<1>3. more \in Nat
  <2> DEFINE part == goodrate \div 20
  <2>1. part \in Nat
    OBVIOUS
  <2> HIDE DEF part
  <2>2. part \in Int /\ MinIncrement \in Int
    BY <2>1
  <2>3. Max({part, MinIncrement}) \in {part, MinIncrement}
    BY ONLY <2>2, MaxOfTwo
  <2> QED BY <2>1, <2>3 DEF part
<1> DEFINE sum == flow.bps + more
<1>4. sum \in Nat /\ sum >= flow.bps
  BY <1>1, <1>3
<1>5. Adapted(flow, goodrate) = IF flow.loss >= 2 THEN Max({half, LowLimit})
                                ELSE IF goodrate * 5 >= flow.bps * 4 THEN Min({sum, HighLimit})
                                ELSE flow.bps
  BY DEF Adapted
<1> HIDE DEF half, more, sum
<1>6. /\ Max({half, LowLimit}) \in {half, LowLimit}
      /\ Max({half, LowLimit}) >= half /\ Max({half, LowLimit}) >= LowLimit
  <2>1. half \in Int /\ LowLimit \in Int
    BY <1>2
  <2> QED BY ONLY <2>1, MaxOfTwo
<1>7. /\ Min({sum, HighLimit}) \in {sum, HighLimit}
      /\ Min({sum, HighLimit}) <= sum /\ Min({sum, HighLimit}) <= HighLimit
  <2>1. sum \in Int /\ HighLimit \in Int
    BY <1>4
  <2> QED BY ONLY <2>1, MinOfTwo
<1>8. Max({half, LowLimit}) \in Nat /\ Max({half, LowLimit}) <= HighLimit
  BY <1>1, <1>2, <1>6
<1>9. Min({sum, HighLimit}) \in Nat /\ Min({sum, HighLimit}) >= LowLimit
  BY <1>1, <1>4, <1>7
<1> QED BY <1>1, <1>5, <1>6, <1>7, <1>8, <1>9

LEMMA FlowTickStep ==
  ASSUME FlowInv, FlowTick
  PROVE  FlowInv'
<1> USE FlowConstants
<1> DEFINE elapsed == time - flow.last_stats
           rate == (flow.goodput * Second) \div elapsed
           bps == Adapted(flow, rate)
<1>1. /\ FlowTyped(flow) /\ time \in Nat /\ flow.last_stats \in Nat /\ flow.rtt \in Nat
      /\ flow.goodput \in Nat
  BY DEF FlowInv, FlowTyped
<1>2. elapsed \in Nat \ {0}
  <2>1. elapsed >= (flow.rtt + RTT_FUZZ) * 4
    BY DEF FlowTick
  <2> QED BY <2>1, <1>1
<1>3. rate \in Nat
  <2>1. flow.goodput * Second \in Nat
    BY <1>1
  <2> HIDE DEF elapsed
  <2> QED BY <2>1, <1>2, DivTimes
<1>4. flow' = [flow EXCEPT !.last_stats = time, !.loss = 0, !.goodput = 0, !.bps = bps]
      /\ time' = time /\ asked' = asked /\ pending' = pending /\ level' = level
  BY DEF FlowTick
<1> HIDE DEF rate
<1>5. bps \in Nat /\ bps >= LowLimit /\ bps <= HighLimit
  BY <1>1, <1>3, AdaptedBounded DEF FlowInv
<1> HIDE DEF bps
<1>6. /\ FlowTyped(flow') /\ flow'.last_bw = flow.last_bw /\ flow'.available = flow.available
      /\ flow'.bps = bps /\ flow'.rtt = flow.rtt /\ flow'.last_stats = time
  BY <1>1, <1>4, <1>5 DEF FlowTyped, FlowFields
<1> QED BY <1>1, <1>4, <1>5, <1>6 DEF FlowInv

LEMMA FlowStep == ASSUME Prompt PROVE FlowInv /\ [FlowNext]_flowVars => FlowInv'
<1> SUFFICES ASSUME FlowInv, [FlowNext]_flowVars PROVE FlowInv'
  OBVIOUS
<1>1. CASE UNCHANGED flowVars
  BY <1>1 DEF flowVars, FlowInv
<1>2. CASE \E t \in Flushers : ReadClock(t) \/ GetRemainingBytes(t) \/ FlushSends(t)
  BY <1>2, ReadClockStep, GetRemainingBytesStep, FlushSendsStep
<1> QED BY <1>1, <1>2, FlowTimeStep, SendUnaskedStep, SendMessageStep, SendAgainStep,
           OnACKStep, FlowTickStep DEF FlowNext

LEMMA FlowInvRight == FlowInv => FlowRight
<1> SUFFICES ASSUME FlowInv PROVE FlowRight
  OBVIOUS
<1> USE FlowConstants
<1> DEFINE a == flow.available
           e == time - flow.last_bw
<1>1. a \in Int /\ level \in Nat /\ e \in Nat
  BY DEF FlowInv, FlowTyped
<1>2. Second * a \in Int /\ e * HighLimit \in Nat
  BY <1>1
<1>3. AccountKept(a, e, level)
  BY DEF FlowInv
<1> HIDE DEF a, e
<1>4. Second * a + level <= 2 * (Second * Burst)
  BY <1>1, <1>2, <1>3 DEF AccountKept
<1>5. 2 * Second * Burst = 2 * (Second * Burst)
  OBVIOUS
<1>6. RateKept
  BY <1>4, <1>5 DEF RateKept, Burst, a
<1> QED BY <1>6 DEF FlowRight, RttSound, RateBounded, FlowInv, LongestTrip

(* However sends, idle times, losses and changes of the rate follow each other,
   what is on offer and what is on the line stay within two bursts, the
   round-trip estimate within the trips the network makes and the rate within
   its limits (FlowControl.cpp); for flushers that ask for bandwidth in the
   millisecond in which they read the clock. *)
THEOREM FlowCorrect == ASSUME Prompt PROVE FlowSpec => []FlowRight
<1>1. FlowInit => FlowInv
  BY FlowInitial
<1>2. FlowInv /\ [FlowNext]_flowVars => FlowInv'
  BY FlowStep
<1>3. FlowInv => FlowRight
  BY FlowInvRight
<1> QED BY <1>1, <1>2, <1>3, PTL DEF FlowSpec

-----------------------------------------------------------------------------
(* The wait queue of a reliable stream *)

RqIds == 0 .. RqWord - 1
RqAbove(S, i) == {j \in S : j > i}

(* The node the list begins with: while the queue runs the head is stale. *)
RqFront == IF rqAt.pc = "run" THEN rqAt.next ELSE rqHead

RqType ==
  /\ rqExpected \in RqIds /\ rqSize \in Int
  /\ rqStored \subseteq RqIds /\ IsFiniteSet(rqStored)
  /\ DOMAIN rqNodes = rqStored
  /\ \A i \in rqStored : rqExpected < i
  /\ rqAt.pc \in {"rest", "search", "run"}

RqLinked ==
  /\ LeadsTo(RqFront, rqStored)
  /\ \A i \in rqStored : LeadsTo(rqNodes[i].next, RqAbove(rqStored, i))

RqEnds(nodes, S, i) ==
  /\ nodes[i].eos \in S /\ i <= nodes[i].eos /\ nodes[i].eos + 1 \notin S
  /\ \A j \in i .. nodes[i].eos : j \in S

(* While the queue runs, the sequence it hands over has lost its first nodes. *)
RqSkips ==
  \A i \in rqStored :
    i - 1 \notin rqStored /\ (rqAt.pc = "run" => i # rqAt.next) => RqEnds(rqNodes, rqStored, i)

RqSearch ==
  rqAt.pc = "search" =>
    /\ rqAt.id \in RqIds /\ rqExpected < rqAt.id
    /\ rqAt.prev = RqNull => rqAt.next = rqHead
    /\ rqAt.prev # RqNull =>
         /\ rqAt.prev \in rqStored /\ rqAt.prev < rqAt.id
         /\ rqAt.next = rqNodes[rqAt.prev].next
         /\ rqAt.prev + 1 \notin rqStored
         /\ rqAt.seq \in rqStored /\ rqAt.seq - 1 \notin rqStored
         /\ rqNodes[rqAt.seq].eos = rqAt.prev

RqCounted ==
  rqSize = Cardinality(rqStored)
           + (IF rqAt.pc = "run" THEN rqAt.next - (rqExpected + 1) ELSE 0)

RqRunning == rqAt.pc = "run" => rqAt.next \in rqStored

RqInv == RqType /\ RqLinked /\ RqSkips /\ RqSearch /\ RqCounted /\ RqRunning

-----------------------------------------------------------------------------
LEMMA RqConstants ==
  /\ RqWord \in Nat /\ RqWord > 0 /\ RqFirst \in RqIds
  /\ RqNull \notin RqIds
BY RecvQueueAssumption DEF RqIds

(* Adding one to an id, with and without the wrap. *)
LEMMA RqSucc ==
  ASSUME NEW i \in RqIds
  PROVE  /\ i + 1 < RqWord => Succ(i) = i + 1
         /\ i + 1 >= RqWord => Succ(i) = 0
         /\ Succ(i) \in RqIds
<1> USE RqConstants
<1>1. i + 1 \in Nat /\ i + 1 <= RqWord
  BY DEF RqIds
<1>2. i + 1 < RqWord => (i + 1) % RqWord = i + 1
  BY <1>1
<1>3. i + 1 >= RqWord => i + 1 = RqWord
  BY <1>1
<1>4. RqWord % RqWord = 0
  OBVIOUS
<1> QED
  BY <1>1, <1>2, <1>3, <1>4 DEF Succ, RqIds

(* Taking one from an id that is not the first. *)
LEMMA RqPred ==
  ASSUME NEW i \in RqIds, i > 0
  PROVE  (i - 1) % RqWord = i - 1 /\ i - 1 \in RqIds
BY RqConstants DEF RqIds

(* The number of ids the run handed over, computed across the wrap. *)
LEMMA RqTaken ==
  ASSUME NEW e \in RqIds, NEW x \in RqIds, e < x
  PROVE  (Succ(x) - Succ(e)) % RqWord = x - e
<1> USE RqConstants
<1>1. Succ(e) = e + 1
  BY RqSucc DEF RqIds
<1>2. CASE x + 1 < RqWord
  <2>1. Succ(x) = x + 1
    BY RqSucc, <1>2
  <2>2. (x + 1) - (e + 1) = x - e /\ x - e \in 0 .. RqWord - 1
    BY DEF RqIds
  <2> QED BY <1>1, <2>1, <2>2
<1>3. CASE x + 1 >= RqWord
  <2>1. Succ(x) = 0 /\ x = RqWord - 1
    BY RqSucc, <1>3 DEF RqIds
  <2>2. 0 - (e + 1) \in Int /\ x - e \in 0 .. RqWord - 1 /\ 0 - (e + 1) = (x - e) - RqWord
    BY <2>1 DEF RqIds
  <2>3. ((x - e) - RqWord) % RqWord = x - e
    BY <2>2
  <2> QED BY <1>1, <2>1, <2>2, <2>3
<1> QED BY <1>2, <1>3 DEF RqIds

-----------------------------------------------------------------------------
(* What the invariant says of the first node. *)
LEMMA RqNodes ==
  ASSUME RqInv
  PROVE  /\ RqNull \notin rqStored
         /\ \A i \in rqStored : i \in Int /\ i \in RqIds /\ i > 0 /\ rqExpected < i
         /\ rqExpected \in Int /\ rqExpected \in RqIds
<1>1. rqExpected \in RqIds /\ rqStored \subseteq RqIds /\ \A i \in rqStored : rqExpected < i
  BY DEF RqInv, RqType
<1>2. RqNull \notin rqStored
  BY <1>1, RqConstants
<1>3. rqExpected \in Int /\ rqExpected >= 0
  BY <1>1, RqConstants DEF RqIds
<1>4. ASSUME NEW i \in rqStored
      PROVE  i \in Int /\ i \in RqIds /\ i > 0 /\ rqExpected < i
  <2>1. i \in RqIds /\ rqExpected < i
    BY <1>1
  <2>2. i \in Int
    BY <2>1, RqConstants DEF RqIds
  <2> QED BY <2>1, <2>2, <1>3
<1> QED BY <1>1, <1>2, <1>3, <1>4

LEMMA RqInitially == RecvQueueInit => RqInv
<1> SUFFICES ASSUME RecvQueueInit PROVE RqInv
  OBVIOUS
<1> USE DEF RecvQueueInit, RqRest, RqAt
<1>1. RqType
  BY RqConstants, FS_EmptySet DEF RqType
<1>2. RqLinked /\ RqSkips /\ RqSearch /\ RqRunning
  BY DEF RqLinked, RqSkips, RqSearch, RqRunning, RqFront, LeadsTo
<1>3. RqCounted
  BY FS_EmptySet DEF RqCounted
<1> QED BY <1>1, <1>2, <1>3 DEF RqInv

(* An id that arrives early: the search begins at the head. *)
LEMMA RqStore ==
  ASSUME RqInv, ~AcrossWrap, NEW id \in RqIds, StoreOutOfOrder(id)
  PROVE  RqInv'
<1> USE DEF StoreOutOfOrder, RqAt
<1>1. RqType'
  BY DEF RqInv, RqType
<1>2. RqLinked' /\ RqSkips' /\ RqRunning'
  BY DEF RqInv, RqLinked, RqSkips, RqRunning, RqFront, LeadsTo, RqAbove, RqEnds
<1>3. RqSearch'
  BY RqNodes DEF RqInv, RqSearch, RqIds
<1>4. RqCounted'
  BY DEF RqInv, RqCounted
<1> QED BY <1>1, <1>2, <1>3, <1>4 DEF RqInv

(* The node the search is at begins a sequence. *)
LEMMA RqAtStart ==
  ASSUME RqInv, rqAt.pc = "search", rqAt.next # RqNull
  PROVE  /\ rqAt.next \in rqStored /\ rqAt.next - 1 \notin rqStored
         /\ RqEnds(rqNodes, rqStored, rqAt.next)
<1>1. CASE rqAt.prev = RqNull
  <2>1. LeadsTo(rqAt.next, rqStored)
    BY <1>1 DEF RqInv, RqLinked, RqFront, RqSearch
  <2>2. rqAt.next \in rqStored /\ \A j \in rqStored : rqAt.next <= j
    BY <2>1 DEF LeadsTo
  <2>3. rqAt.next - 1 \notin rqStored
    BY <2>2, RqNodes
  <2> QED BY <2>2, <2>3 DEF RqInv, RqSkips
<1>2. CASE rqAt.prev # RqNull
  <2>1. /\ rqAt.prev \in rqStored /\ rqAt.prev + 1 \notin rqStored
        /\ LeadsTo(rqAt.next, RqAbove(rqStored, rqAt.prev))
    BY <1>2 DEF RqInv, RqLinked, RqSearch
  <2>2. /\ rqAt.next \in rqStored /\ rqAt.next > rqAt.prev
        /\ \A j \in rqStored : j > rqAt.prev => rqAt.next <= j
    BY <2>1 DEF LeadsTo, RqAbove
  <2>3. rqAt.next - 1 \notin rqStored
    <3> SUFFICES ASSUME rqAt.next - 1 \in rqStored PROVE FALSE
      OBVIOUS
    <3>1. rqAt.next \in Int /\ rqAt.prev \in Int
      BY <2>1, <2>2, RqNodes
    <3>2. ~(rqAt.next - 1 > rqAt.prev)
      BY <2>2, <3>1
    <3>3. rqAt.next = rqAt.prev + 1
      BY <2>2, <3>1, <3>2
    <3> QED BY <3>3, <2>1, <2>2
  <2> QED BY <2>2, <2>3 DEF RqInv, RqSkips
<1> QED BY <1>1, <1>2

(* A turn of the search. *)
LEMMA RqSearchOn ==
  ASSUME RqInv, SearchOn
  PROVE  RqInv'
<1> DEFINE n == rqAt.next
           e == rqNodes[n].eos
<1>0. rqAt.pc = "search" /\ n # RqNull /\ ~(rqAt.id < n)
  BY DEF SearchOn, PlaceFound
<1>1. n \in rqStored /\ n - 1 \notin rqStored /\ e \in rqStored /\ e + 1 \notin rqStored
  BY <1>0, RqAtStart DEF RqEnds
<1>2. UNCHANGED <<rqNodes, rqHead, rqSize, rqExpected, rqHanded, rqStored>>
  BY DEF SearchOn
<1>3. \/ rqAt' = RqRest
      \/ /\ ~(rqAt.id <= e)
         /\ rqAt' = RqAt("search", rqAt.id, rqNodes[e].next, e, n, rqAt.loops + 1)
  BY DEF SearchOn, Within
<1>4. rqAt'.pc \in {"rest", "search"}
  BY <1>3 DEF RqRest, RqAt
<1>5. RqType' /\ RqRunning'
  BY <1>2, <1>4 DEF RqInv, RqType, RqRunning
<1>6. RqLinked' /\ RqSkips' /\ RqCounted'
  BY <1>0, <1>2, <1>4 DEF RqInv, RqLinked, RqSkips, RqCounted, RqFront, LeadsTo, RqAbove, RqEnds
<1>7. RqSearch'
  <2>1. CASE rqAt' = RqRest
    BY <2>1 DEF RqSearch, RqRest, RqAt
  <2>2. CASE /\ ~(rqAt.id <= e)
             /\ rqAt' = RqAt("search", rqAt.id, rqNodes[e].next, e, n, rqAt.loops + 1)
    <3>1. rqAt.id \in RqIds /\ rqExpected < rqAt.id
      BY <1>0 DEF RqInv, RqSearch
    <3>2. e < rqAt.id /\ e # RqNull
      BY <2>2, <3>1, <1>1, RqNodes DEF RqIds
    <3>3. /\ rqAt'.id = rqAt.id /\ rqAt'.prev = e /\ rqAt'.seq = n
          /\ rqAt'.next = rqNodes[e].next
      BY <2>2 DEF RqAt
    <3> HIDE DEF n
    <3>4. rqNodes[n].eos = e
      OBVIOUS
    <3> HIDE DEF e
    <3> QED BY <3>1, <3>2, <3>3, <3>4, <1>1, <1>2 DEF RqSearch
  <2> QED BY <1>3, <2>1, <2>2
<1> QED BY <1>5, <1>6, <1>7 DEF RqInv

-----------------------------------------------------------------------------
(* Where the search ends is the place of the id: it does not wait yet, what
   waits before it is not behind prev, what waits after it not before next. *)
LEMMA RqPlace ==
  ASSUME RqInv, rqAt.pc = "search", PlaceFound
  PROVE  /\ rqAt.id \in Int /\ rqAt.id \in RqIds /\ rqAt.id > 0 /\ rqAt.id \notin rqStored
         /\ rqAt.prev = RqNull => \A j \in rqStored : rqAt.id < j
         /\ rqAt.prev # RqNull => \A j \in rqStored : j <= rqAt.prev \/ rqAt.id < j
         /\ rqAt.next = RqNull => \A j \in rqStored : j < rqAt.id
         /\ rqAt.next # RqNull => /\ rqAt.next \in rqStored /\ rqAt.id < rqAt.next
                                  /\ \A j \in rqStored : j < rqAt.id \/ rqAt.next <= j
<1>1. rqAt.id \in RqIds /\ rqExpected < rqAt.id
  BY DEF RqInv, RqSearch
<1>2. rqAt.id \in Int /\ rqAt.id > 0
  BY <1>1, RqNodes, RqConstants DEF RqIds
<1>3. rqAt.next # RqNull => rqAt.next \in rqStored /\ rqAt.id < rqAt.next
  BY RqAtStart DEF PlaceFound
<1>4. CASE rqAt.prev = RqNull
  <2>1. LeadsTo(rqAt.next, rqStored)
    BY <1>4 DEF RqInv, RqLinked, RqFront, RqSearch
  <2>2. rqAt.next = RqNull => rqStored = {}
    BY <2>1, RqNodes DEF LeadsTo
  <2>3. rqAt.next # RqNull => \A j \in rqStored : rqAt.next <= j
    BY <2>1 DEF LeadsTo
  <2>4. \A j \in rqStored : rqAt.id < j
    BY <2>2, <2>3, <1>2, <1>3, RqNodes
  <2> QED BY <1>1, <1>2, <1>3, <1>4, <2>2, <2>3, <2>4
<1>5. CASE rqAt.prev # RqNull
  <2>1. /\ rqAt.prev \in rqStored /\ rqAt.prev < rqAt.id
        /\ LeadsTo(rqAt.next, RqAbove(rqStored, rqAt.prev))
    BY <1>5 DEF RqInv, RqLinked, RqSearch
  <2>2. rqAt.next = RqNull => \A j \in rqStored : ~(j > rqAt.prev)
    BY <2>1, RqNodes DEF LeadsTo, RqAbove
  <2>3. rqAt.next # RqNull => \A j \in rqStored : j > rqAt.prev => rqAt.next <= j
    BY <2>1 DEF LeadsTo, RqAbove
  <2>4. \A j \in rqStored : j <= rqAt.prev \/ rqAt.id < j
    BY <2>1, <2>2, <2>3, <1>2, <1>3, RqNodes
  <2>5. rqAt.next = RqNull => \A j \in rqStored : j < rqAt.id
    BY <2>1, <2>2, <1>2, RqNodes
  <2>6. rqAt.next # RqNull => \A j \in rqStored : j < rqAt.id \/ rqAt.next <= j
    BY <2>1, <2>3, <1>2, RqNodes
  <2>7. rqAt.id \notin rqStored
    BY <2>1, <2>4, <1>2, RqNodes
  <2> QED BY <1>1, <1>2, <1>3, <1>5, <2>4, <2>5, <2>6, <2>7
<1> QED BY <1>4, <1>5

(* A number that is put among others, between prev and next, as sets see it:
   the one it leads to is next, prev leads to it, the others lead where they
   led. *)
LEMMA RqBetween ==
  ASSUME NEW S, \A j \in S : j \in Int, NEW id \in Int, id \notin S,
         NEW next,
         next = RqNull => \A j \in S : j < id,
         next # RqNull => /\ next \in S /\ id < next /\ \A j \in S : j < id \/ next <= j
  PROVE  LeadsTo(next, RqAbove(S \cup {id}, id))
<1>1. CASE next = RqNull
  <2>1. RqAbove(S \cup {id}, id) = {}
    BY <1>1 DEF RqAbove
  <2> QED BY <2>1, <1>1 DEF LeadsTo
<1>2. CASE next # RqNull
  <2>1. next \in RqAbove(S \cup {id}, id)
    BY <1>2 DEF RqAbove
  <2>2. \A j \in RqAbove(S \cup {id}, id) : next <= j
    BY <1>2 DEF RqAbove
  <2> QED BY <2>1, <2>2 DEF LeadsTo
<1> QED BY <1>1, <1>2


(* The fields of the nodes after the new one was put in. *)
RqNewNodes(id, next, prev, seq) ==
  /\ rqNodes'[id].next = next
  /\ ~Behind(id, prev) => rqNodes'[id].eos = EndWith(id, next)
  /\ \A i \in rqStored :
       /\ rqNodes'[i].next = IF i = prev THEN id ELSE rqNodes[i].next
       /\ rqNodes'[i].eos = IF Behind(id, prev) /\ i = seq THEN EndWith(id, next)
                            ELSE rqNodes[i].eos

LEMMA RqNewFields ==
  ASSUME RqInv, NEW id, NEW next, NEW prev, NEW seq, id \notin rqStored,
         rqNodes' = LinkedIn(id, next, prev, seq)
  PROVE  RqNewNodes(id, next, prev, seq) /\ DOMAIN rqNodes' = rqStored \cup {id}
<1>1. DOMAIN rqNodes = rqStored
  BY DEF RqInv, RqType
<1>2. DOMAIN rqNodes' = rqStored \cup {id}
  BY <1>1 DEF LinkedIn
<1>3. rqNodes'[id] = [next |-> next,
                      eos |-> IF Behind(id, prev) THEN RqGarbage ELSE EndWith(id, next)]
  BY <1>1 DEF LinkedIn
<1>4. ASSUME NEW i \in rqStored
      PROVE  rqNodes'[i] =
               [next |-> IF i = prev THEN id ELSE rqNodes[i].next,
                eos  |-> IF Behind(id, prev) /\ i = seq THEN EndWith(id, next)
                         ELSE rqNodes[i].eos]
  BY <1>1 DEF LinkedIn
<1> HIDE DEF Behind, EndWith
<1> QED BY <1>2, <1>3, <1>4 DEF RqNewNodes

(* Where a sequence that is lengthened by id ends. *)
LEMMA RqJoined ==
  ASSUME RqInv, rqAt.pc = "search", PlaceFound
  PROVE  LET e == EndWith(rqAt.id, rqAt.next) T == rqStored \cup {rqAt.id} IN
         /\ e \in T /\ rqAt.id <= e /\ e + 1 \notin T
         /\ \A j \in rqAt.id .. e : j \in T
<1> DEFINE id == rqAt.id
           next == rqAt.next
           T == rqStored \cup {id}
<1>1. /\ id \in Int /\ id \in RqIds /\ id > 0 /\ id \notin rqStored
      /\ next = RqNull => \A j \in rqStored : j < id
      /\ next # RqNull => /\ next \in rqStored /\ id < next
                          /\ \A j \in rqStored : j < id \/ next <= j
  BY RqPlace
<1>2. next # RqNull => next - 1 \notin rqStored /\ RqEnds(rqNodes, rqStored, next)
  BY RqAtStart
<1>3. \A i \in rqStored : i \in Int /\ i \in RqIds /\ i > 0
  BY RqNodes
<1>4. id + 1 < RqWord => Succ(id) = id + 1
  BY <1>1, RqSucc
<1>5. id + 1 >= RqWord => Succ(id) = 0
  BY <1>1, RqSucc
<1>6. RqWord \in Int
  BY RqConstants
<1> HIDE DEF id, next
<1>7. CASE Joins(id, next)
  <2>1. next # RqNull /\ next = id + 1 /\ EndWith(id, next) = rqNodes[next].eos
    BY <1>7, <1>1, <1>3, <1>4, <1>5, <1>6 DEF Joins, EndWith
  <2> DEFINE e == rqNodes[next].eos
  <2>2. e \in rqStored /\ next <= e /\ e + 1 \notin rqStored /\ \A j \in next .. e : j \in rqStored
    BY <2>1, <1>2 DEF RqEnds
  <2> HIDE DEF e
  <2>3. e \in Int /\ id <= e /\ e + 1 # id
    BY <2>1, <2>2, <1>1, <1>3
  <2>4. ASSUME NEW j \in id .. e PROVE j \in T
    BY <2>1, <2>2, <2>3, <1>1
  <2> QED BY <2>1, <2>2, <2>3, <2>4 DEF id, next, e
<1>8. CASE ~Joins(id, next)
  <2>1. EndWith(id, next) = id
    BY <1>8 DEF EndWith
  <2>2. id + 1 \notin rqStored
    <3> SUFFICES ASSUME id + 1 \in rqStored PROVE FALSE
      OBVIOUS
    <3>1. id + 1 < RqWord
      BY <1>3, <1>6, <1>1, RqConstants DEF RqIds
    <3>2. next # RqNull /\ next <= id + 1
      BY <1>1
    <3>3. next = id + 1
      BY <3>2, <1>1, <1>3
    <3> QED BY <3>1, <3>2, <3>3, <1>4, <1>8 DEF Joins
  <2>3. \A j \in id .. id : j \in T
    BY <1>1
  <2>4. id \in T /\ id <= id /\ id + 1 \notin T
    BY <2>2, <1>1
  <2> QED BY <2>1, <2>3, <2>4 DEF id, next
<1> QED BY <1>7, <1>8

(* Putting the id in its place keeps the order of the list, *)
LEMMA RqLinkOrder ==
  ASSUME RqInv, LinkIn
  PROVE  RqLinked'
<1> DEFINE id == rqAt.id
           next == rqAt.next
           prev == rqAt.prev
           T == rqStored \cup {id}
<1>0. rqAt.pc = "search" /\ PlaceFound /\ rqStored' = T
      /\ rqHead' = (IF prev = RqNull THEN id ELSE rqHead) /\ rqAt'.pc = "rest"
  BY DEF LinkIn, RqRest, RqAt
<1>1. /\ id \in Int /\ id > 0 /\ id \notin rqStored
      /\ prev = RqNull => \A j \in rqStored : id < j
      /\ prev # RqNull => \A j \in rqStored : j <= prev \/ id < j
      /\ next = RqNull => \A j \in rqStored : j < id
      /\ next # RqNull => /\ next \in rqStored /\ id < next
                          /\ \A j \in rqStored : j < id \/ next <= j
  BY <1>0, RqPlace
<1>2. RqNewNodes(id, next, prev, rqAt.seq)
  BY <1>0, <1>1, RqNewFields DEF LinkIn
<1>3. /\ prev # RqNull => prev \in rqStored /\ prev < id
      /\ LeadsTo(rqHead, rqStored)
      /\ \A i \in rqStored : LeadsTo(rqNodes[i].next, RqAbove(rqStored, i))
  BY <1>0 DEF RqInv, RqSearch, RqLinked, RqFront
<1>4. \A i \in rqStored : i \in Int
  BY RqNodes
<1>4a. RqNull \notin rqStored
  BY RqNodes
<1> HIDE DEF id, next, prev
<1>5. LeadsTo(rqHead', T)
  <2>1. CASE prev = RqNull
    <3>1. rqHead' = id /\ \A j \in T : id <= j
      BY <2>1, <1>0, <1>1, <1>4
    <3> QED BY <3>1 DEF LeadsTo
  <2>2. CASE prev # RqNull
    <3>1. rqHead' = rqHead /\ rqHead \in rqStored /\ \A j \in rqStored : rqHead <= j
      BY <2>2, <1>0, <1>3 DEF LeadsTo
    <3>2. rqHead <= prev /\ rqHead <= id
      BY <3>1, <2>2, <1>3, <1>4, <1>1
    <3> QED BY <3>1, <3>2 DEF LeadsTo
  <2> QED BY <2>1, <2>2
<1>6. ASSUME NEW i \in T
      PROVE  LeadsTo(rqNodes'[i].next, RqAbove(T, i))
  <2>1. CASE i = id
    <3>1. LeadsTo(next, RqAbove(T, id))
      BY <1>1, <1>4, RqBetween
    <3> QED BY <3>1, <2>1, <1>2 DEF RqNewNodes
  <2>2. CASE i # id /\ i = prev
    <3>1. i \in rqStored /\ rqNodes'[i].next = id
      BY <2>2, <1>2 DEF RqNewNodes
    <3>2. i < id /\ prev # RqNull
      BY <3>1, <2>2, <1>3, <1>4a
    <3>3. id \in RqAbove(T, i)
      BY <3>2, <1>1, <1>4, <3>1 DEF RqAbove
    <3>4. \A j \in RqAbove(T, i) : id <= j
      BY <3>2, <2>2, <1>1, <1>4 DEF RqAbove
    <3> QED BY <3>1, <3>3, <3>4 DEF LeadsTo
  <2>3. CASE i # id /\ i # prev
    <3>1. i \in rqStored /\ rqNodes'[i].next = rqNodes[i].next
      BY <2>3, <1>2 DEF RqNewNodes
    <3> DEFINE n == rqNodes[i].next
    <3>2. LeadsTo(n, RqAbove(rqStored, i))
      BY <3>1, <1>3
    <3> HIDE DEF n
    <3>3. CASE i > id
      <4>1. RqAbove(T, i) = RqAbove(rqStored, i)
        BY <3>3, <3>1, <1>1, <1>4 DEF RqAbove
      <4> QED BY <4>1, <3>1, <3>2 DEF n
    <3>4. CASE ~(i > id)
      <4>1. prev # RqNull /\ i < prev
        BY <3>4, <3>1, <2>3, <1>1, <1>3, <1>4
      <4>2. n \in rqStored /\ n > i /\ n <= prev /\ \A j \in rqStored : j > i => n <= j
        BY <4>1, <3>1, <3>2, <1>3, <1>4 DEF LeadsTo, RqAbove
      <4>3. n \in RqAbove(T, i) /\ n <= id
        BY <4>1, <4>2, <1>3, <1>1, <1>4 DEF RqAbove
      <4>4. \A j \in RqAbove(T, i) : n <= j
        BY <4>2, <4>3 DEF RqAbove
      <4> QED BY <4>3, <4>4, <3>1 DEF LeadsTo, n
    <3> QED BY <3>3, <3>4
  <2> QED BY <2>1, <2>2, <2>3
<1> QED BY <1>0, <1>5, <1>6 DEF RqLinked, RqFront

(* and the skip pointers. *)
LEMMA RqLinkSkips ==
  ASSUME RqInv, LinkIn
  PROVE  RqSkips'
<1> DEFINE id == rqAt.id
           next == rqAt.next
           prev == rqAt.prev
           seq == rqAt.seq
           T == rqStored \cup {id}
           end == EndWith(id, next)
<1>0. rqAt.pc = "search" /\ PlaceFound /\ rqStored' = T /\ rqAt'.pc = "rest"
  BY DEF LinkIn, RqRest, RqAt
<1>1. /\ id \in Int /\ id \in RqIds /\ id > 0 /\ id \notin rqStored
      /\ prev = RqNull => \A j \in rqStored : id < j
      /\ prev # RqNull => \A j \in rqStored : j <= prev \/ id < j
  BY <1>0, RqPlace
<1>2. RqNewNodes(id, next, prev, seq)
  BY <1>0, <1>1, RqNewFields DEF LinkIn
<1>3. /\ end \in T /\ id <= end /\ end + 1 \notin T
      /\ \A j \in id .. end : j \in T
  BY <1>0, RqJoined
<1>4. prev # RqNull =>
         /\ prev \in rqStored /\ prev < id
         /\ seq \in rqStored /\ seq - 1 \notin rqStored
         /\ rqNodes[seq].eos = prev
  BY <1>0 DEF RqInv, RqSearch
<1>5. \A i \in rqStored : i - 1 \notin rqStored => RqEnds(rqNodes, rqStored, i)
  BY <1>0 DEF RqInv, RqSkips
<1>6. \A i \in rqStored : i \in Int /\ i \in RqIds /\ i > 0
  BY RqNodes
<1>7. Behind(id, prev) <=> (prev # RqNull /\ prev + 1 = id)
  <2>1. CASE prev = RqNull
    BY <2>1 DEF Behind
  <2>2. CASE prev # RqNull
    <3>1. prev \in RqIds /\ prev + 1 < RqWord
      BY <2>2, <1>4, <1>6, <1>1, RqConstants DEF RqIds
    <3> QED BY <3>1, <2>2, RqSucc DEF Behind
  <2> QED BY <2>1, <2>2
<1>8. end \in Int
  BY <1>3, <1>6, <1>1
<1> HIDE DEF id, next, prev, seq, end
<1>9. ASSUME NEW i \in T, i - 1 \notin T
      PROVE  RqEnds(rqNodes', T, i)
  <2>1. CASE i = id
    <3>1. ~Behind(id, prev)
      <4> SUFFICES ASSUME prev # RqNull, prev + 1 = id PROVE FALSE
        BY <1>7
      <4>1. prev \in rqStored /\ prev \in Int
        BY <1>4, <1>6
      <4>2. prev = i - 1
        BY <4>1, <2>1, <1>1
      <4> QED BY <4>1, <4>2, <1>9
    <3>2. rqNodes'[i].eos = end
      BY <3>1, <2>1, <1>2 DEF RqNewNodes, end
    <3> QED BY <3>2, <2>1, <1>3 DEF RqEnds
  <2>2. CASE i # id
    <3>0. i \in rqStored /\ i - 1 \notin rqStored /\ i \in Int
      BY <2>2, <1>9, <1>6
    <3> DEFINE e == rqNodes[i].eos
    <3>1. e \in rqStored /\ i <= e /\ e + 1 \notin rqStored /\ \A j \in i .. e : j \in rqStored
      BY <3>0, <1>5 DEF RqEnds
    <3>2. rqNodes'[i].eos = IF Behind(id, prev) /\ i = seq THEN end ELSE e
      BY <3>0, <1>2 DEF RqNewNodes, end
    <3>3. i = seq /\ prev # RqNull => e = prev
      BY <1>4
    <3> HIDE DEF e
    <3>4. e \in Int
      BY <3>1, <1>6
    <3>5. CASE e + 1 # id
      <4>1. ~(Behind(id, prev) /\ i = seq)
        BY <3>5, <3>3, <1>7
      <4>2. rqNodes'[i].eos = e
        BY <4>1, <3>2
      <4> QED BY <4>2, <3>1, <3>5 DEF RqEnds
    <3>6. CASE e + 1 = id
      <4>1. prev # RqNull /\ e = prev
        <5>1. ~(id < e)
          BY <3>6, <3>4, <1>1
        <5>2. prev # RqNull
          BY <5>1, <3>1, <1>1
        <5>3. e <= prev
          BY <5>1, <5>2, <3>1, <1>1
        <5>4. prev \in Int /\ prev < id
          BY <5>2, <1>4, <1>6
        <5> QED BY <5>2, <5>3, <5>4, <3>4, <3>6, <1>1
      <4>2. Behind(id, prev)
        BY <4>1, <3>6, <1>7
      <4>3. /\ seq \in rqStored /\ seq - 1 \notin rqStored /\ seq \in Int
            /\ seq <= prev /\ \A j \in seq .. prev : j \in rqStored
        BY <4>1, <1>4, <1>5, <1>6 DEF RqEnds
      <4>4. i = seq
        <5>1. ~(i < seq)
          <6> SUFFICES ASSUME i < seq PROVE FALSE
            OBVIOUS
          <6>1. seq - 1 \in i .. e
            BY <4>1, <4>3, <3>0, <3>4
          <6> QED BY <6>1, <3>1, <4>3
        <5>2. ~(seq < i)
          <6> SUFFICES ASSUME seq < i PROVE FALSE
            OBVIOUS
          <6>1. i - 1 \in seq .. prev
            BY <4>1, <4>3, <3>0, <3>1, <3>4
          <6> QED BY <6>1, <3>0, <4>3
        <5> QED BY <5>1, <5>2, <3>0, <4>3
      <4>5. rqNodes'[i].eos = end
        BY <4>2, <4>4, <3>2
      <4>6. i <= end
        BY <3>0, <3>1, <3>4, <3>6, <1>1, <1>3, <1>8
      <4>7. ASSUME NEW j \in i .. end PROVE j \in T
        <5>1. j \in i .. e \/ j \in id .. end
          BY <3>0, <3>4, <3>6, <1>1, <1>8
        <5> QED BY <5>1, <3>1, <1>3
      <4> QED BY <4>5, <4>6, <4>7, <1>3 DEF RqEnds
    <3> QED BY <3>5, <3>6
  <2> QED BY <2>1, <2>2
<1> QED BY <1>0, <1>9 DEF RqSkips

LEMMA RqLinkIn ==
  ASSUME RqInv, LinkIn
  PROVE  RqInv'
<1>1. RqLinked' /\ RqSkips'
  BY RqLinkOrder, RqLinkSkips
<1>2. /\ rqAt.pc = "search" /\ PlaceFound /\ rqAt'.pc = "rest"
      /\ rqStored' = rqStored \cup {rqAt.id} /\ rqSize' = rqSize + 1
      /\ rqExpected' = rqExpected
  BY DEF LinkIn, RqRest, RqAt
<1>3. rqAt.id \in RqIds /\ rqAt.id \notin rqStored
  BY <1>2, RqPlace
<1>4. DOMAIN rqNodes' = rqStored \cup {rqAt.id}
  BY <1>3, RqNewFields DEF LinkIn
<1>5. IsFiniteSet(rqStored) /\ rqSize = Cardinality(rqStored) /\ rqSize \in Int
  BY <1>2, FS_CardinalityType DEF RqInv, RqType, RqCounted
<1>6. IsFiniteSet(rqStored') /\ Cardinality(rqStored') = Cardinality(rqStored) + 1
  BY <1>2, <1>3, <1>5, FS_AddElement
<1>7. rqExpected < rqAt.id
  BY <1>2 DEF RqInv, RqSearch
<1>8. RqType'
  BY <1>2, <1>3, <1>4, <1>5, <1>6, <1>7 DEF RqInv, RqType
<1>9. RqSearch' /\ RqRunning' /\ RqCounted'
  BY <1>2, <1>5, <1>6 DEF RqSearch, RqRunning, RqCounted
<1> QED BY <1>1, <1>8, <1>9 DEF RqInv

-----------------------------------------------------------------------------
(* The expected message arrives. *)
LEMMA RqReceive ==
  ASSUME RqInv, RunReceiveQueue
  PROVE  RqInv'
<1> DEFINE ack == Succ(rqExpected)
<1>1. rqAt.pc = "rest" /\ UNCHANGED <<rqNodes, rqHead, rqSize>>
  BY DEF RunReceiveQueue
<1>2. rqStored' = rqStored
  BY RqNodes DEF RunReceiveQueue
<1>3. LeadsTo(rqHead, rqStored)
  BY <1>1 DEF RqInv, RqLinked, RqFront
<1>4. \A i \in rqStored : LeadsTo(rqNodes[i].next, RqAbove(rqStored, i))
  BY DEF RqInv, RqLinked
<1>5. /\ rqExpected \in RqIds /\ ack \in RqIds
      /\ (rqExpected + 1 < RqWord => ack = rqExpected + 1)
      /\ (rqExpected + 1 >= RqWord => ack = 0)
  BY RqNodes, RqSucc
<1>6. \A i \in rqStored : i \in Int /\ i \in RqIds /\ i > 0 /\ rqExpected < i
  BY RqNodes
<1>7. /\ rqSize \in Int /\ rqSize = Cardinality(rqStored)
      /\ rqStored \subseteq RqIds /\ IsFiniteSet(rqStored) /\ DOMAIN rqNodes = rqStored
  BY <1>1, FS_CardinalityType DEF RqInv, RqType, RqCounted
<1>8. RqWord \in Int /\ RqNull \notin rqStored
  BY RqConstants, RqNodes
<1>9. CASE IsReady(rqHead, ack)
  <2>1. rqAt'.pc = "run" /\ rqAt'.next = rqHead /\ rqExpected' = rqExpected
    BY <1>9 DEF RunReceiveQueue, RqAt
  <2>2. rqHead \in rqStored /\ rqHead = ack
    BY <1>9, <1>3 DEF IsReady, LeadsTo
  <2> HIDE DEF ack
  <2>3. rqHead = rqExpected + 1
    BY <2>2, <1>5, <1>6, <1>8 DEF RqIds
  <2>4. RqType'
    BY <2>1, <1>1, <1>2, <1>5, <1>6, <1>7 DEF RqType
  <2>5. RqLinked' /\ RqSearch' /\ RqRunning'
    BY <2>1, <2>2, <1>1, <1>2, <1>3, <1>4 DEF RqLinked, RqFront, RqSearch, RqRunning
  <2>6. RqSkips'
    BY <2>1, <1>1, <1>2 DEF RqInv, RqSkips, RqEnds
  <2>7. RqCounted'
    BY <2>1, <2>3, <1>1, <1>2, <1>5, <1>7 DEF RqCounted, RqIds
  <2> QED BY <2>4, <2>5, <2>6, <2>7 DEF RqInv
<1>10. CASE ~IsReady(rqHead, ack)
  <2>1. rqAt' = rqAt /\ rqExpected' = ack
    BY <1>10 DEF RunReceiveQueue
  <2>2. rqHead # RqNull => rqHead # ack
    BY <1>10 DEF IsReady
  <2> HIDE DEF ack
  <2>3. ASSUME NEW i \in rqStored PROVE ack < i
    <3>1. rqHead \in rqStored /\ rqHead <= i
      BY <1>3 DEF LeadsTo
    <3>2. rqHead # RqNull /\ rqHead # ack
      BY <3>1, <1>8, <2>2
    <3>3. rqExpected + 1 < RqWord
      BY <1>5, <1>6, <1>8 DEF RqIds
    <3> QED BY <3>1, <3>2, <3>3, <1>5, <1>6 DEF RqIds
  <2>4. RqType'
    BY <2>1, <2>3, <1>1, <1>2, <1>5, <1>7 DEF RqInv, RqType
  <2>5. RqLinked' /\ RqSearch' /\ RqRunning' /\ RqCounted'
    BY <2>1, <1>1, <1>2, <1>3, <1>4, <1>7 DEF RqLinked, RqFront, RqSearch, RqRunning, RqCounted
  <2>6. RqSkips'
    BY <2>1, <1>1, <1>2 DEF RqInv, RqSkips, RqEnds
  <2> QED BY <2>4, <2>5, <2>6 DEF RqInv
<1> QED BY <1>9, <1>10

(* A turn of the run: the least id that waits is handed over. *)
LEMMA RqTurn ==
  ASSUME RqInv, RunTurn
  PROVE  RqInv'
<1> DEFINE x == rqAt.next
           n == rqNodes[x].next
           S == rqStored \ {x}
<1>1. rqAt.pc = "run" /\ rqStored' = S /\ rqNodes' = [i \in DOMAIN rqNodes \ {x} |-> rqNodes[i]]
  BY DEF RunTurn
<1>2. x \in rqStored /\ LeadsTo(x, rqStored) /\ LeadsTo(n, RqAbove(rqStored, x))
  BY <1>1 DEF RqInv, RqRunning, RqLinked, RqFront
<1>3. \A i \in rqStored : i \in Int /\ i \in RqIds /\ i > 0 /\ rqExpected < i
  BY RqNodes
<1>4. /\ rqExpected \in RqIds /\ rqExpected \in Int /\ RqNull \notin rqStored /\ RqWord \in Int
  BY RqNodes, RqConstants
<1>5. \A i \in S : rqNodes'[i] = rqNodes[i]
  BY <1>1 DEF RqInv, RqType
<1>6. DOMAIN rqNodes' = S
  BY <1>1 DEF RqInv, RqType
<1>7. \A i \in rqStored : LeadsTo(rqNodes[i].next, RqAbove(rqStored, i))
  BY DEF RqInv, RqLinked
<1>8. IsFiniteSet(rqStored) /\ rqStored \subseteq RqIds
  BY DEF RqInv, RqType
<1>9. rqSize = Cardinality(rqStored) + (x - (rqExpected + 1)) /\ rqSize \in Int
  BY <1>1 DEF RqInv, RqCounted, RqType
<1>10. IsFiniteSet(S) /\ Cardinality(S) = Cardinality(rqStored) - 1
       /\ Cardinality(rqStored) \in Nat
  BY <1>8, <1>2, FS_RemoveElement, FS_CardinalityType
<1>11. \A i \in rqStored : i - 1 \notin rqStored /\ i # x => RqEnds(rqNodes, rqStored, i)
  BY <1>1 DEF RqInv, RqSkips
<1>12. \/ /\ IsReady(n, Succ(x))
          /\ rqAt'.pc = "run" /\ rqAt'.next = n
          /\ rqSize' = rqSize /\ rqExpected' = rqExpected
       \/ /\ ~IsReady(n, Succ(x))
          /\ rqAt'.pc = "rest"
          /\ rqSize' = rqSize - ((Succ(x) - Succ(rqExpected)) % RqWord)
          /\ rqHead' = n /\ rqExpected' = Succ(x)
  BY DEF RunTurn, RqAt, RqRest
<1>13. /\ Succ(x) \in RqIds
       /\ (x + 1 < RqWord => Succ(x) = x + 1)
       /\ (x + 1 >= RqWord => Succ(x) = 0)
  BY <1>2, <1>3, RqSucc
<1>14. (Succ(x) - Succ(rqExpected)) % RqWord = x - rqExpected
  BY <1>2, <1>3, <1>4, RqTaken
<1> HIDE DEF x, n, S
<1>15. \A j \in rqStored : x <= j
  BY <1>2 DEF LeadsTo
<1>16. x \in Int /\ x \in RqIds /\ x > 0 /\ rqExpected < x
  BY <1>2, <1>3
<1>17. \A j \in S : j \in rqStored /\ x < j
  BY <1>15, <1>16, <1>3 DEF S
<1>18. RqAbove(rqStored, x) = S
  BY <1>17, <1>16, <1>3 DEF RqAbove, S
<1>19. LeadsTo(n, S)
  BY <1>2, <1>18
<1>20. ASSUME NEW i \in S PROVE LeadsTo(rqNodes'[i].next, RqAbove(S, i))
  <2>1. RqAbove(S, i) = RqAbove(rqStored, i)
    BY <1>17, <1>16, <1>3 DEF RqAbove, S
  <2> QED BY <2>1, <1>5, <1>7, <1>17
<1>21. ASSUME NEW i \in S, i - 1 \notin S, i # x + 1
       PROVE  RqEnds(rqNodes', S, i)
  <2>1. i \in rqStored /\ i - 1 \notin rqStored /\ i # x /\ i \in Int /\ x < i
    BY <1>21, <1>16, <1>17, <1>3 DEF S
  <2> DEFINE e == rqNodes[i].eos
  <2>2. e \in rqStored /\ i <= e /\ e + 1 \notin rqStored /\ \A j \in i .. e : j \in rqStored
    BY <2>1, <1>11 DEF RqEnds
  <2>3. rqNodes'[i].eos = e
    BY <1>5
  <2> HIDE DEF e
  <2>4. e \in Int /\ e # x
    BY <2>1, <2>2, <1>3, <1>16
  <2>5. ASSUME NEW j \in i .. e PROVE j \in S
    BY <2>1, <2>2, <2>4, <1>16 DEF S
  <2>6. e \in S /\ e + 1 \notin S
    BY <2>2, <2>4 DEF S
  <2> QED BY <2>2, <2>3, <2>5, <2>6 DEF RqEnds
<1>22. CASE /\ IsReady(n, Succ(x))
            /\ rqAt'.pc = "run" /\ rqAt'.next = n
            /\ rqSize' = rqSize /\ rqExpected' = rqExpected
  <2>1. n \in S /\ n = Succ(x)
    BY <1>22, <1>19 DEF IsReady, LeadsTo
  <2>2. n = x + 1
    BY <2>1, <1>13, <1>17, <1>3, <1>4, <1>16 DEF RqIds
  <2>3. RqType'
    BY <1>1, <1>22, <1>4, <1>6, <1>8, <1>9, <1>10, <1>17, <1>3 DEF RqType
  <2>4. RqLinked' /\ RqRunning' /\ RqSearch'
    BY <1>1, <1>22, <1>19, <1>20, <2>1 DEF RqLinked, RqFront, RqRunning, RqSearch
  <2>5. RqSkips'
    BY <1>1, <1>22, <1>21, <2>2 DEF RqSkips
  <2>6. RqCounted'
    <3>1. rqSize = Cardinality(S) + ((x + 1) - (rqExpected + 1))
      BY <1>9, <1>10, <1>16, <1>4
    <3> QED BY <3>1, <2>2, <1>1, <1>22 DEF RqCounted
  <2> QED BY <2>3, <2>4, <2>5, <2>6 DEF RqInv
<1>23. CASE /\ ~IsReady(n, Succ(x))
            /\ rqAt'.pc = "rest"
            /\ rqSize' = rqSize - ((Succ(x) - Succ(rqExpected)) % RqWord)
            /\ rqHead' = n /\ rqExpected' = Succ(x)
  <2>1. rqSize' = rqSize - (x - rqExpected)
    BY <1>23, <1>14
  <2>2. rqSize' = Cardinality(S)
    BY <2>1, <1>9, <1>10, <1>16, <1>4
  <2>3. ASSUME NEW i \in S PROVE Succ(x) < i
    <3>1. n \in S /\ n <= i
      BY <1>19 DEF LeadsTo
    <3>2. n # Succ(x)
      BY <3>1, <1>17, <1>4, <1>23 DEF IsReady
    <3>3. x + 1 < RqWord /\ Succ(x) = x + 1
      BY <1>13, <1>17, <1>3, <1>4, <1>16 DEF RqIds
    <3>4. n \in Int /\ i \in Int /\ x < n
      BY <3>1, <1>17, <1>3
    <3> QED BY <3>1, <3>2, <3>3, <3>4, <1>16
  <2>4. x + 1 \notin S
    BY <2>3, <1>13, <1>17, <1>3, <1>4, <1>16 DEF RqIds
  <2>5. S \subseteq RqIds /\ Cardinality(S) \in Int
    BY <1>17, <1>3, <1>10
  <2>6. RqType'
    BY <1>1, <1>6, <1>10, <1>13, <1>23, <2>2, <2>3, <2>5 DEF RqType
  <2>7. RqLinked' /\ RqRunning' /\ RqSearch'
    BY <1>1, <1>19, <1>20, <1>23 DEF RqLinked, RqFront, RqRunning, RqSearch
  <2>8. RqSkips'
    BY <1>1, <1>21, <1>23, <2>4 DEF RqSkips
  <2>9. RqCounted'
    BY <1>1, <1>23, <2>2, <2>5 DEF RqCounted
  <2> QED BY <2>6, <2>7, <2>8, <2>9 DEF RqInv
<1> QED BY <1>12, <1>22, <1>23

-----------------------------------------------------------------------------
LEMMA RqStep == ~AcrossWrap /\ RqInv /\ [RecvQueueNext]_recvQueueVars => RqInv'
<1> SUFFICES ASSUME ~AcrossWrap, RqInv, [RecvQueueNext]_recvQueueVars PROVE RqInv'
  OBVIOUS
<1>1. CASE RunReceiveQueue
  BY <1>1, RqReceive
<1>2. CASE RunTurn
  BY <1>2, RqTurn
<1>3. CASE SearchOn
  BY <1>3, RqSearchOn
<1>4. CASE LinkIn
  BY <1>4, RqLinkIn
<1>5. CASE \E id \in 0 .. RqWord - 1 : StoreOutOfOrder(id)
  BY <1>5, RqStore DEF RqIds
<1>6. CASE UNCHANGED recvQueueVars
  BY <1>6 DEF recvQueueVars, RqInv, RqType, RqLinked, RqSkips, RqSearch, RqCounted, RqRunning,
              RqFront, RqEnds, RqAbove, LeadsTo
<1> QED BY <1>1, <1>2, <1>3, <1>4, <1>5, <1>6 DEF RecvQueueNext

LEMMA RqExact == RqInv => WaitQueueExact
<1> SUFFICES ASSUME RqInv, rqAt.pc # "run"
             PROVE  QueueIsSet /\ SkipsExact /\ NothingReadyWaits
  BY DEF WaitQueueExact
<1>1. \A i \in rqStored : i \in Int /\ i \in RqIds /\ i > 0 /\ rqExpected < i
  BY RqNodes
<1>2. NothingReadyWaits
  BY RqNodes DEF NothingReadyWaits
<1>3. QueueIsSet
  <2>1. IsFiniteSet(rqStored) /\ DOMAIN rqNodes = rqStored
    BY DEF RqInv, RqType
  <2>2. rqSize = Cardinality(rqStored)
    BY <2>1, FS_CardinalityType DEF RqInv, RqCounted
  <2> QED BY <2>1, <2>2 DEF RqInv, RqLinked, RqFront, RqAbove, QueueIsSet
<1>4. SkipsExact
  <2> SUFFICES ASSUME NEW i \in rqStored, (i - 1) % RqWord \notin rqStored
               PROVE  LET e == rqNodes[i].eos IN
                      /\ e \in rqStored /\ i <= e /\ Succ(e) \notin rqStored
                      /\ i .. e \subseteq rqStored
    BY DEF SkipsExact
  <2>1. i - 1 \notin rqStored
    BY <1>1, RqPred
  <2>2. RqEnds(rqNodes, rqStored, i)
    BY <2>1 DEF RqInv, RqSkips
  <2> DEFINE e == rqNodes[i].eos
  <2>3. e \in rqStored /\ i <= e /\ e + 1 \notin rqStored /\ \A j \in i .. e : j \in rqStored
    BY <2>2 DEF RqEnds
  <2> HIDE DEF e
  <2>4. Succ(e) \notin rqStored
    <3>1. e \in RqIds /\ e \in Int /\ RqWord \in Int
      BY <2>3, <1>1, RqConstants
    <3>2. Succ(e) = e + 1 \/ Succ(e) = 0
      BY <3>1, RqSucc
    <3> QED BY <3>2, <2>3, <1>1
  <2> QED BY <2>3, <2>4 DEF e
<1> QED BY <1>2, <1>3, <1>4

(* The skip list of a stream stands for the set of ids that wait, as long as
   none waits on the far side of the wrap (StoreReliableOutOfOrder compares the
   words themselves): for any word, any limits of the queue and of the search,
   any order of arrival and any duplicates. *)
THEOREM WaitCorrect ==
  ASSUME ~AcrossWrap
  PROVE  RecvQueueSpec => []WaitQueueExact
<1>1. RecvQueueInit => RqInv
  BY RqInitially
<1>2. RqInv /\ [RecvQueueNext]_recvQueueVars => RqInv'
  BY RqStep
<1>3. RqInv => WaitQueueExact
  BY RqExact
<1> QED BY <1>1, <1>2, <1>3, PTL DEF RecvQueueSpec

-----------------------------------------------------------------------------
(* The window against replays (ReplayWindow): no datagram is accepted twice
   and no IV is used twice, for every size of the window and of its words. *)

USE WindowAssumption

------------------------------------------------------------------------------
(* Words and bits *)

\* Quotient and remainder are unique.
LEMMA DivModUnique ==
    ASSUME NEW m \in Nat \ {0}, NEW q \in Int, NEW r \in 0 .. (m - 1),
           NEW x \in Int, x = m * q + r
    PROVE  x \div m = q /\ (x % m) = r
<1> DEFINE qx == x \div m
           rx == x % m
<1>1. qx \in Int /\ rx \in 0 .. (m - 1) /\ x = m * qx + rx
  BY DivMod
<1> HIDE DEF qx, rx
<1>2. m * (qx - q) = m * qx - m * q  BY <1>1, SMT
<1>3. qx - q = 0  BY <1>1, <1>2, SmallMultiple
<1>4. qx = q  BY <1>1, <1>3
<1> QED BY <1>1, <1>4 DEF qx, rx

\* A distance inside the window has a word and a bit of it.
LEMMA WordIndex ==
    ASSUME NEW d \in Nat, d < Bits
    PROVE  /\ d \div WordBits \in 0 .. (Words - 1) /\ (d % WordBits) \in 0 .. (WordBits - 1)
           /\ d = WordBits * (d \div WordBits) + (d % WordBits)
<1> DEFINE q == d \div WordBits
           r == d % WordBits
<1>1. q \in Int /\ r \in 0 .. (WordBits - 1) /\ d = WordBits * q + r
  BY DivMod
<1> HIDE DEF q, r
<1>2. q >= 0
  <2> SUFFICES ASSUME q <= -1 PROVE FALSE  BY <1>1
  <2>1. WordBits * q <= WordBits * (-1)  BY <1>1, SMT
  <2> QED BY <2>1, <1>1
<1>3. q < Words
  <2> SUFFICES ASSUME q >= Words PROVE FALSE  BY <1>1
  <2>1. WordBits * q >= WordBits * Words  BY <1>1, SMT
  <2> QED BY <2>1, <1>1 DEF Bits
<1> QED BY <1>1, <1>2, <1>3 DEF q, r

\* Moving the window keeps every mark that stays inside it.
LEMMA MarkedShifted ==
    ASSUME NEW map \in [0 .. (Words - 1) -> SUBSET (0 .. (WordBits - 1))],
           NEW d \in Nat, NEW e \in Nat, d + e < Bits, NEW wraps, Marked(map, d)
    PROVE  Marked(Shifted(map, e, wraps), d + e)
<1> DEFINE i == d \div WordBits
           p == d % WordBits
           w == e \div WordBits
           b == e % WordBits
<1>1. /\ i \in 0 .. (Words - 1) /\ p \in 0 .. (WordBits - 1) /\ d = WordBits * i + p
      /\ w \in 0 .. (Words - 1) /\ b \in 0 .. (WordBits - 1) /\ e = WordBits * w + b
  <2>0. d \in Nat /\ e \in Nat /\ d < Bits /\ e < Bits  BY DEF Bits
  <2> QED BY <2>0, WordIndex
<1>2. p \in map[i]
  BY DEF Marked
<1>3. Shifted(map, e, wraps) = [j \in 0 .. (Words - 1) |->
           (IF j >= w THEN ShiftLeft(map[j-w], b) ELSE {})
           \union (IF j > w THEN ShiftRight(map[j-w-1], WordBits - b, wraps) ELSE {})
           \union (IF j = 0 THEN {0} ELSE {})]
  BY DEF Shifted
<1>4. PICK x \in Nat : x = d + e /\ x < Bits
  OBVIOUS
<1> HIDE DEF i, p, w, b
<1> SUFFICES Marked(Shifted(map, e, wraps), x)
  BY <1>4
<1>5. x \div WordBits \in 0 .. (Words - 1)
  BY <1>4, WordIndex
<1>6. WordBits * (i + w) = WordBits * i + WordBits * w
  BY <1>1, SMT
<1>7. CASE p + b < WordBits
  <2>1. x \div WordBits = i + w /\ (x % WordBits) = p + b
    <3>1. x = WordBits * (i + w) + (p + b)  BY <1>1, <1>4, <1>6
    <3>2. p + b \in 0 .. (WordBits - 1) /\ i + w \in Int  BY <1>1, <1>7
    <3> DEFINE qx == x \div WordBits
               rx == x % WordBits
               q == i + w
               r == p + b
    <3>4. qx \in Int /\ rx \in 0 .. (WordBits - 1) /\ x = WordBits * qx + rx
      BY DivMod
    <3>5. q \in Int /\ r \in 0 .. (WordBits - 1) /\ x = WordBits * q + r
      BY <3>1, <3>2
    <3> HIDE DEF qx, rx, q, r
    <3>6. WordBits * (qx - q) = WordBits * qx - WordBits * q  BY <3>4, <3>5, SMT
    <3>7. WordBits * (qx - q) = r - rx  BY <3>4, <3>5, <3>6
    <3>8. qx - q = 0  BY <3>4, <3>5, <3>7, SmallMultiple
    <3>9. qx = q /\ rx = r  BY <3>4, <3>5, <3>7, <3>8
    <3> QED BY <3>9 DEF qx, rx, q, r
  <2>2. i + w \in 0 .. (Words - 1) /\ i + w >= w /\ (i + w) - w = i
    BY <2>1, <1>5, <1>1
  <2>3. p + b \in ShiftLeft(map[i], b)
    <3>1. p + b \in 0 .. (WordBits - 1) /\ (p + b) - b = p  BY <1>1, <1>7
    <3> QED BY <3>1, <1>2 DEF ShiftLeft
  <2>4. p + b \in Shifted(map, e, wraps)[i + w]
    <3> DEFINE j == i + w
    <3>1. /\ j \in 0 .. (Words - 1) /\ j >= w
          /\ ShiftLeft(map[j-w], b) \subseteq Shifted(map, e, wraps)[j]
      BY <2>2, <1>3
    <3>2. map[j-w] = map[i]  BY <2>2
    <3> QED BY <3>1, <3>2, <2>3
  <2> QED BY <2>1, <2>4 DEF Marked
<1>8. CASE p + b >= WordBits
  <2>1. x \div WordBits = i + w + 1 /\ (x % WordBits) = p + b - WordBits
    <3>1. WordBits * (i + w + 1) = WordBits * (i + w) + WordBits  BY <1>1, SMT
    <3>2. x = WordBits * (i + w + 1) + (p + b - WordBits)  BY <1>1, <1>4, <1>6, <3>1
    <3>3. p + b - WordBits \in 0 .. (WordBits - 1) /\ i + w + 1 \in Int  BY <1>1, <1>8
    <3> DEFINE qx == x \div WordBits
               rx == x % WordBits
               q == i + w + 1
               r == p + b - WordBits
    <3>4. qx \in Int /\ rx \in 0 .. (WordBits - 1) /\ x = WordBits * qx + rx
      BY DivMod
    <3>5. q \in Int /\ r \in 0 .. (WordBits - 1) /\ x = WordBits * q + r
      BY <3>2, <3>3
    <3> HIDE DEF qx, rx, q, r
    <3>6. WordBits * (qx - q) = WordBits * qx - WordBits * q  BY <3>4, <3>5, SMT
    <3>7. WordBits * (qx - q) = r - rx  BY <3>4, <3>5, <3>6
    <3>8. qx - q = 0  BY <3>4, <3>5, <3>7, SmallMultiple
    <3>9. qx = q /\ rx = r  BY <3>4, <3>5, <3>7, <3>8
    <3> QED BY <3>9 DEF qx, rx, q, r
  <2>2. i + w + 1 \in 0 .. (Words - 1) /\ i + w + 1 > w /\ (i + w + 1) - w - 1 = i
    BY <2>1, <1>5, <1>1
  <2>3. p + b - WordBits \in ShiftRight(map[i], WordBits - b, wraps)
    <3>1. /\ p + b - WordBits \in 0 .. (WordBits - 1) /\ WordBits - b < WordBits
          /\ (p + b - WordBits) + (WordBits - b) = p
      BY <1>1, <1>8
    <3> QED BY <3>1, <1>2 DEF ShiftRight
  <2>4. p + b - WordBits \in Shifted(map, e, wraps)[i + w + 1]
    <3> DEFINE j == i + w + 1
    <3>1. /\ j \in 0 .. (Words - 1) /\ j > w
          /\ ShiftRight(map[j-w-1], WordBits - b, wraps) \subseteq Shifted(map, e, wraps)[j]
      BY <2>2, <1>3
    <3>2. map[j-w-1] = map[i]  BY <2>2
    <3> QED BY <3>1, <3>2, <2>3
  <2> QED BY <2>1, <2>4 DEF Marked
<1> QED BY <1>1, <1>7, <1>8

\* Zero is bit 0 of word 0.
LEMMA ZeroBit == 0 \div WordBits = 0 /\ (0 % WordBits) = 0
<1>1. 0 = WordBits * 0 + 0 /\ 0 \in 0 .. (WordBits - 1)  OBVIOUS
<1> QED BY <1>1, DivModUnique

\* A window that has been moved is a window, with the newest IV marked.
LEMMA ShiftedType ==
    ASSUME NEW map \in [0 .. (Words - 1) -> SUBSET (0 .. (WordBits - 1))],
           NEW e \in Nat, e < Bits, NEW wraps \in BOOLEAN
    PROVE  /\ Shifted(map, e, wraps)
                \in [0 .. (Words - 1) -> SUBSET (0 .. (WordBits - 1))]
           /\ Marked(Shifted(map, e, wraps), 0)
<1>1. e \div WordBits \in 0 .. (Words - 1) /\ (e % WordBits) \in 0 .. (WordBits - 1)
  BY WordIndex
<1> DEFINE w == e \div WordBits
           b == e % WordBits
           at(j) == (IF j >= w THEN ShiftLeft(map[j-w], b) ELSE {})
                    \union (IF j > w THEN ShiftRight(map[j-w-1], WordBits - b, wraps) ELSE {})
                    \union (IF j = 0 THEN {0} ELSE {})
<1>2. Shifted(map, e, wraps) = [j \in 0 .. (Words - 1) |-> at(j)]
  BY DEF Shifted
<1>3. ASSUME NEW j \in 0 .. (Words - 1)
      PROVE  at(j) \subseteq 0 .. (WordBits - 1)
  <2> HIDE DEF w, b
  <2>1. j >= w => ShiftLeft(map[j-w], b) \subseteq 0 .. (WordBits - 1)
    BY DEF ShiftLeft
  <2>2. j > w => ShiftRight(map[j-w-1], WordBits - b, wraps) \subseteq 0 .. (WordBits - 1)
    <3> SUFFICES ASSUME j > w
                 PROVE  ShiftRight(map[j-w-1], WordBits - b, wraps) \subseteq 0 .. (WordBits - 1)
      OBVIOUS
    <3>1. j - w - 1 \in 0 .. (Words - 1)  BY <1>1 DEF w
    <3>2. map[j-w-1] \subseteq 0 .. (WordBits - 1)  BY <3>1
    <3> QED BY <3>2 DEF ShiftRight
  <2>3. 0 \in 0 .. (WordBits - 1)  OBVIOUS
  <2> QED BY <2>1, <2>2, <2>3
<1>4. 0 \in Shifted(map, e, wraps)[0]
  BY <1>2
<1> HIDE DEF at
<1>5. Shifted(map, e, wraps) \in [0 .. (Words - 1) -> SUBSET (0 .. (WordBits - 1))]
  BY <1>2, <1>3
<1> QED BY <1>4, <1>5, ZeroBit DEF Marked

------------------------------------------------------------------------------
(* The window *)

\* Setting a bit keeps the others.
LEMMA WithBitMarks ==
    ASSUME NEW map \in [0 .. (Words - 1) -> SUBSET (0 .. (WordBits - 1))],
           NEW d \in Nat, d < Bits
    PROVE  /\ WithBit(map, d) \in [0 .. (Words - 1) -> SUBSET (0 .. (WordBits - 1))]
           /\ Marked(WithBit(map, d), d)
           /\ \A e \in Nat : e < Bits /\ Marked(map, e) => Marked(WithBit(map, d), e)
<1> DEFINE i == d \div WordBits
           p == d % WordBits
<1>1. i \in 0 .. (Words - 1) /\ p \in 0 .. (WordBits - 1)
  BY WordIndex
<1>2. WithBit(map, d) = [map EXCEPT ![i] = map[i] \union {p}]
  BY DEF WithBit
<1> HIDE DEF i, p
<1>3. WithBit(map, d) \in [0 .. (Words - 1) -> SUBSET (0 .. (WordBits - 1))]
  BY <1>1, <1>2
<1>4. p \in WithBit(map, d)[i]
  BY <1>1, <1>2
<1>5. \A j \in 0 .. (Words - 1) : map[j] \subseteq WithBit(map, d)[j]
  BY <1>1, <1>2
<1>6. ASSUME NEW e \in Nat, e < Bits, Marked(map, e)
      PROVE  Marked(WithBit(map, d), e)
  <2>1. e \div WordBits \in 0 .. (Words - 1)  BY <1>6, WordIndex
  <2> QED BY <2>1, <1>5, <1>6 DEF Marked
<1> QED BY <1>3, <1>4, <1>6 DEF Marked, i, p

\* The sender's steps: a fresh range is above everything used, and a thread
\* uses up its own range only.
LEMMA SenderOK ==
    ASSUME IInv, NEW t \in Threads,
           Encrypt(t) \/ \E n \in 1 .. MaxRange : GrabIVRange(t, n)
    PROVE  IInv'
<1>1. UNCHANGED <<remoteIv, bitmap, inOrder, accepted>>
  BY DEF Encrypt, GrabIVRange
<1>2. AcceptedOnce' /\ WindowInv'
  BY <1>1 DEF IInv, AcceptedOnce, WindowInv, Marked
<1>3. CASE Encrypt(t)
  <2> DEFINE iv == range[t].from
  <2>1. /\ localIv \in Nat /\ range \in [Threads -> [from : Nat, to : Nat]]
        /\ sent \in [Ivs -> Nat] /\ iv \in Nat /\ range[t].to \in Nat /\ iv < range[t].to
    BY <1>3 DEF IInv, TypeOK, Encrypt
  <2>2. /\ localIv' = localIv /\ range' = [range EXCEPT ![t].from = iv + 1]
        /\ sent' = [sent EXCEPT ![iv] = sent[iv] + 1]
    BY <1>3, <2>1 DEF Encrypt
  <2>3. /\ range' \in [Threads -> [from : Nat, to : Nat]]
        /\ range'[t].from = iv + 1 /\ range'[t].to = range[t].to
        /\ \A u \in Threads : u # t => range'[u] = range[u]
    BY <2>1, <2>2
  <2>8. iv \in Ivs => sent[iv] = 0
    BY <2>1 DEF IInv, RangeInv
  <2> HIDE DEF iv
  <2>4. /\ sent' \in [Ivs -> Nat] /\ \A v \in Ivs : v # iv => sent'[v] = sent[v]
        /\ iv \in Ivs => sent'[iv] = 1
    <3>1. CASE iv \in Ivs  BY <2>1, <2>2, <2>8, <3>1
    <3>2. CASE iv \notin Ivs
      <4>1. sent' = sent  BY <2>1, <2>2, <3>2
      <4> QED BY <4>1, <2>1, <3>2
    <3> QED BY <3>1, <3>2
  <2>5. TypeOK'
    BY <1>1, <2>1, <2>2, <2>3, <2>4 DEF IInv, TypeOK
  <2>6. IvUsedOnce'
    <3> SUFFICES ASSUME NEW v \in Ivs PROVE sent'[v] <= 1  BY DEF IvUsedOnce
    <3>1. CASE v = iv  BY <2>4, <3>1
    <3>2. CASE v # iv  BY <2>4, <3>2 DEF IInv, IvUsedOnce
    <3> QED BY <3>1, <3>2
  <2>7. RangeInv'
    <3>1. /\ FirstIv <= localIv /\ FirstIv <= iv /\ iv < range[t].to /\ range[t].to <= localIv
      BY <2>1 DEF IInv, RangeInv, iv
    <3>2. \A v \in Ivs : v >= localIv' => sent'[v] = 0
      <4>1. \A v \in Ivs : v >= localIv => sent[v] = 0  BY DEF IInv, RangeInv
      <4>2. \A v \in Ivs : v >= localIv => v # iv  BY <3>1, <2>1 DEF Ivs
      <4> QED BY <4>1, <4>2, <2>2, <2>4
    <3>3. ASSUME NEW u \in Threads
          PROVE  /\ FirstIv <= range'[u].from /\ range'[u].from <= range'[u].to
                 /\ range'[u].to <= localIv'
                 /\ \A v \in Ivs : range'[u].from <= v /\ v < range'[u].to => sent'[v] = 0
      <4>1. CASE u = t
        <5>1. \A v \in Ivs : iv <= v /\ v < range[t].to => sent[v] = 0
          BY DEF IInv, RangeInv, iv
        <5>2. \A v \in Ivs : iv + 1 <= v /\ v < range[t].to => iv <= v /\ v # iv
          BY <2>1 DEF Ivs
        <5>3. \A v \in Ivs : iv + 1 <= v /\ v < range[t].to => sent'[v] = 0
          BY <5>1, <5>2, <2>4
        <5>4. FirstIv <= iv + 1 /\ iv + 1 <= range[t].to
          BY <3>1, <2>1
        <5> QED BY <5>3, <5>4, <4>1, <3>1, <2>2, <2>3
      <4>2. CASE u # t
        <5>1. /\ FirstIv <= range[u].from /\ range[u].from <= range[u].to
              /\ range[u].to <= localIv
              /\ \A v \in Ivs : range[u].from <= v /\ v < range[u].to => sent[v] = 0
          BY DEF IInv, RangeInv
        <5>2. \A v \in Ivs : ~(/\ iv <= v /\ v < range[t].to
                              /\ range[u].from <= v /\ v < range[u].to)
          BY <4>2 DEF IInv, RangeInv, iv
        <5>3. \A v \in Ivs : range[u].from <= v /\ v < range[u].to => v # iv
          BY <5>2, <2>1 DEF Ivs
        <5> QED BY <5>1, <5>3, <4>2, <2>2, <2>3, <2>4
      <4> QED BY <4>1, <4>2
    <3>4. ASSUME NEW u \in Threads, NEW z \in Threads, u # z, NEW v \in Ivs,
                 range'[u].from <= v /\ v < range'[u].to,
                 range'[z].from <= v /\ v < range'[z].to
          PROVE  FALSE
      <4>1. \A y \in Threads : range'[y].from <= v /\ v < range'[y].to
                                => range[y].from <= v /\ v < range[y].to
        <5> SUFFICES ASSUME NEW y \in Threads, range'[y].from <= v, v < range'[y].to
                     PROVE  range[y].from <= v /\ v < range[y].to
          OBVIOUS
        <5>1. CASE y = t
          <6>1. iv + 1 <= v => iv <= v  BY <2>1 DEF Ivs
          <6> QED BY <6>1, <5>1, <2>3 DEF iv
        <5>2. CASE y # t  BY <5>2, <2>3
        <5> QED BY <5>1, <5>2
      <4> QED BY <4>1, <3>4 DEF IInv, RangeInv
    <3> QED BY <3>1, <3>2, <3>3, <3>4, <2>2 DEF RangeInv
  <2> QED BY <1>2, <2>5, <2>6, <2>7 DEF IInv
<1>4. ASSUME NEW n \in 1 .. MaxRange, GrabIVRange(t, n)
      PROVE  IInv'
  <2>1. /\ localIv \in Nat /\ range \in [Threads -> [from : Nat, to : Nat]]
        /\ sent \in [Ivs -> Nat] /\ n \in Nat /\ n >= 1
    BY DEF IInv, TypeOK
  <2>2. /\ localIv' = localIv + n /\ sent' = sent
        /\ range' = [range EXCEPT ![t] = [from |-> localIv, to |-> localIv + n]]
    BY <1>4 DEF GrabIVRange
  <2>3. /\ range' \in [Threads -> [from : Nat, to : Nat]]
        /\ range'[t].from = localIv /\ range'[t].to = localIv + n
        /\ \A u \in Threads : u # t => range'[u] = range[u]
    BY <2>1, <2>2
  <2>4. TypeOK' /\ IvUsedOnce'
    BY <1>1, <2>1, <2>2, <2>3 DEF IInv, TypeOK, IvUsedOnce
  <2>5. RangeInv'
    <3>1. FirstIv <= localIv /\ \A v \in Ivs : v >= localIv => sent[v] = 0
      BY DEF IInv, RangeInv
    <3>2. ASSUME NEW u \in Threads, u # t
          PROVE  /\ range[u].from \in Nat /\ range[u].to \in Nat
                 /\ FirstIv <= range[u].from /\ range[u].from <= range[u].to
                 /\ range[u].to <= localIv
                 /\ \A v \in Ivs : range[u].from <= v /\ v < range[u].to => sent[v] = 0
      BY <2>1 DEF IInv, RangeInv
    <3>3. \A u \in Threads :
            /\ FirstIv <= range'[u].from /\ range'[u].from <= range'[u].to
            /\ range'[u].to <= localIv'
            /\ \A v \in Ivs : range'[u].from <= v /\ v < range'[u].to => sent'[v] = 0
      BY <3>1, <3>2, <2>1, <2>2, <2>3 DEF Ivs
    <3>4. ASSUME NEW u \in Threads, NEW z \in Threads, u # z, NEW v \in Ivs,
                 range'[u].from <= v /\ v < range'[u].to,
                 range'[z].from <= v /\ v < range'[z].to
          PROVE  FALSE
      <4>1. CASE u # t /\ z # t  BY <4>1, <3>4, <2>3 DEF IInv, RangeInv
      <4>2. CASE u = t  BY <4>2, <3>4, <3>2, <2>1, <2>3 DEF Ivs
      <4>3. CASE z = t  BY <4>3, <3>4, <3>2, <2>1, <2>3 DEF Ivs
      <4> QED BY <4>1, <4>2, <4>3
    <3>5. FirstIv <= localIv + n /\ \A v \in Ivs : v >= localIv + n => sent[v] = 0
      BY <3>1, <2>1 DEF Ivs
    <3> QED BY <3>3, <3>4, <3>5, <2>2 DEF RangeInv
  <2> QED BY <1>2, <2>4, <2>5 DEF IInv
<1> QED BY <1>3, <1>4

\* A datagram is accepted: its IV was not accepted before, is marked now, and
\* no mark that still counts is lost.
LEMMA DecryptOK ==
    ASSUME IInv, NEW iv \in Ivs, Decrypt(iv)
    PROVE  IInv'
<1>1. /\ remoteIv \in Nat /\ iv \in Nat /\ accepted \in [Ivs -> Nat]
      /\ bitmap \in [0 .. (Words - 1) -> SUBSET (0 .. (WordBits - 1))]
  BY DEF IInv, TypeOK, Ivs
<1>2. UNCHANGED <<localIv, range, sent, inOrder>>
  BY DEF Decrypt, senderVars
<1>3. accepted' = [accepted EXCEPT ![iv] = accepted[iv] + 1]
  BY DEF Decrypt
<1>4. Bits \in Nat
  BY DEF Bits
<1> DEFINE Maps == [0 .. (Words - 1) -> SUBSET (0 .. (WordBits - 1))]
           Follows(r, map) ==
             /\ remoteIv <= r /\ iv <= r
             /\ r - iv < Bits => Marked(map, r - iv)
             /\ \A d \in Nat : /\ d < Bits /\ Marked(bitmap, d)
                               /\ d + (r - remoteIv) < Bits
                               => Marked(map, d + (r - remoteIv))
<1>5. PICK r \in Nat, map \in Maps : remoteIv' = r /\ bitmap' = map /\ Follows(r, map)
  <2>1. CASE iv - remoteIv > 0 /\ iv - remoteIv >= Bits
    <3>1. remoteIv' = iv /\ bitmap' = Restarted
      BY <2>1 DEF Decrypt, AcceptIV
    <3>2. 0 \in Restarted[0]
      BY DEF Restarted
    <3>3. Marked(Restarted, 0)
      BY <3>2, ZeroBit DEF Marked
    <3>4. Restarted \in Maps
      BY DEF Restarted
    <3>5. iv - iv = 0 /\ remoteIv <= iv /\ \A d \in Nat : ~(d + (iv - remoteIv) < Bits)
      BY <1>1, <1>4, <2>1
    <3>7. Marked(Restarted, iv - iv)
      BY <3>3, <3>5
    <3>8. \A d \in Nat : /\ d < Bits /\ Marked(bitmap, d)
                        /\ d + (iv - remoteIv) < Bits
                        => Marked(Restarted, d + (iv - remoteIv))
      BY <3>5
    <3>9. iv <= iv
      BY <1>1
    <3>10. Follows(iv, Restarted)
      BY <3>5, <3>7, <3>8, <3>9
    <3> HIDE DEF Follows, Maps
    <3> QED BY <3>1, <3>4, <3>10, <1>1
  <2>2. CASE iv - remoteIv > 0 /\ iv - remoteIv < Bits
    <3>1. PICK wraps \in BOOLEAN :
             remoteIv' = iv /\ bitmap' = Shifted(bitmap, iv - remoteIv, wraps)
      BY <2>2, <1>1, <1>4 DEF Decrypt, AcceptIV
    <3> DEFINE e == iv - remoteIv
               shifted == Shifted(bitmap, e, wraps)
    <3>2. e \in Nat /\ e < Bits /\ iv - iv = 0 /\ remoteIv <= iv
      BY <2>2, <1>1
    <3>3. remoteIv' = iv /\ bitmap' = shifted
      BY <3>1
    <3> HIDE DEF e
    <3>4. shifted \in Maps /\ Marked(shifted, 0)
      BY <3>2, <1>1, ShiftedType
    <3>5. ASSUME NEW d \in Nat, Marked(bitmap, d), d + e < Bits
          PROVE  Marked(shifted, d + e)
      BY <3>5, <3>2, <1>1, MarkedShifted
    <3> HIDE DEF shifted
    <3>6. Follows(iv, shifted)
      BY <3>2, <3>4, <3>5, <1>1 DEF e
    <3> HIDE DEF Follows, Maps
    <3> QED BY <3>3, <3>4, <3>6, <1>1
  <2>3. CASE ~(iv - remoteIv > 0)
    <3> DEFINE e == remoteIv - iv
               marked == WithBit(bitmap, e)
    <3>1. e \in Nat /\ e < Bits /\ iv <= remoteIv /\ remoteIv - remoteIv = 0
      BY <2>3, <1>1 DEF Decrypt, IsValidIV
    <3>2. remoteIv' = remoteIv /\ bitmap' = marked
      <4>1. -(iv - remoteIv) = e  BY <1>1
      <4> QED BY <4>1, <2>3 DEF Decrypt, AcceptIV
    <3> HIDE DEF e
    <3>3. /\ marked \in Maps
          /\ Marked(marked, e)
          /\ \A d \in Nat : d < Bits /\ Marked(bitmap, d) => Marked(marked, d)
      BY <3>1, <1>1, WithBitMarks
    <3> HIDE DEF marked
    <3>4. \A d \in Nat : d + (remoteIv - remoteIv) = d  BY <1>1
    <3>5. Follows(remoteIv, marked)
      BY <3>1, <3>3, <3>4, <1>1 DEF e
    <3> HIDE DEF Follows, Maps
    <3> QED BY <3>2, <3>3, <3>5, <1>1
  <2> QED BY <2>1, <2>2, <2>3, <1>1, <1>4
<1>6. accepted[iv] = 0
  <2> SUFFICES ASSUME accepted[iv] > 0 PROVE FALSE  BY <1>1
  <2>1. /\ iv <= remoteIv
        /\ remoteIv - iv < Bits => Marked(bitmap, remoteIv - iv)
    BY DEF IInv, WindowInv
  <2> QED BY <2>1, <1>1 DEF Decrypt, IsValidIV
<1>7. /\ accepted' \in [Ivs -> Nat] /\ accepted'[iv] = 1
      /\ \A v \in Ivs : v # iv => accepted'[v] = accepted[v]
  BY <1>1, <1>3, <1>6
<1>8. TypeOK' /\ IvUsedOnce' /\ RangeInv'
  BY <1>2, <1>5, <1>7 DEF IInv, TypeOK, IvUsedOnce, RangeInv
<1>9. AcceptedOnce'
  <2> SUFFICES ASSUME NEW v \in Ivs PROVE accepted'[v] <= 1  BY DEF AcceptedOnce
  <2>1. CASE v = iv  BY <1>7, <2>1
  <2>2. CASE v # iv  BY <1>7, <2>2 DEF IInv, AcceptedOnce
  <2> QED BY <2>1, <2>2
<1>10. WindowInv'
  <2> SUFFICES ASSUME NEW v \in Ivs, accepted'[v] > 0
               PROVE  /\ v <= remoteIv'
                      /\ remoteIv' - v < Bits => Marked(bitmap', remoteIv' - v)
    BY DEF WindowInv
  <2>1. CASE v = iv  BY <1>5, <2>1
  <2>2. CASE v # iv
    <3>1. v <= remoteIv /\ (remoteIv - v < Bits => Marked(bitmap, remoteIv - v))
      BY <1>7, <2>2 DEF IInv, WindowInv
    <3> DEFINE d == remoteIv - v
               e == r - remoteIv
    <3>2. d \in Nat /\ e \in Nat /\ r - v = d + e /\ v <= r
      BY <3>1, <1>1, <1>5 DEF Ivs
    <3>3. d + e < Bits => d < Bits
      BY <3>2, <1>4
    <3>4. d + e < Bits => Marked(map, d + e)
      BY <3>1, <3>2, <3>3, <1>5
    <3> QED BY <3>2, <3>4, <1>5
  <2> QED BY <2>1, <2>2
<1> QED BY <1>8, <1>9, <1>10 DEF IInv

------------------------------------------------------------------------------
(* Theorems *)

\* The invariant holds in every state.  It rests on nothing but the types of
\* the constants: the number and width of the words, the range of the
\* truncated IV, the number of threads and the result of a shift by the
\* whole width are arbitrary.
THEOREM Invariance == Spec => []IInv
<1>1. Init => IInv
  <2> SUFFICES ASSUME Init PROVE IInv  OBVIOUS
  <2>1. /\ localIv = FirstIv /\ remoteIv = FirstIv /\ inOrder = FALSE
        /\ range = [t \in Threads |-> [from |-> FirstIv, to |-> FirstIv]]
        /\ sent = [iv \in Ivs |-> 0] /\ accepted = [iv \in Ivs |-> 0]
        /\ bitmap = [i \in 0 .. (Words - 1) |-> {}]
    BY DEF Init
  <2>2. TypeOK  BY <2>1 DEF TypeOK
  <2>3. AcceptedOnce /\ IvUsedOnce /\ WindowInv
    BY <2>1 DEF AcceptedOnce, IvUsedOnce, WindowInv
  <2>4. RangeInv  BY <2>1 DEF RangeInv, Ivs
  <2> QED BY <2>2, <2>3, <2>4 DEF IInv
<1>2. IInv /\ [Next]_vars => IInv'
  <2> SUFFICES ASSUME IInv, [Next]_vars PROVE IInv'  OBVIOUS
  <2>1. ASSUME NEW t \in Threads, Encrypt(t) \/ \E n \in 1 .. MaxRange : GrabIVRange(t, n)
        PROVE  IInv'
    BY <2>1, SenderOK
  <2>2. ASSUME NEW iv \in Ivs, Decrypt(iv) PROVE IInv'
    BY <2>2, DecryptOK
  <2>3. ASSUME NEW allowed \in BOOLEAN, AllowOutOfOrder(allowed) PROVE IInv'
    <3>1. /\ UNCHANGED <<localIv, range, sent, remoteIv, bitmap, accepted>>
          /\ inOrder' \in BOOLEAN
      BY <2>3 DEF AllowOutOfOrder, senderVars
    <3> QED BY <3>1 DEF IInv, TypeOK, AcceptedOnce, WindowInv, Marked, IvUsedOnce, RangeInv
  <2>4. CASE UNCHANGED vars
    BY <2>4 DEF vars, senderVars, IInv, TypeOK, AcceptedOnce, WindowInv, Marked, IvUsedOnce,
                RangeInv
  <2> QED BY <2>1, <2>2, <2>3, <2>4 DEF Next
<1> QED BY <1>1, <1>2, PTL DEF Spec

\* No datagram is accepted twice (IsValidIV, AcceptIV).
THEOREM NoReplay == Spec => []AcceptedOnce
<1>1. IInv => AcceptedOnce  BY DEF IInv
<1> QED BY <1>1, Invariance, PTL

\* No IV is used for two datagrams (GrabIVRange, Encrypt).
THEOREM NoIvReuse == Spec => []IvUsedOnce
<1>1. IInv => IvUsedOnce  BY DEF IInv
<1> QED BY <1>1, Invariance, PTL

------------------------------------------------------------------------------
(* Nothing else is marked *)

\* The place of a bit in the window determines its distance.
LEMMA SamePlace ==
    ASSUME NEW d \in Nat, d < Bits, NEW q \in Int, NEW r \in 0 .. (WordBits - 1),
           d = WordBits * q + r
    PROVE  d \div WordBits = q /\ (d % WordBits) = r
  BY DivModUnique

\* Setting a bit sets no other.
LEMMA WithBitOnly ==
    ASSUME NEW map \in [0 .. (Words - 1) -> SUBSET (0 .. (WordBits - 1))],
           NEW d \in Nat, d < Bits, NEW e \in Nat, e < Bits, Marked(WithBit(map, d), e)
    PROVE  e = d \/ Marked(map, e)
<1> DEFINE i == d \div WordBits
           p == d % WordBits
           j == e \div WordBits
           q == e % WordBits
<1>1. /\ i \in 0 .. (Words - 1) /\ p \in 0 .. (WordBits - 1) /\ d = WordBits * i + p
      /\ j \in 0 .. (Words - 1) /\ q \in 0 .. (WordBits - 1) /\ e = WordBits * j + q
  BY WordIndex
<1>2. WithBit(map, d) = [map EXCEPT ![i] = map[i] \union {p}] /\ q \in WithBit(map, d)[j]
  BY DEF WithBit, Marked
<1>3. q \in map[j] => Marked(map, e)
  BY DEF Marked
<1> HIDE DEF i, p, j, q
<1>4. q \in map[j] \/ (j = i /\ q = p)
  BY <1>1, <1>2
<1> QED BY <1>1, <1>3, <1>4

\* Moving the window sets no bit but the newest one, if a shift by the whole
\* width of a word clears it.
LEMMA ShiftedOnly ==
    ASSUME NEW map \in [0 .. (Words - 1) -> SUBSET (0 .. (WordBits - 1))],
           NEW e \in Nat, e < Bits, NEW x \in Nat, x < Bits,
           Marked(Shifted(map, e, FALSE), x)
    PROVE  x = 0 \/ (e <= x /\ Marked(map, x - e))
<1> DEFINE w == e \div WordBits
           b == e % WordBits
           j == x \div WordBits
           q == x % WordBits
<1>1. /\ w \in 0 .. (Words - 1) /\ b \in 0 .. (WordBits - 1) /\ e = WordBits * w + b
      /\ j \in 0 .. (Words - 1) /\ q \in 0 .. (WordBits - 1) /\ x = WordBits * j + q
  BY WordIndex
<1>2. q \in (IF j >= w THEN ShiftLeft(map[j-w], b) ELSE {})
            \union (IF j > w THEN ShiftRight(map[j-w-1], WordBits - b, FALSE) ELSE {})
            \union (IF j = 0 THEN {0} ELSE {})
  BY <1>1 DEF Shifted, Marked
<1> HIDE DEF w, b, j, q
<1>3. ASSUME NEW k \in Nat, NEW p \in 0 .. (WordBits - 1), p \in map[k],
             x - e = WordBits * k + p
      PROVE  e <= x /\ Marked(map, x - e)
  <2>1. WordBits * k \in Nat
    BY <1>3, SMT
  <2>2. PICK d \in Nat : d = x - e /\ d < Bits
    BY <1>3, <2>1 DEF Bits
  <2>3. d \div WordBits = k /\ (d % WordBits) = p
    BY <1>3, <2>2, SamePlace
  <2>4. Marked(map, d)
    BY <1>3, <2>3 DEF Marked
  <2>5. e <= x
    BY <2>2
  <2> QED BY <2>2, <2>4, <2>5
<1>4. CASE j >= w /\ q \in ShiftLeft(map[j-w], b)
  <2>1. j - w \in Nat /\ q - b \in map[j-w]
    BY <1>1, <1>4 DEF ShiftLeft
  <2>2. q - b \in 0 .. (WordBits - 1)
    <3>1. j - w \in 0 .. (Words - 1)
      BY <1>1, <1>4
    <3> QED BY <2>1, <3>1
  <2>3. x - e = WordBits * (j - w) + (q - b)
    <3>1. WordBits * (j - w) = WordBits * j - WordBits * w
      BY <1>1, SMT
    <3> QED BY <1>1, <3>1
  <2> QED BY <1>3, <2>1, <2>2, <2>3
<1>5. CASE j > w /\ q \in ShiftRight(map[j-w-1], WordBits - b, FALSE)
  <2>1. j - w - 1 \in Nat /\ q + (WordBits - b) \in map[j-w-1]
    BY <1>1, <1>5 DEF ShiftRight
  <2>2. q + (WordBits - b) \in 0 .. (WordBits - 1)
    <3>1. j - w - 1 \in 0 .. (Words - 1)
      BY <1>1, <1>5
    <3> QED BY <2>1, <3>1
  <2>3. x - e = WordBits * (j - w - 1) + (q + (WordBits - b))
    <3>1. WordBits * (j - w - 1) = (WordBits * j - WordBits * w) - WordBits
      BY <1>1, SMT
    <3> QED BY <1>1, <3>1
  <2> QED BY <1>3, <2>1, <2>2, <2>3
<1>6. CASE j = 0 /\ q = 0
  BY <1>1, <1>6
<1> QED BY <1>2, <1>4, <1>5, <1>6

\* A datagram that is accepted adds no mark but its own.
LEMMA DecryptMarks ==
    ASSUME IInv, MarkedIsAccepted, ShiftByWidth \subseteq {FALSE}, NEW iv \in Ivs, Decrypt(iv)
    PROVE  MarkedIsAccepted'
<1>1. /\ remoteIv \in Nat /\ iv \in Nat /\ accepted \in [Ivs -> Nat] /\ Bits \in Nat
      /\ bitmap \in [0 .. (Words - 1) -> SUBSET (0 .. (WordBits - 1))]
  BY DEF IInv, TypeOK, Ivs, Bits
<1>2. accepted'[iv] > 0 /\ \A v \in Ivs : accepted[v] > 0 => accepted'[v] > 0
  BY <1>1 DEF Decrypt
<1> SUFFICES ASSUME NEW d \in Nat, d < Bits, Marked(bitmap', d)
             PROVE  remoteIv' - d \in Ivs /\ accepted'[remoteIv' - d] > 0
  BY <1>1 DEF MarkedIsAccepted
<1>3. ASSUME NEW c \in Nat, c < Bits, Marked(bitmap, c)
      PROVE  remoteIv - c \in Ivs /\ accepted'[remoteIv - c] > 0
  BY <1>1, <1>2, <1>3 DEF MarkedIsAccepted
<1>4. CASE iv - remoteIv > 0 /\ iv - remoteIv >= Bits
  <2>1. remoteIv' = iv /\ bitmap' = Restarted
    BY <1>4 DEF Decrypt, AcceptIV
  <2> DEFINE j == d \div WordBits
             q == d % WordBits
  <2>2. j \in 0 .. (Words - 1) /\ d = WordBits * j + q /\ q \in Restarted[j]
    BY <2>1, WordIndex DEF Marked
  <2> HIDE DEF j, q
  <2>3. j = 0 /\ q = 0
    BY <2>2 DEF Restarted
  <2>4. remoteIv' - d = iv
    BY <1>1, <2>1, <2>2, <2>3
  <2> QED BY <1>2, <2>4
<1>5. CASE iv - remoteIv > 0 /\ iv - remoteIv < Bits
  <2> DEFINE e == iv - remoteIv
  <2>1. remoteIv' = iv /\ bitmap' = Shifted(bitmap, e, FALSE) /\ e \in Nat /\ e < Bits
    <3>1. remoteIv' = iv /\ \E wraps \in ShiftByWidth : bitmap' = Shifted(bitmap, e, wraps)
      BY <1>1, <1>5 DEF Decrypt, AcceptIV
    <3>2. e \in Nat /\ e < Bits
      BY <1>1, <1>5
    <3> HIDE DEF e
    <3> QED BY <3>1, <3>2, Zenon
  <2>2. d = 0 \/ (e <= d /\ Marked(bitmap, d - e))
    <3> HIDE DEF e
    <3> QED BY <1>1, <2>1, ShiftedOnly
  <2>3. CASE d = 0
    <3>1. remoteIv' - d = iv
      BY <1>1, <2>1, <2>3
    <3> QED BY <1>2, <3>1
  <2>4. CASE e <= d /\ Marked(bitmap, d - e)
    <3>1. d - e \in Nat /\ d - e < Bits /\ remoteIv' - d = remoteIv - (d - e)
      BY <1>1, <2>1, <2>4
    <3>2. remoteIv - (d - e) \in Ivs /\ accepted'[remoteIv - (d - e)] > 0
      <4> HIDE DEF e
      <4> QED BY <1>3, <2>4, <3>1
    <3> QED BY <3>1, <3>2
  <2> QED BY <2>2, <2>3, <2>4
<1>6. CASE ~(iv - remoteIv > 0)
  <2> DEFINE e == remoteIv - iv
  <2>1. e \in Nat /\ e < Bits
    BY <1>1, <1>6 DEF Decrypt, IsValidIV
  <2>2. remoteIv' = remoteIv /\ bitmap' = WithBit(bitmap, e)
    <3>1. -(iv - remoteIv) = e  BY <1>1
    <3> QED BY <3>1, <1>6 DEF Decrypt, AcceptIV
  <2>3. d = e \/ Marked(bitmap, d)
    <3> HIDE DEF e
    <3> QED BY <1>1, <2>1, <2>2, WithBitOnly
  <2>4. CASE d = e
    <3>1. remoteIv' - d = iv
      BY <1>1, <2>2, <2>4
    <3> QED BY <1>2, <3>1
  <2>5. CASE Marked(bitmap, d)
    BY <1>3, <2>2, <2>5
  <2> QED BY <2>3, <2>4, <2>5
<1> QED BY <1>1, <1>4, <1>5, <1>6

\* If the build clears a word that is shifted by its whole width, every mark of
\* the window stands for a datagram that was accepted: IsValidIV() turns nothing
\* away as a repetition that is none.  (With the other outcome of the undefined
\* shift in AcceptIV() this does not hold.)
THEOREM MarksAreAccepted ==
    ASSUME ShiftByWidth \subseteq {FALSE}
    PROVE  Spec => []MarkedIsAccepted
<1>1. Init => MarkedIsAccepted
  <2> SUFFICES ASSUME Init, NEW d \in Nat, d < Bits, Marked(bitmap, d) PROVE FALSE
    BY DEF MarkedIsAccepted, Bits
  <2>1. d \div WordBits \in 0 .. (Words - 1)
    BY WordIndex
  <2> QED BY <2>1 DEF Init, Marked
<1>2. IInv /\ MarkedIsAccepted /\ [Next]_vars => MarkedIsAccepted'
  <2> SUFFICES ASSUME IInv, MarkedIsAccepted, [Next]_vars PROVE MarkedIsAccepted'
    OBVIOUS
  <2>1. ASSUME NEW iv \in Ivs, Decrypt(iv) PROVE MarkedIsAccepted'
    BY <2>1, DecryptMarks
  <2>2. CASE UNCHANGED <<remoteIv, bitmap, accepted>>
    BY <2>2 DEF MarkedIsAccepted, Marked
  <2> QED BY <2>1, <2>2 DEF Next, Encrypt, GrabIVRange, AllowOutOfOrder, vars
<1> QED BY <1>1, <1>2, Invariance, PTL DEF Spec
=============================================================================
