------------------------------ MODULE DNSClient ------------------------------
(***************************************************************************)
(* The DNS client (src/src/net/DNSClient.cpp): lookups, the list of pending *)
(* requests with its retries and timeouts, the cache, and the shutdown of   *)
(* the endpoint.  DNSClient::Resolve holds _lock for the whole call, so one *)
(* lookup is under way at a time, but the worker thread (OnRecv, OnTick)    *)
(* works between its look at the cache and its look at the requests.        *)
(*                                                                         *)
(* A hostname is one of Hosts; an answer in flight is the [id, host] of the *)
(* query it answers.  Answers may be lost, late and repeated.  The pending  *)
(* requests are a set: what the code does with its list depends on the order *)
(* only in OnTick(), which may put several names in the cache at once, and   *)
(* there every order is allowed.                                            *)
(***************************************************************************)
EXTENDS Integers, Sequences, FiniteSets, SequencesExt

CONSTANTS Lookups,    \* calls of Resolve(), each made once
          Hosts, NoHost,
          Ids,        \* 16-bit request ids
          MaxSimul,   \* DNSREQ_MAX_SIMUL
          MaxCache,   \* DNSCACHE_MAX_REQS
          DnsTimeout, \* DNSREQ_TIMEOUT in ticks
          CacheLife   \* DNSCACHE_TIMEOUT, in coarser ticks

ASSUME DnsAssumption ==
  /\ NoHost \notin Hosts /\ MaxSimul \in Nat /\ MaxCache \in Nat \ {0}
  /\ DnsTimeout \in Nat \ {0} /\ CacheLife \in Nat \ {0} /\ MaxSimul < Cardinality(Ids) + 1

VARIABLES lookup, dnsLock, requests, cache, answers, endpoint
dnsVars == <<lookup, dnsLock, requests, cache, answers, endpoint>>

DnsInit ==
  /\ lookup = [l \in Lookups |->
                 [pc |-> "new", host |-> NoHost, calls |-> 0, held |-> FALSE]]
  /\ dnsLock = {} /\ requests = {} /\ cache = << >> /\ answers = {}
  /\ endpoint = "up"

-----------------------------------------------------------------------------
(* The callback of a lookup is called, and its reference is released. *)
Called(r, ls) ==
  [l \in Lookups |->
     IF l \in ls THEN [pc |-> "done", host |-> r[l].host, calls |-> r[l].calls + 1, held |-> FALSE]
     ELSE r[l]]

Entries(hosts) == [i \in DOMAIN hosts |-> [host |-> hosts[i], age |-> 0]]
Kept(all) == SubSeq(all, 1, IF Len(all) < MaxCache THEN Len(all) ELSE MaxCache)

\* Mutant: new entries go to the end of the list.
CacheAddLast(c, hosts) == Kept(c \o Entries(hosts))

(* CacheAdd() of some names: each goes to the head of the list, and when the list
   is full the entry at its end makes room. *)
CacheAdd(c, hosts) == Kept(Entries(hosts) \o c)

(* NotifyRequesters(): one callback that wants it is enough to cache a name. *)
NotifyRequesters(over, keep) ==
  /\ lookup' = Called(lookup, UNION {r.waiters : r \in over})
  /\ \E hosts \in SetToSeqs({r.host : r \in keep}) : cache' = CacheAdd(cache, hosts)

(* CacheGet(): the entries from the first expired one on are freed, unless the
   name is found before it. *)
Expired == {i \in DOMAIN cache : cache[i].age >= CacheLife}
FreshLen == IF Expired = {} THEN Len(cache) ELSE Min(Expired) - 1
CacheHits(h) == {i \in 1 .. FreshLen : cache[i].host = h}

-----------------------------------------------------------------------------
(* Resolve(): the answers it gives at once: a numeric name, a bad name or no
   endpoint, a name in the cache (the callback may have it removed). *)
ResolveAtOnce(l) ==
  /\ dnsLock = {} /\ lookup[l].pc = "new"
  /\ lookup' = Called(lookup, {l})
  /\ UNCHANGED <<dnsLock, requests, cache, answers, endpoint>>

ResolveCached(l, h) ==
  /\ dnsLock = {} /\ lookup[l].pc = "new" /\ endpoint = "up" /\ CacheHits(h) # {}
  /\ lookup' = Called(lookup, {l})
  /\ cache' \in {cache, RemoveAt(cache, Min(CacheHits(h)))}
  /\ UNCHANGED <<dnsLock, requests, answers, endpoint>>

ResolveMissed(l, h) ==
  /\ dnsLock = {} /\ lookup[l].pc = "new" /\ endpoint = "up" /\ CacheHits(h) = {}
  /\ lookup' = [lookup EXCEPT ![l].pc = "missed", ![l].host = h]
  /\ dnsLock' = {l}
  /\ cache' = SubSeq(cache, 1, FreshLen)
  /\ UNCHANGED <<requests, answers, endpoint>>

(* Then, under _request_lock: join the request for the same name, *)
Same(h) == {r \in requests : r.host = h}
Waiting(l) == [lookup EXCEPT ![l].pc = "waiting", ![l].held = TRUE]

ResolveJoin(l) ==
  /\ dnsLock = {l}
  /\ \E r \in Same(lookup[l].host) :
       requests' = (requests \ {r}) \cup {[r EXCEPT !.waiters = @ \cup {l}]}
  /\ lookup' = Waiting(l)
  /\ dnsLock' = {}
  /\ UNCHANGED <<cache, answers, endpoint>>

\* Mutant: the id is not compared with those of the pending requests.
ResolveNewAnyId(l) ==
  /\ dnsLock = {l} /\ Same(lookup[l].host) = {} /\ Cardinality(requests) < MaxSimul
  /\ \E id \in Ids :
       /\ requests' = requests \cup
            {[id |-> id, host |-> lookup[l].host, waiters |-> {l}, age |-> 0]}
       /\ answers' = answers \cup {[id |-> id, host |-> lookup[l].host]}
  /\ lookup' = Waiting(l)
  /\ dnsLock' = {}
  /\ UNCHANGED <<cache, endpoint>>

(* or make a new one, with an id that no pending request has, *)
ResolveNew(l) ==
  /\ dnsLock = {l} /\ Same(lookup[l].host) = {} /\ Cardinality(requests) < MaxSimul
  /\ \E id \in Ids :
       /\ \A r \in requests : r.id # id
       /\ requests' = requests \cup
            {[id |-> id, host |-> lookup[l].host, waiters |-> {l}, age |-> 0]}
       /\ answers' = answers \cup {[id |-> id, host |-> lookup[l].host]}
  /\ lookup' = Waiting(l)
  /\ dnsLock' = {}
  /\ UNCHANGED <<cache, endpoint>>

(* or fail: no memory, too many requests, or the query could not be sent. *)
ResolveFails(l) ==
  /\ dnsLock = {l}
  /\ lookup' = Called(lookup, {l})
  /\ dnsLock' = {}
  /\ UNCHANGED <<requests, cache, answers, endpoint>>

-----------------------------------------------------------------------------
(* OnRecv(), under _request_lock: PullRequest() goes by the id alone, and the
   callbacks are called whatever the answer holds.  It may come again. *)
PullRequest(id) == {r \in requests : r.id = id}

(* What the answer holds may make a callback ask to keep it. *)
ProcessDNSResponse(r) == SUBSET {r}

OnRecvAnswer(a) ==
  /\ endpoint # "gone"
  /\ \E r \in PullRequest(a.id) : \E keep \in ProcessDNSResponse(r) :
       requests' = requests \ {r} /\ NotifyRequesters({r}, keep)
  /\ UNCHANGED <<dnsLock, answers, endpoint>>

LoseAnswer(a) ==
  /\ answers' = answers \ {a}
  /\ UNCHANGED <<lookup, dnsLock, requests, cache, endpoint>>

Late == {r \in requests : r.age + 1 >= DnsTimeout}
Older(rs) == {[r EXCEPT !.age = @ + 1] : r \in rs}
Queries(rs) == {[id |-> r.id, host |-> r.host] : r \in rs}

\* Mutant: requests that are given up stay in the list.
DnsTickKeeps(unsent, keep) ==
  /\ endpoint = "up" /\ requests # {} /\ keep = {}
  /\ requests' = {[r EXCEPT !.age = 1] : r \in requests}
  /\ lookup' = Called(lookup, UNION {r.waiters : r \in Late \cup unsent})
  /\ UNCHANGED <<dnsLock, cache, answers, endpoint>>

\* Mutant: requests are sent again for ever.
DnsTickPatient(unsent, keep) ==
  /\ endpoint = "up" /\ requests # {} /\ unsent = {} /\ keep = {}
  /\ answers' = answers \cup Queries(requests)
  /\ UNCHANGED <<lookup, dnsLock, requests, cache, endpoint>>

(* OnTick(): every request is sent again, or, after DNSREQ_TIMEOUT or when it
   cannot be sent, given up; keep are those whose callback asks to cache the
   empty result. *)
DnsTick(unsent, keep) ==
  LET over == Late \cup unsent
      left == requests \ over
  IN /\ endpoint = "up" /\ requests # {} /\ keep \subseteq over
     /\ requests' = Older(left)
     /\ answers' = answers \cup Queries(left)
     /\ NotifyRequesters(over, keep)
     /\ UNCHANGED <<dnsLock, endpoint>>

OnDnsTick == \E unsent, keep \in SUBSET requests : DnsTick(unsent, keep)

CacheAges ==
  /\ cache' = [i \in DOMAIN cache |->
                 [cache[i] EXCEPT !.age = IF @ < CacheLife THEN @ + 1 ELSE @]]
  /\ UNCHANGED <<lookup, dnsLock, requests, answers, endpoint>>

(* The endpoint is destroyed: its timer is dropped, Resolve() refuses; when
   its last reference is gone OnFinalize() withdraws it, under _lock, and calls
   back whoever still waits. *)
EndpointDestroyed ==
  /\ endpoint = "up" /\ endpoint' = "shutdown"
  /\ UNCHANGED <<lookup, dnsLock, requests, cache, answers>>

EndpointFinalized ==
  /\ endpoint = "shutdown" /\ dnsLock = {}
  /\ endpoint' = "gone" /\ requests' = {} /\ cache' = << >>
  /\ lookup' = Called(lookup, UNION {r.waiters : r \in requests})
  /\ UNCHANGED <<dnsLock, answers>>

ResolveStep(l) == ResolveJoin(l) \/ ResolveNew(l) \/ ResolveFails(l)

DnsNext ==
  \/ \E l \in Lookups : \/ ResolveAtOnce(l) \/ ResolveStep(l)
                        \/ \E h \in Hosts : ResolveCached(l, h) \/ ResolveMissed(l, h)
  \/ \E a \in answers : OnRecvAnswer(a) \/ LoseAnswer(a)
  \/ OnDnsTick \/ CacheAges \/ EndpointDestroyed \/ EndpointFinalized

(* The calling thread and the worker's timer run; the network owes nothing. *)
DnsFairness == /\ \A l \in Lookups : WF_dnsVars(ResolveStep(l))
               /\ WF_dnsVars(OnDnsTick) /\ WF_dnsVars(EndpointFinalized)
DnsSpec == DnsInit /\ [][DnsNext]_dnsVars /\ DnsFairness

-----------------------------------------------------------------------------
(* A lookup waits on exactly one pending request and keeps its reference until
   its callback has run, once: no timeout, answer, retry or shutdown that
   crosses another loses it or calls it twice. *)
DnsCalledOnce ==
  \A l \in Lookups :
    /\ lookup[l].calls = (IF lookup[l].pc = "done" THEN 1 ELSE 0)
    /\ lookup[l].held <=> lookup[l].pc = "waiting"
    /\ Cardinality({r \in requests : l \in r.waiters})
         = (IF lookup[l].pc = "waiting" THEN 1 ELSE 0)

(* No two pending requests have one id, or one name. *)
RequestsDiffer ==
  \A r, s \in requests : r # s => r.id # s.id /\ r.host # s.host

(* The cache is in the order of age and bounded, so that CacheGet(), which
   frees everything from the first expired entry on, frees nothing fresh. *)
CacheByAge ==
  /\ Len(cache) <= MaxCache
  /\ \A i, j \in DOMAIN cache : i < j => cache[i].age <= cache[j].age

(* Every lookup is called back, also when the server never answers and when the
   endpoint is shut down while it waits. *)
DnsAnswered == \A l \in Lookups : (lookup[l].pc \in {"missed", "waiting"}) ~> (lookup[l].calls = 1)

(* Callbacks, requests and cache stay in order while lookups race the worker. *)
DnsSafe == DnsCalledOnce /\ RequestsDiffer /\ CacheByAge
=============================================================================
