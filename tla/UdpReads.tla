------------------------------- MODULE UdpReads -------------------------------
(***************************************************************************)
(* The overlapped reads and writes of a UDP endpoint                        *)
(* (src/src/iocp/UDPEndpoint.cpp) with the I/O thread that completes them   *)
(* (src/src/iocp/IOThreadPools.cpp) and the pool of receive buffers         *)
(* (src/src/mem/BufferAllocator.cpp).  The endpoint keeps a number of reads *)
(* posted; every posted read, every buffer at a worker and every write in   *)
(* flight has one reference to the endpoint.  Any thread tops up the reads  *)
(* (PostReads): the count it looks at is stale when it posts.               *)
(*                                                                         *)
(* Buffers are counted, not named.                                          *)
(***************************************************************************)
EXTENDS Integers, FiniteSets

CONSTANTS Posters,      \* threads that call PostReads(); IoThread is one
          IoThread,
          Simultaneous, \* UDP_SIMULTANEOUS_READS
          PostLimit,    \* UDP_READ_POST_LIMIT
          PoolSize,     \* buffers of the receive allocator
          MaxSends      \* bound on the writes in flight

ASSUME UdpAssumption ==
  /\ IsFiniteSet(Posters) /\ IoThread \in Posters /\ Simultaneous \in Nat \ {0}
  /\ PostLimit \in Nat \ {0} /\ PoolSize \in Nat /\ PoolSize >= Simultaneous /\ MaxSends \in Nat

VARIABLES udp, posters
udpVars == <<udp, posters>>

Resting == [pc |-> "rest", count |-> 0, set |-> 0, extra |-> 0, done |-> 0]

(* After Initialize(): its first reads are posted. *)
UdpInit ==
  /\ udp = [refs |-> 1 + Simultaneous,  \* the owner's and one a read
            posted |-> Simultaneous,    \* _buffers_posted
            reads |-> Simultaneous,     \* reads the kernel has
            lent |-> 0,                 \* buffers at a worker
            free |-> PoolSize - Simultaneous,
            lost |-> 0,                 \* buffers nobody has
            sends |-> 0, shutdown |-> FALSE, failed |-> FALSE, freed |-> FALSE]
  /\ posters = [t \in Posters |-> Resting]

-----------------------------------------------------------------------------
Least(a, b) == IF a < b THEN a ELSE b

(* The first half of PostReads(limit, reuse): how many to post, and buffers and
   references for them.  A reused buffer brings its reference.  When nothing is
   to be posted the references go, and the buffers are forgotten. *)
PostReads(t, u, limit, reuse) ==
  LET count == Least(Simultaneous - u.posted, limit)
      acquired == Least(count - reuse, u.free)
  IN IF u.shutdown \/ count <= 0
       THEN /\ udp' = [u EXCEPT !.refs = @ - reuse, !.lost = @ + reuse]
            /\ posters' = posters
     ELSE IF reuse < count
       THEN /\ udp' = [u EXCEPT !.free = @ - acquired, !.refs = @ + acquired]
            /\ posters' = [posters EXCEPT ![t] = [pc |-> "post", count |-> reuse + acquired,
                             set |-> reuse + acquired, extra |-> 0, done |-> 0]]
     ELSE /\ udp' = u
          /\ posters' = [posters EXCEPT ![t] = [pc |-> "post", count |-> count,
                           set |-> reuse, extra |-> reuse - count, done |-> 0]]

(* PostRead() for each, until one fails; on a closed socket the first does. *)
PostEach(t, n) ==
  LET p == posters[t] IN
  /\ p.pc = "post" /\ n <= p.count /\ (udp.shutdown => n = 0)
  /\ udp' = [udp EXCEPT !.reads = @ + n, !.failed = @ \/ n < p.count]
  /\ posters' = [posters EXCEPT ![t] = [p EXCEPT !.pc = "count", !.done = n, !.set = @ - n]]

\* Mutant: the references of reads that could not be posted are kept.
PostCountedKeeps(t) ==
  LET p == posters[t] IN
  /\ p.pc = "count"
  /\ udp' = [udp EXCEPT !.posted = @ + p.done, !.free = @ + p.set]
  /\ posters' = [posters EXCEPT ![t] = Resting]

\* Mutant: reads that could not be posted are counted.
PostCountedAll(t) ==
  LET p == posters[t] IN
  /\ p.pc = "count"
  /\ udp' = [udp EXCEPT !.posted = @ + p.count, !.free = @ + p.set,
                        !.refs = @ - (p.extra + p.count - p.done)]
  /\ posters' = [posters EXCEPT ![t] = Resting]

(* Then the posted reads are counted, and what is left over is given back. *)
PostCounted(t) ==
  LET p == posters[t] IN
  /\ p.pc = "count"
  /\ udp' = [udp EXCEPT !.posted = @ + p.done, !.free = @ + p.set,
                        !.refs = @ - (p.extra + p.count - p.done)]
  /\ posters' = [posters EXCEPT ![t] = Resting]

-----------------------------------------------------------------------------
MayAct(t) == posters[t].pc = "rest" /\ ~udp.freed

\* Mutant: reads that complete are not counted down.
ReadsCompleteUncounted(n) ==
  /\ MayAct(IoThread) /\ n \in 1 .. udp.reads
  /\ LET u == [udp EXCEPT !.reads = @ - n] IN
     IF udp.shutdown
       THEN udp' = [u EXCEPT !.free = @ + n, !.refs = @ - n] /\ posters' = posters
       ELSE PostReads(IoThread, [u EXCEPT !.lent = @ + n], Simultaneous, 0)

(* HandleCompletion() of n reads: OnRecvCompletion() gives them to a worker and
   tops up, or, after a shutdown, to the pool. *)
ReadsComplete(n) ==
  /\ MayAct(IoThread) /\ n \in 1 .. udp.reads
  /\ LET u == [udp EXCEPT !.reads = @ - n, !.posted = @ - n] IN
     IF udp.shutdown
       THEN udp' = [u EXCEPT !.free = @ + n, !.refs = @ - n] /\ posters' = posters
       ELSE PostReads(IoThread, [u EXCEPT !.lent = @ + n], Simultaneous, 0)

(* HandleCompletion() of n writes. *)
WritesComplete(n) ==
  /\ MayAct(IoThread) /\ n \in 1 .. udp.sends
  /\ udp' = [udp EXCEPT !.sends = @ - n, !.refs = @ - n]
  /\ UNCHANGED posters

(* A worker is done with n buffers: ReleaseRecvBuffers(). *)
ReleaseRecvBuffers(t, n) ==
  /\ MayAct(t) /\ t # IoThread /\ n \in 1 .. udp.lent
  /\ PostReads(t, [udp EXCEPT !.lent = @ - n], PostLimit, n)

(* Write() of one datagram, whose WSASendTo() may fail. *)
UdpWrite(t, sent) ==
  /\ MayAct(t) /\ t # IoThread /\ ~udp.shutdown /\ udp.sends < MaxSends
  /\ PostReads(t, IF sent THEN [udp EXCEPT !.sends = @ + 1, !.refs = @ + 1] ELSE udp,
               PostLimit, 0)

(* Destroy(): the socket is closed, the kernel completes what it has. *)
UdpDestroy ==
  /\ ~udp.shutdown
  /\ udp' = [udp EXCEPT !.shutdown = TRUE, !.refs = @ - 1]
  /\ UNCHANGED posters

UdpFinalize ==
  /\ udp.shutdown /\ udp.refs = 0 /\ ~udp.freed
  /\ udp' = [udp EXCEPT !.freed = TRUE]
  /\ UNCHANGED posters

PosterStep(t) == (\E n \in 0 .. Simultaneous : PostEach(t, n)) \/ PostCounted(t)
Completions == \E n \in 1 .. PoolSize + MaxSends : ReadsComplete(n) \/ WritesComplete(n)
Returns(t) == \E n \in 1 .. PoolSize : ReleaseRecvBuffers(t, n)

UdpNext == \/ Completions \/ UdpDestroy \/ UdpFinalize
           \/ \E t \in Posters : PosterStep(t) \/ Returns(t) \/ UdpWrite(t, TRUE) \/ UdpWrite(t, FALSE)

(* Threads run, and "this overlapped operation will always complete"
   (UDPEndpoint.cpp). *)
UdpFairness == /\ WF_udpVars(Completions) /\ WF_udpVars(UdpFinalize)
               /\ \A t \in Posters : WF_udpVars(PosterStep(t)) /\ WF_udpVars(Returns(t))
UdpSpec == UdpInit /\ [][UdpNext]_udpVars /\ UdpFairness

-----------------------------------------------------------------------------
(* What the posters have together: references to use or give back, reads they
   posted and did not count yet, and reads they are about to post. *)
Together(g) == Cardinality(UNION {{t} \X (1 .. g[t]) : t \in Posters})
RefsHeld == [t \in Posters |-> posters[t].extra + (posters[t].count - posters[t].done)]
Uncounted == [t \in Posters |-> IF posters[t].pc = "count" THEN posters[t].done ELSE 0]
ToPost == [t \in Posters |-> posters[t].count - posters[t].done]

(* References are exact: the owner's, one for each read at the kernel, buffer
   at a worker and write in flight, and those a poster is about to use or give
   back.  So the endpoint is not freed under an operation, and is freed. *)
UdpRefsExact ==
  /\ udp.refs = (IF udp.shutdown THEN 0 ELSE 1) + udp.reads + udp.lent + udp.sends
                  + Together(RefsHeld)
  /\ udp.freed => udp.reads = 0 /\ udp.lent = 0 /\ udp.sends = 0

(* _buffers_posted, counted after the reads are posted and perhaps after they
   completed, is the number of posted reads whenever nobody is posting. *)
PostedCounted == udp.posted = udp.reads - Together(Uncounted)

(* An endpoint that never failed to post a read is never deaf: a read is
   posted, about to be, or will be when a worker returns its buffer, although
   buffers are lost and the pool runs dry. *)
NeverDeaf ==
  ~udp.shutdown /\ ~udp.failed => udp.reads + udp.lent + Together(ToPost) > 0

(* A destroyed endpoint goes away. *)
UdpGoesAway == udp.shutdown ~> udp.freed

(* References and reads are counted right, and the socket never goes deaf. *)
UdpSafe == UdpRefsExact /\ PostedCounted /\ NeverDeaf
=============================================================================
