------------------------------ MODULE MCParts ------------------------------
(***************************************************************************)
(* The parts the transport runs on, each by itself: a behaviour is one of   *)
(* the subject chosen in the initial state, and the other parts rest.       *)
(***************************************************************************)
EXTENDS RefObjects, LogThread, RWLock, WorkQueue, DNSClient, UdpReads, Collexion, CookieJar,
        RecvQueue, KeyAgreement, Wirehair

(* A pseudo-random number for a stream. *)
MCPrng(seed, stream, n) ==
  LET a == (seed * 7919 + stream * 104729 + n * 1299709 + 12345) % 65521
      b == (a * 16807 + 31) % 65521
      d == (b * (17 + (a % 13))) % 65521
  IN  d \div 8

(* Windows for the small matrices: widths, widest first, and their thresholds. *)
MCUnder == <<[w |-> 2, at |-> 8], [w |-> 2, at |-> 6], [w |-> 1, at |-> 5]>>
MCAbove == <<[w |-> 2, at |-> 7], [w |-> 2, at |-> 5], [w |-> 2, at |-> 3]>>

CONSTANT Subjects
VARIABLE subject
partVars == <<subject, refVars, rwVars, queueVars, dnsVars, udpVars,
              collexionVars, jarVars, recvQueueVars, keyVars, wirehairVars, logVars>>

SomeHash == CHOOSE h \in Hashes : TRUE
SomeKey == CHOOSE k \in GeneratedKeys : TRUE
SomeSeed == CHOOSE s \in Seeds : TRUE

(* What another subject does not look at has one value. *)
Only(s, fixed) == subject = s \/ fixed
Init == /\ subject \in Subjects
        /\ RefInit /\ LogInit /\ RWInit /\ QueueInit /\ DnsInit
        /\ UdpInit /\ JarInit /\ RecvQueueInit
        /\ CollexionInit /\ Only("collexion", \A c \in Members : hash[c] = SomeHash)
        /\ KeyInit /\ Only("keys", serverKey = SomeKey /\ ephemeral[1] = SomeKey)
        /\ WirehairInit /\ Only("wirehair", p_seed = SomeSeed)

(* The parts other than the subject rest. *)
Rests(s, part, vars) == s # part => UNCHANGED vars
Others(s) == /\ Rests(s, "objects", refVars) /\ Rests(s, "log", logVars)
             /\ Rests(s, "rwlock", rwVars)
             /\ Rests(s, "queue", queueVars) /\ Rests(s, "dns", dnsVars)
             /\ Rests(s, "udp", udpVars) /\ Rests(s, "collexion", collexionVars)
             /\ Rests(s, "cookies", jarVars)
             /\ Rests(s, "recvqueue", recvQueueVars)
             /\ Rests(s, "keys", keyVars)
             /\ Rests(s, "wirehair", wirehairVars)
Step(s, A) == subject = s /\ A /\ UNCHANGED subject /\ Others(s)

Next == \/ Step("log", LogNext)
        \/ Step("objects", RefNext) \/ Step("rwlock", RWNext)
        \/ Step("queue", QueueNext) \/ Step("dns", DnsNext)
        \/ Step("udp", UdpNext)     \/ Step("collexion", CollexionNext)
        \/ Step("cookies", JarNext) \/ Step("recvqueue", RecvQueueNext)
        \/ Step("keys", KeyNext)
        \/ Step("wirehair", WirehairNext)

(* The fairness of the modules, for the subject alone. *)
Fairness ==
  /\ WF_refVars(subject = "objects" /\ ReaperStep)
  /\ \A t \in Threads : WF_refVars(subject = "objects" /\ ThreadFinishes(t))
  /\ \A t \in Lockers : WF_rwVars(subject = "rwlock" /\ RWProgress(t))
  /\ WF_queueVars(subject = "queue" /\ FlagSet)
  /\ WF_queueVars(subject = "queue" /\ QueueWorker)
  /\ \A l \in Lookups : WF_dnsVars(subject = "dns" /\ ResolveStep(l))
  /\ WF_dnsVars(subject = "dns" /\ OnDnsTick)
  /\ WF_dnsVars(subject = "dns" /\ EndpointFinalized)
  /\ WF_udpVars(subject = "udp" /\ Completions)
  /\ WF_udpVars(subject = "udp" /\ UdpFinalize)
  /\ \A t \in Posters : /\ WF_udpVars(subject = "udp" /\ PosterStep(t))
                        /\ WF_udpVars(subject = "udp" /\ Returns(t))
  /\ \A t \in Loggers : WF_logVars(subject = "log" /\ LoggerStep(t))
  /\ WF_logVars(subject = "log" /\ ReaderStep) /\ WF_logVars(subject = "log" /\ WakeToDie)

Spec == Init /\ [][Next]_partVars
FairSpec == Spec /\ Fairness

(* What each part owes in the end: dead objects are reclaimed, a writer gets
   the lock, delivered buffers run, lookups are answered, a socket that is
   closed goes away, what is logged is written. *)
PartsProgress == /\ Reclaimed /\ WriterGetsIn /\ DeliveredRuns
                 /\ DnsAnswered /\ UdpGoesAway /\ LogDrains
=============================================================================
