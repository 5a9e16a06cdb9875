------------------------------ MODULE PathMTU ------------------------------
(***************************************************************************)
(* How large a datagram may be: a client probes the path with large          *)
(* datagrams, the server takes what arrives for its own limit and tells the  *)
(* client, and both fill their datagrams up to it, pad them and compress     *)
(* them (src/src/sphynx/Client.cpp, Connexion.cpp, Transport.cpp).           *)
(* Probes may be lost; the answer travels on the reliable unordered stream,  *)
(* so answers may overtake each other and arrive once.                      *)
(***************************************************************************)
EXTENDS Integers, TLAPS

CONSTANTS MINIMUM_MTU, MEDIUM_MTU, MAXIMUM_MTU,
          UdpIp,           \* _udpip_bytes
          S2COverhead,     \* SPHYNX_S2C_OVERHEAD
          UserId,          \* 2: bytes of the user id in each datagram of a client
          HeaderBytes,     \* MAX_MESSAGE_HEADER_BYTES
          ProbeMin,        \* IOP_C2S_MTU_TEST_MINLEN
          ProbeAttempts,   \* 2: rounds of probes
          Paths,           \* what the path may carry
          Sizes,           \* bytes of the messages in a cluster
          Pads,            \* CAT_RAND_PAD_EXP
          Inflated         \* bytes LZ4 may add to a datagram it does not shrink

C2SOverhead == S2COverhead + UserId

ASSUME PathAssumption ==
  /\ {MINIMUM_MTU, MEDIUM_MTU, MAXIMUM_MTU, UdpIp, S2COverhead, UserId, HeaderBytes,
      ProbeMin, ProbeAttempts} \subseteq Nat
  /\ UdpIp + C2SOverhead < MINIMUM_MTU
  /\ MINIMUM_MTU < MEDIUM_MTU /\ MEDIUM_MTU < MAXIMUM_MTU
  /\ \A p \in Paths : p \in Nat /\ p >= MINIMUM_MTU

VARIABLES path,      \* the largest datagram that gets through whole
          client,    \* _max_payload_bytes at the client
          server,    \* and at the server
          attempts,  \* _mtu_discovery_attempts
          probes,    \* payloads of the probes on the way
          answers,   \* IOP_S2C_MTU_SET messages on the way
          wire       \* the datagram last sent
pathVars == <<path, client, server, attempts, probes, answers, wire>>

(* InitializePayloadBytes() *)
Payload(mtu) == mtu - UdpIp - C2SOverhead

PathInit == /\ path \in Paths
            /\ client = Payload(MINIMUM_MTU) /\ server = Payload(MINIMUM_MTU)
            /\ attempts = -1 /\ probes = {} /\ answers = {} /\ wire = 0

-----------------------------------------------------------------------------
(* Probes *)

(* PostMTUProbe(): a message that fills the payload.  The path drops what it
   does not carry, for DF is set. *)
PostMTUProbe(mtus) ==
  probes' \in {probes \cup {Payload(m) : m \in got} : got \in SUBSET {m \in mtus : m <= path}}

(* S2C_ANSWER: DontFragment() may fail, and then there is no discovery. *)
Connect ==
  /\ attempts = -1
  /\ \/ attempts' = ProbeAttempts /\ PostMTUProbe({MAXIMUM_MTU, MEDIUM_MTU})
     \/ attempts' = 0 /\ UNCHANGED probes
  /\ UNCHANGED <<path, client, server, answers, wire>>

(* OnTick() of the client, MTU_PROBE_INTERVAL after the last probe. *)
TickProbe ==
  /\ attempts > 0
  /\ IF client >= Payload(MAXIMUM_MTU)
       THEN attempts' = 0 /\ UNCHANGED probes
       ELSE /\ PostMTUProbe({MAXIMUM_MTU} \cup
                 (IF client < Payload(MEDIUM_MTU) THEN {MEDIUM_MTU} ELSE {}))
            /\ attempts' = attempts - 1
  /\ UNCHANGED <<path, client, server, answers, wire>>

\* Mutant: the overhead is counted twice.
MeasuredTwice(bytes) == bytes + 2 * HeaderBytes + UserId
(* The bytes of a probe's message do not count its header and the user id. *)
Measured(bytes) == bytes + HeaderBytes + UserId

(* IOP_C2S_MTU_PROBE at the server. *)
OnMTUProbe ==
  /\ \E p \in probes :
       LET bytes == p - HeaderBytes IN
       /\ probes' = probes \ {p}
       /\ IF bytes >= ProbeMin /\ Measured(bytes) > server
            THEN server' = Measured(bytes) /\ answers' = answers \cup {Measured(bytes)}
            ELSE UNCHANGED <<server, answers>>
  /\ UNCHANGED <<path, client, attempts, wire>>

\* Mutant: the answer that comes last is taken.
RaisedAny(now, limit) == limit
\* Mutant: the client, too, sends as much as the server.
RaisedFull(now, limit) == IF limit + UserId > now THEN limit + UserId ELSE now
(* The limit only grows. *)
MtuRaised(now, limit) == IF limit > now THEN limit ELSE now

(* IOP_S2C_MTU_SET at the client: its own datagrams have the user id as well. *)
OnMTUSet ==
  /\ \E a \in answers : /\ answers' = answers \ {a}
                        /\ client' = MtuRaised(client, a - UserId)
  /\ UNCHANGED <<path, server, attempts, probes, wire>>

-----------------------------------------------------------------------------
(* Datagrams *)

\* Mutant: padding goes on past the limit.
PaddedFreely(bytes, pad, limit) == bytes + pad
(* RandPadDatagram() *)
RandPadded(bytes, pad, limit) ==
  IF pad + bytes <= limit THEN bytes + pad
  ELSE IF bytes >= limit THEN bytes ELSE limit

(* QueueWriteDatagram() and WriteDatagrams() of either side: a cluster of the
   limit's bytes at most. *)
SendDatagram ==
  /\ attempts # -1
  /\ \E bytes \in Sizes, pad \in Pads, more \in Inflated :
       \/ /\ bytes <= client
          /\ wire' = RandPadded(bytes, pad, client) + more + C2SOverhead + UdpIp
       \/ /\ bytes <= server
          /\ wire' = RandPadded(bytes, pad, server) + more + S2COverhead + UdpIp
  /\ UNCHANGED <<path, client, server, attempts, probes, answers>>

PathNext == Connect \/ TickProbe \/ OnMTUProbe \/ OnMTUSet \/ SendDatagram
PathSpec == PathInit /\ [][PathNext]_pathVars

-----------------------------------------------------------------------------
(* No datagram of either side is larger than what the path was seen to carry,
   whichever probes and answers were lost or overtook each other, with its
   padding and all its headers.  (Transport.cpp:118-187, Client.cpp:697-714,
   Connexion.cpp:281-300; for a path that carries the same in both directions
   and datagrams that LZ4 does not make larger.) *)
FitsPath == wire <= path

(* The client's limit never runs ahead of the server's, so a datagram of either
   is one the other's limit was measured by; and once nothing is on the way
   both stand for the same datagrams on the line. *)
LimitsAgree ==
  LET grown == server # Payload(MINIMUM_MTU)
  IN  /\ grown => client <= server - UserId
      /\ (grown /\ answers = {}) => client = server - UserId

PathRight == FitsPath /\ LimitsAgree

-----------------------------------------------------------------------------
(* The limits are those of datagrams the path was seen to carry. *)

Probed == {m \in {MEDIUM_MTU, MAXIMUM_MTU} : m <= path}
(* The server's limit is the first one, or what a probe measured; the last it
   was raised to is on its way to the client or has arrived. *)
ServerLimits ==
  /\ probes \subseteq {Payload(m) : m \in Probed}
  /\ server = Payload(MINIMUM_MTU) \/ \E m \in Probed : server = Payload(m) + UserId
  /\ \A a \in answers : a <= server /\ \E m \in Probed : a = Payload(m) + UserId
ClientLimits ==
  /\ client = Payload(MINIMUM_MTU) \/ \E m \in Probed : client = Payload(m)
  /\ IF server = Payload(MINIMUM_MTU) THEN client = server /\ answers = {}
     ELSE client <= server - UserId /\ (client = server - UserId \/ server \in answers)
PathInv == /\ path \in Paths /\ ServerLimits /\ ClientLimits /\ FitsPath

LEMMA PathNumbers ==
  /\ MINIMUM_MTU \in Nat /\ MEDIUM_MTU \in Nat /\ MAXIMUM_MTU \in Nat /\ UdpIp \in Nat
  /\ S2COverhead \in Nat /\ UserId \in Nat /\ HeaderBytes \in Nat
  /\ MINIMUM_MTU < MEDIUM_MTU /\ MEDIUM_MTU < MAXIMUM_MTU
  /\ UdpIp + (S2COverhead + UserId) < MINIMUM_MTU
  /\ \A p \in Paths : p \in Nat /\ p >= MINIMUM_MTU
  BY PathAssumption DEF C2SOverhead

(* Probes that get through are no larger than the path. *)
LEMMA ProbesArrive ==
  ASSUME NEW mtus \in SUBSET {MEDIUM_MTU, MAXIMUM_MTU}, PostMTUProbe(mtus),
         probes \subseteq {Payload(m) : m \in Probed}
  PROVE  probes' \subseteq {Payload(m) : m \in Probed}
<1>1. PICK got \in SUBSET {m \in mtus : m <= path} :
        probes' = probes \cup {Payload(m) : m \in got}
  BY DEF PostMTUProbe
<1>2. got \subseteq Probed
  BY DEF Probed
<1> QED BY <1>1, <1>2

LEMMA PathStart == PathInit => PathInv
<1> SUFFICES ASSUME PathInit PROVE PathInv
  OBVIOUS
<1> QED BY PathNumbers DEF PathInit, PathInv, ServerLimits, ClientLimits, FitsPath, Payload, C2SOverhead

(* A message of at most the limit's bytes stays within it when it is padded. *)
LEMMA PaddedFits ==
  ASSUME NEW bytes \in Nat, NEW pad \in Nat, NEW limit \in Int, bytes <= limit
  PROVE  RandPadded(bytes, pad, limit) \in Int /\ RandPadded(bytes, pad, limit) <= limit
  BY DEF RandPadded

LEMMA PathStep ==
  ASSUME Sizes \subseteq Nat, Pads \subseteq Nat, Inflated \subseteq {0},
         PathInv, [PathNext]_pathVars
  PROVE  PathInv'
<1> USE PathNumbers DEF PathInv
<1>0. path \in Nat /\ path >= MINIMUM_MTU /\ \A m \in Probed : m \in Nat /\ m <= path /\ MINIMUM_MTU < m
  BY DEF Probed
<1>1. CASE Connect
  <2>1. probes' \subseteq {Payload(m) : m \in Probed}
    BY <1>1, ProbesArrive DEF Connect, ServerLimits
  <2> QED BY <2>1, <1>1 DEF Connect, ServerLimits, ClientLimits, FitsPath, Probed
<1>2. CASE TickProbe
  <2>1. probes' \subseteq {Payload(m) : m \in Probed}
    <3> DEFINE mtus == {MAXIMUM_MTU} \cup (IF client < Payload(MEDIUM_MTU) THEN {MEDIUM_MTU} ELSE {})
    <3>1. mtus \in SUBSET {MEDIUM_MTU, MAXIMUM_MTU}
      OBVIOUS
    <3>2. probes' = probes \/ PostMTUProbe(mtus)
      BY <1>2 DEF TickProbe
    <3> QED BY <3>1, <3>2, ProbesArrive DEF ServerLimits
  <2> QED BY <2>1, <1>2 DEF TickProbe, ServerLimits, ClientLimits, FitsPath, Probed
<1>3. CASE OnMTUProbe
  <2>1. PICK p \in probes :
          /\ probes' = probes \ {p}
          /\ \/ server' = Measured(p - HeaderBytes) /\ Measured(p - HeaderBytes) > server
                /\ answers' = answers \cup {Measured(p - HeaderBytes)}
             \/ UNCHANGED <<server, answers>>
    BY <1>3 DEF OnMTUProbe
  <2>2. PICK m \in Probed : p = Payload(m)
    BY <2>1 DEF ServerLimits
  <2>3. Measured(p - HeaderBytes) = Payload(m) + UserId
    BY <2>2, <1>0 DEF Measured, Payload, C2SOverhead
  <2>4. Payload(m) \in Int /\ Payload(MINIMUM_MTU) \in Int /\ Payload(MINIMUM_MTU) < Payload(m)
    BY <1>0 DEF Payload, C2SOverhead
  <2>5. Probed' = Probed /\ UNCHANGED <<path, client, attempts, wire>>
    BY <1>3 DEF OnMTUProbe, Probed
  <2>6. \A n \in Probed : Payload(n) \in Int
    BY <1>0 DEF Payload, C2SOverhead
  <2>7. CASE UNCHANGED <<server, answers>>
    BY <2>1, <2>5, <2>7 DEF ServerLimits, ClientLimits, FitsPath
  <2>8. CASE /\ server' = Payload(m) + UserId /\ Payload(m) + UserId > server
             /\ answers' = answers \cup {Payload(m) + UserId}
    <3>1. ServerLimits'
      BY <2>1, <2>4, <2>5, <2>6, <2>8 DEF ServerLimits
    <3>2. ClientLimits'
      BY <2>4, <2>5, <2>6, <2>8 DEF ServerLimits, ClientLimits
    <3> QED BY <3>1, <3>2, <2>5 DEF FitsPath
  <2> QED BY <2>1, <2>3, <2>7, <2>8
<1>4. CASE OnMTUSet
  <2>1. PICK a \in answers : answers' = answers \ {a} /\ client' = MtuRaised(client, a - UserId)
    BY <1>4 DEF OnMTUSet
  <2>2. PICK m \in Probed : a = Payload(m) + UserId
    BY <2>1 DEF ServerLimits
  <2>3. Payload(MINIMUM_MTU) \in Int /\ \A n \in Probed : Payload(n) \in Int
    BY <1>0 DEF Payload, C2SOverhead
  <2>4. Probed' = Probed /\ UNCHANGED <<path, server, attempts, probes, wire>>
    BY <1>4 DEF OnMTUSet, Probed
  <2>5. ServerLimits'
    BY <2>1, <2>4 DEF ServerLimits
  <2>6. ClientLimits'
    BY <2>1, <2>2, <2>3, <2>4 DEF ServerLimits, ClientLimits, MtuRaised
  <2> QED BY <2>4, <2>5, <2>6 DEF FitsPath
<1>5. CASE SendDatagram
  <2>1. PICK bytes \in Sizes, pad \in Pads, more \in Inflated :
          \/ /\ bytes <= client
             /\ wire' = RandPadded(bytes, pad, client) + more + C2SOverhead + UdpIp
          \/ /\ bytes <= server
             /\ wire' = RandPadded(bytes, pad, server) + more + S2COverhead + UdpIp
    BY <1>5 DEF SendDatagram
  <2>2. bytes \in Nat /\ pad \in Nat /\ more = 0
    OBVIOUS
  <2>3. client \in Int /\ client + C2SOverhead + UdpIp <= path
    BY <1>0 DEF ClientLimits, Payload, C2SOverhead
  <2>4. server \in Int /\ server + S2COverhead + UdpIp <= path
    BY <1>0 DEF ServerLimits, Payload, C2SOverhead
  <2>5. wire' <= path
    <3>1. CASE bytes <= client /\ wire' = RandPadded(bytes, pad, client) + more + C2SOverhead + UdpIp
      BY <3>1, <2>2, <2>3, <1>0, PaddedFits DEF C2SOverhead
    <3>2. CASE bytes <= server /\ wire' = RandPadded(bytes, pad, server) + more + S2COverhead + UdpIp
      BY <3>2, <2>2, <2>4, <1>0, PaddedFits
    <3> QED BY <2>1, <3>1, <3>2
  <2> QED BY <2>5, <1>5 DEF SendDatagram, ServerLimits, ClientLimits, FitsPath, Probed
<1>6. CASE UNCHANGED pathVars
  BY <1>6 DEF pathVars, ServerLimits, ClientLimits, FitsPath, Probed
<1> QED BY <1>1, <1>2, <1>3, <1>4, <1>5, <1>6 DEF PathNext

(* Whatever sizes the probes have, the path carries and the messages are of, no
   datagram of either side is larger than the path carries and the limits of both
   sides come to agree, if no datagram is made larger by LZ4. *)
THEOREM PathCorrect ==
  ASSUME Sizes \subseteq Nat, Pads \subseteq Nat, Inflated \subseteq {0}
  PROVE  PathSpec => []PathRight
<1>1. PathInv => PathRight
  <2> SUFFICES ASSUME PathInv PROVE PathRight
    OBVIOUS
  <2>1. LimitsAgree
    BY DEF PathInv, ClientLimits, LimitsAgree
  <2> QED BY <2>1 DEF PathInv, PathRight
<1> QED BY <1>1, PathStart, PathStep, PTL DEF PathSpec
=============================================================================
