------------------------- MODULE ReliableStreamProofs -------------------------
(***************************************************************************)
(* Proofs about ReliableStream for every value of its constants.           *)
(***************************************************************************)
EXTENDS ReliableStream, BitMath, FiniteSetTheorems

USE StreamAssumption

------------------------------------------------------------------------------
(* Decoding *)

\* The moduli are even and at least twice the first threshold.
LEMMA RangeFacts ==
    /\ \A m \in {2 * Thresh1, 2 * Thresh2, LongMod} :
         /\ m \in Nat \ {0} /\ m % 2 = 0 /\ m \div 2 \in Nat /\ m = 2 * (m \div 2)
         /\ m >= 2 * Thresh1
    /\ RollupMod \div 2 \in Nat /\ RollupMod = 2 * (RollupMod \div 2)
  BY AckIdAssumption, SMT

LEMMA SpanFacts == Span \in Nat /\ Window \in Nat /\ MaxFrags \in Nat /\ Span = Window + MaxFrags - 1
  BY DEF Span

LEMMA EntryFields ==
    ASSUME NEW e \in Entry
    PROVE  e.m \in Nat /\ e.low \in Nat /\ e.msg \in Nat /\ e.id \in Nat /\ e.stamp \in Nat
  BY DEF Entry

\* The ACK-ID of the entry at hand is the one the sender gave it.
LEMMA EntryIdExact ==
    ASSUME IInv, NetworkAssumption, rx # <<>>
    PROVE  EntryId = Head(rx).id
<1> DEFINE e == Head(rx)
<1>1. /\ e = rx[1] /\ e \in Entry /\ 1 \in 1 .. Len(rx)
  BY DEF IInv, TypeOK, SenderTypeOK, NetTypeOK, ReceiverTypeOK
<1>2. /\ EntryOK(e, expected, nextSendId) /\ expected <= e.stamp + MaxLag
      /\ e.m = 0 => e.id = rxId + 1
  BY <1>1 DEF IInv, RxInv
<1> HIDE DEF e
<1>3. CASE e.m = 0
  BY <1>2, <1>3 DEF EntryId, e
<1>4. CASE e.m # 0
  <2>1. /\ e.m \in {2 * Thresh1, 2 * Thresh2, LongMod}
        /\ e.low = LowBits(e.id, e.m)
        /\ 2 * (e.id - expected) <= e.m
        /\ e.m # LongMod => e.stamp = e.id + 1
        /\ e.stamp <= e.id + Span
    BY <1>2, <1>4 DEF EntryOK
  <2>2. e.id \in Int /\ expected \in Int /\ e.stamp \in Int /\ e.m \in Int
    BY <1>1, EntryFields DEF IInv, TypeOK, SenderTypeOK, NetTypeOK, ReceiverTypeOK
  <2>3. 2 * (expected - e.id) < e.m
    <3>1. /\ Thresh1 \in Nat /\ Thresh2 \in Nat /\ Thresh1 < Thresh2 /\ LongMod \in Nat
          /\ 2 * Thresh2 < LongMod /\ MaxLag \in Nat /\ Span \in Nat
          /\ MaxLag + 2 <= Thresh1 /\ 2 * (Span + MaxLag) < LongMod
      BY AckIdAssumption, SpanFacts DEF NetworkAssumption
    <3>2. CASE e.m = LongMod
      BY <1>2, <2>1, <2>2, <3>1, <3>2
    <3>3. CASE e.m # LongMod
      <4>1. e.m >= 2 * Thresh1  BY <2>1, RangeFacts
      <4>2. expected <= e.id + 1 + MaxLag  BY <1>2, <2>1, <3>3
      <4> QED BY <4>1, <4>2, <2>2, <3>1
    <3> QED BY <3>2, <3>3
  <2>4. /\ e.id - expected <= e.m \div 2 /\ expected - e.id < e.m \div 2
        /\ e.m \in Nat \ {0} /\ e.m % 2 = 0
    <3>1. e.m \in Nat \ {0} /\ e.m % 2 = 0 /\ e.m \div 2 \in Nat /\ e.m = 2 * (e.m \div 2)
      BY <2>1, RangeFacts
    <3> HIDE DEF e
    <3> QED BY <2>1, <2>2, <2>3, <3>1
  <2>5. ReconstructCounter(e.m, expected, LowBits(e.id, e.m)) = e.id
    BY <2>2, <2>4, ReconstructExact
  <2> QED BY <2>1, <2>5, <1>4 DEF EntryId, e
<1> QED BY <1>3, <1>4 DEF e

------------------------------------------------------------------------------
(* Datagrams *)

\* What is on its way stays good while both ends move forward.
LEMMA EntryMonotone ==
    ASSUME NEW e \in Entry, NEW x \in Nat, NEW y \in Nat, NEW n \in Nat, NEW o \in Nat,
           x <= y, n <= o, EntryOK(e, x, n)
    PROVE  EntryOK(e, y, o)
  BY EntryFields DEF EntryOK

LEMMA DatagramMonotone ==
    ASSUME NEW d \in Seq(Entry), NEW x \in Nat, NEW y \in Nat, NEW n \in Nat, NEW o \in Nat,
           x <= y, n <= o, DatagramOK(d, x, n)
    PROVE  DatagramOK(d, y, o)
<1>1. ASSUME NEW k \in 1 .. Len(d)
      PROVE  EntryOK(d[k], y, o)
  <2>1. d[k] \in Entry /\ EntryOK(d[k], x, n)  BY DEF DatagramOK
  <2> QED BY <2>1, EntryMonotone
<1> QED BY <1>1 DEF DatagramOK

\* Appending a message to a datagram keeps it good.
LEMMA AppendOK ==
    ASSUME NEW d \in Seq(Entry), NEW x \in Nat, NEW n \in Nat, DatagramOK(d, x, n),
           NEW e \in Entry, EntryOK(e, x, n),
           \A k \in 1 .. Len(d) : d[k].id < e.stamp,
           e.m = 0 => Follows(d, e.id)
    PROVE  DatagramOK(Append(d, e), x, n)
<1> DEFINE f == Append(d, e)
<1>1. /\ f \in Seq(Entry) /\ Len(f) = Len(d) + 1 /\ Len(d) \in Nat
      /\ f[Len(d) + 1] = e /\ \A k \in 1 .. Len(d) : f[k] = d[k]
  OBVIOUS
<1> HIDE DEF f
<1>2. \A k \in 1 .. Len(f) : k \in 1 .. Len(d) \/ k = Len(d) + 1
  BY <1>1
<1>3. \A k \in 1 .. Len(f) : EntryOK(f[k], x, n)
  BY <1>1, <1>2 DEF DatagramOK
<1>4. \A k \in 1 .. Len(f) : f[k].m = 0 => k > 1 /\ f[k].id = f[k-1].id + 1
  <2> SUFFICES ASSUME NEW k \in 1 .. Len(f), f[k].m = 0
               PROVE  k > 1 /\ f[k].id = f[k-1].id + 1
    OBVIOUS
  <2>1. CASE k \in 1 .. Len(d)
    <3>1. k > 1 /\ d[k].id = d[k-1].id + 1  BY <2>1, <1>1 DEF DatagramOK
    <3> QED BY <3>1, <2>1, <1>1
  <2>2. CASE k = Len(d) + 1
    <3>1. d # <<>> /\ d[Len(d)].id + 1 = e.id  BY <2>2, <1>1 DEF Follows
    <3>2. Len(d) > 0  BY <3>1
    <3> QED BY <3>1, <3>2, <2>2, <1>1
  <2> QED BY <2>1, <2>2, <1>2
<1>5. \A j, k \in 1 .. Len(f) : j < k => f[j].id < f[k].stamp
  <2> SUFFICES ASSUME NEW j \in 1 .. Len(f), NEW k \in 1 .. Len(f), j < k
               PROVE  f[j].id < f[k].stamp
    OBVIOUS
  <2>1. j \in 1 .. Len(d)  BY <1>1
  <2>2. CASE k \in 1 .. Len(d)  BY <2>1, <2>2, <1>1 DEF DatagramOK
  <2>3. CASE k = Len(d) + 1  BY <2>1, <2>3, <1>1
  <2> QED BY <2>2, <2>3, <1>2
<1> QED BY <1>3, <1>4, <1>5 DEF DatagramOK, f

\* A new entry in the cluster keeps every datagram of the sender good.
LEMMA ClusterAppendOK ==
    ASSUME TypeOK, NetInv,
           NEW id \in Nat, NEW range \in Nat, NEW msg \in Nat, NEW stamp \in Nat,
           ClusterReliableAppend(id, range, msg, stamp),
           expected' = expected, net' = net,
           NEW n \in Nat, nextSendId' = n, nextSendId <= n, nextSendId <= stamp,
           FirstId <= id, id < stamp, stamp <= n, stamp <= id + Span,
           msg = MsgOf(id),
           range \in {2 * Thresh1, 2 * Thresh2, LongMod},
           2 * (id - expected) <= range, range # LongMod => stamp = id + 1
    PROVE  cluster' \in Seq(Entry) /\ outgoing' \subseteq Seq(Entry) /\ NetInv'
<1> DEFINE new(c) == MakeEntry(c, id, range, msg, stamp)
<1>1. /\ cluster \in Seq(Entry) /\ outgoing \subseteq Seq(Entry) /\ net \subseteq Seq(Entry)
      /\ expected \in Nat /\ nextSendId \in Nat
  BY DEF TypeOK, SenderTypeOK, NetTypeOK, ReceiverTypeOK
<1>2. LowBits(id, range) \in Nat
  <2>1. range \in Nat \ {0}  BY RangeFacts
  <2>2. id % range \in 0 .. (range - 1)  BY <2>1, DivMod
  <2> QED BY <2>2 DEF LowBits
<1>3. ASSUME NEW c \in Seq(Entry)
      PROVE  /\ new(c) \in Entry /\ new(c).id = id /\ new(c).stamp = stamp
             /\ new(c).msg = msg
             /\ new(c).m # 0 => new(c).m = range /\ new(c).low = LowBits(id, range)
             /\ new(c).m = 0 => Follows(c, id)
  <2>1. CASE Follows(c, id)
    BY <2>1 DEF MakeEntry, Entry
  <2>2. CASE ~Follows(c, id)
    <3>1. range # 0  BY RangeFacts
    <3> QED BY <1>2, <2>2, <3>1 DEF MakeEntry, Entry
  <2> QED BY <2>1, <2>2
<1> HIDE DEF new
<1>4. ASSUME NEW c \in Seq(Entry)
      PROVE  EntryOK(new(c), expected, n)
  <2>1. /\ FirstId <= new(c).id /\ new(c).id < new(c).stamp /\ new(c).stamp <= n
        /\ new(c).stamp <= new(c).id + Span /\ new(c).msg = MsgOf(new(c).id)
    BY <1>3
  <2>2. ASSUME new(c).m # 0
        PROVE  /\ new(c).m = range /\ new(c).low = LowBits(new(c).id, new(c).m)
               /\ 2 * (new(c).id - expected) <= new(c).m
               /\ new(c).m # LongMod => new(c).stamp = new(c).id + 1
    BY <1>3, <2>2
  <2> QED BY <2>1, <2>2 DEF EntryOK
<1>5. /\ \A d \in outgoing \union net : DatagramOK(d, expected, n)
      /\ DatagramOK(cluster, expected, n)
  BY <1>1, DatagramMonotone DEF NetInv
<1>6. \A k \in 1 .. Len(cluster) : cluster[k].id < stamp
  <2> SUFFICES ASSUME NEW k \in 1 .. Len(cluster) PROVE cluster[k].id < stamp
    OBVIOUS
  <2>0. DatagramOK(cluster, expected, nextSendId)  BY DEF NetInv
  <2>1. cluster[k] \in Entry /\ EntryOK(cluster[k], expected, nextSendId)
    BY <2>0, <1>1 DEF DatagramOK
  <2>2. cluster[k].id < cluster[k].stamp /\ cluster[k].stamp <= nextSendId
    BY <2>1 DEF EntryOK
  <2> QED BY <2>1, <2>2, <1>1, EntryFields
<1>7. CASE Len(cluster) >= Capacity
  <2>1. outgoing' = outgoing \union {cluster} /\ cluster' = <<new(<<>>)>>
    BY <1>7 DEF ClusterReliableAppend, new
  <2>2. <<>> \in Seq(Entry) /\ ~Follows(<<>>, id)
    BY DEF Follows
  <2>3. /\ new(<<>>) \in Entry /\ EntryOK(new(<<>>), expected, n)
        /\ new(<<>>).m # 0 /\ new(<<>>).id < new(<<>>).stamp
    BY <2>2, <1>3, <1>4
  <2>4. DatagramOK(<<new(<<>>)>>, expected, n)
    BY <2>3 DEF DatagramOK
  <2>5. cluster' \in Seq(Entry)  BY <2>1, <2>3
  <2>6. outgoing' \subseteq Seq(Entry)  BY <2>1, <1>1
  <2>7. DatagramOK(cluster', expected', nextSendId')  BY <2>1, <2>4
  <2>8. \A d \in outgoing' \union net' : DatagramOK(d, expected', nextSendId')
    BY <2>1, <1>5
  <2> QED BY <2>5, <2>6, <2>7, <2>8 DEF NetInv
<1>8. CASE ~(Len(cluster) >= Capacity)
  <2>1. outgoing' = outgoing /\ cluster' = Append(cluster, new(cluster))
    BY <1>8 DEF ClusterReliableAppend, new
  <2>2. DatagramOK(Append(cluster, new(cluster)), expected, n)
    BY <1>1, <1>3, <1>4, <1>5, <1>6, AppendOK
  <2> QED BY <2>1, <2>2, <1>1, <1>3, <1>5 DEF NetInv
<1> QED BY <1>7, <1>8

------------------------------------------------------------------------------
(* What a step of one end leaves alone *)

\* A step of the sender does not disturb what the receiver knows.
LEMMA SenderFrame ==
    ASSUME IInv, UNCHANGED receiverVars,
           NEW n \in Nat, nextSendId' = n, nextSendId <= n, acks' \subseteq acks
    PROVE  ReceiverTypeOK' /\ RxInv' /\ WaitInv' /\ AckInv' /\ DeliveredInv'
<1>1. /\ expected' = expected /\ recvWait' = recvWait /\ rx' = rx /\ rxId' = rxId
      /\ delivered' = delivered
  BY DEF receiverVars
<1>2. /\ expected \in Nat /\ nextSendId \in Nat /\ rx \in Seq(Entry)
      /\ DOMAIN recvWait \subseteq Int
  BY DEF IInv, TypeOK, SenderTypeOK, NetTypeOK, ReceiverTypeOK
<1>3. RxInv'
  <2>1. ASSUME NEW k \in 1 .. Len(rx)
        PROVE  EntryOK(rx[k], expected, n)
    <3>1. rx[k] \in Entry /\ EntryOK(rx[k], expected, nextSendId)
      BY <1>2 DEF IInv, RxInv
    <3> QED BY <1>2, <3>1, EntryMonotone
  <2> QED BY <1>1, <2>1 DEF IInv, RxInv
<1>4. WaitInv'
  BY <1>1, <1>2 DEF IInv, WaitInv, DeliverEarly, MsgOf
<1>5. AckInv'
  BY <1>1 DEF IInv, AckInv, Received
<1>6. DeliveredInv'
  <2>1. DeliveredInv  BY DEF IInv
  <2> QED BY <1>1, <2>1 DEF DeliveredInv, DeliveredOnce
<1>7. ReceiverTypeOK'
  <2>1. ReceiverTypeOK  BY DEF IInv, TypeOK
  <2> QED BY <2>1 DEF ReceiverTypeOK, receiverVars
<1> QED BY <1>3, <1>4, <1>5, <1>6, <1>7

\* A step of the receiver only moves it forward.
LEMMA ReceiverFrame ==
    ASSUME IInv, UNCHANGED senderVars, net' \subseteq net,
           NEW x \in Nat, expected' = x, expected <= x, x <= nextSendId,
           \A id \in DOMAIN recvWait : id < x \/ id \in DOMAIN recvWait'
    PROVE  SenderTypeOK' /\ QueueInv' /\ WindowInv' /\ BurstInv' /\ NetInv' /\ AckedIsReceived'
<1>1. /\ written' = written /\ sendQueue' = sendQueue /\ sendingQueue' = sendingQueue
      /\ sentList' = sentList /\ nextSendId' = nextSendId
      /\ remoteExpected' = remoteExpected /\ cluster' = cluster /\ outgoing' = outgoing
  BY DEF senderVars
<1>2. /\ expected \in Nat /\ nextSendId \in Nat /\ cluster \in Seq(Entry)
      /\ outgoing \subseteq Seq(Entry) /\ net \subseteq Seq(Entry)
      /\ remoteExpected \in Int /\ DOMAIN sentList \subseteq Nat
  BY DEF IInv, TypeOK, SenderTypeOK, NetTypeOK, ReceiverTypeOK
<1>3. QueueInv'
  BY <1>1 DEF IInv, QueueInv
<1>4. WindowInv'
  <2>1. WindowInv  BY DEF IInv
  <2> QED BY <1>1, <1>2, <2>1, SpanFacts DEF WindowInv, MsgOf
<1>5. NetInv'
  <2>1. DatagramOK(cluster, x, nextSendId)
    BY <1>2, DatagramMonotone DEF IInv, NetInv
  <2>2. \A d \in outgoing \union net : DatagramOK(d, x, nextSendId)
    BY <1>2, DatagramMonotone DEF IInv, NetInv
  <2> QED BY <1>1, <2>1, <2>2 DEF NetInv
<1>6. AckedIsReceived'
  <2> SUFFICES ASSUME NEW id \in FirstId .. (nextSendId - 1), id \notin DOMAIN sentList
               PROVE  id < x \/ id \in DOMAIN recvWait'
    BY <1>1 DEF AckedIsReceived
  <2>1. id < expected \/ id \in DOMAIN recvWait  BY DEF IInv, AckedIsReceived
  <2> QED BY <2>1, <1>2
<1>7. SenderTypeOK'
  <2>1. SenderTypeOK  BY DEF IInv, TypeOK
  <2> QED BY <2>1 DEF SenderTypeOK, senderVars
<1>8. BurstInv'
  BY DEF IInv, BurstInv, senderVars
<1> QED BY <1>3, <1>4, <1>5, <1>6, <1>7, <1>8

\* The window and the sent list are untouched.
LEMMA WindowFrame ==
    ASSUME IInv, UNCHANGED <<sentList, nextSendId, remoteExpected, expected, recvWait>>
    PROVE  WindowInv' /\ AckedIsReceived'
  BY DEF IInv, WindowInv, AckedIsReceived

\* The window check is not under way: the worker is not in FlushWrites.
LEMMA BurstFrame ==
    ASSUME IInv, burst' = burst,
           phase # "flush" \/ UNCHANGED <<phase, nextSendId, remoteExpected>>
    PROVE  BurstInv' /\ burst' \in 0 .. MaxFrags
<1>1. BurstInv /\ burst \in 0 .. MaxFrags  BY DEF IInv, TypeOK, SenderTypeOK
<1>2. CASE phase # "flush"
  <2>1. ~(burst > 0)  BY <1>1, <1>2 DEF BurstInv
  <2> QED BY <1>1, <2>1 DEF BurstInv
<1>3. CASE UNCHANGED <<phase, nextSendId, remoteExpected>>
  BY <1>1, <1>3 DEF BurstInv
<1> QED BY <1>2, <1>3

\* The queues are untouched.
LEMMA QueueFrame ==
    ASSUME IInv, UNCHANGED <<written, nextSendId, sendQueue, sendingQueue>>
    PROVE  QueueInv'
  BY DEF IInv, QueueInv

\* No datagram is added.
LEMMA NetFrame ==
    ASSUME IInv, UNCHANGED <<cluster, outgoing, net, nextSendId, expected>>
    PROVE  NetInv'
  BY DEF IInv, NetInv

------------------------------------------------------------------------------
(* The sender's steps *)

LEMMA WriteReliableOK ==
    ASSUME IInv, WriteReliable
    PROVE  IInv'
<1>0. /\ nextSendId \in Nat /\ sendQueue \in Seq(Nat) /\ sendingQueue \in Seq(Nat)
      /\ written \in Nat /\ QueueInv
  BY DEF IInv, TypeOK, SenderTypeOK
<1>1. PICK n \in (written + 1) .. MaxWrites :
      /\ UNCHANGED <<sendingQueue, sentList, nextSendId, remoteExpected, cluster, outgoing>>
      /\ UNCHANGED <<phase, burst, walk, net, acks, expected, recvWait>>
      /\ UNCHANGED receiverVars
      /\ written' = n
      /\ sendQueue' = sendQueue \o [k \in 1 .. (n - written) |-> written + k]
  BY DEF WriteReliable, receiverVars
<1> DEFINE new == [k \in 1 .. (n - written) |-> written + k]
           b == Len(sendQueue)
<1>2. /\ n \in Nat /\ new \in Seq(Nat) /\ Len(new) = n - written /\ b \in Nat
      /\ \A k \in 1 .. (n - written) : new[k] = written + k
  BY <1>0
<1>3. /\ sendQueue' \in Seq(Nat) /\ Len(sendQueue') = b + (n - written)
      /\ \A k \in 1 .. (b + (n - written)) :
            sendQueue'[k] = IF k <= b THEN sendQueue[k] ELSE new[k - b]
  BY <1>0, <1>1, <1>2
<1> HIDE DEF new, b
<1>4. ReceiverTypeOK' /\ RxInv' /\ WaitInv' /\ AckInv' /\ DeliveredInv'
  BY <1>0, <1>1, SenderFrame
<1>5. WindowInv' /\ AckedIsReceived' /\ NetInv'
  BY <1>1, WindowFrame, NetFrame
<1>6. BurstInv'  BY <1>1, BurstFrame
<1>7. SenderTypeOK' /\ NetTypeOK'
  BY <1>1, <1>2, <1>3 DEF IInv, TypeOK, SenderTypeOK, NetTypeOK
<1>8. QueueInv'
  <2> DEFINE c == (nextSendId - FirstId) + Len(sendingQueue)
  <2>1. /\ c \in Int /\ written = c + b
        /\ \A k \in 1 .. b : sendQueue[k] = c + k
    BY <1>0 DEF QueueInv, b
  <2>2. \A k \in 1 .. Len(sendingQueue) : sendingQueue[k] = (nextSendId - FirstId) + k
    BY <1>0 DEF QueueInv
  <2> HIDE DEF c
  <2>3. ASSUME NEW k \in 1 .. Len(sendQueue')
        PROVE  sendQueue'[k] = c + k
    <3>1. CASE k <= b
      <4>1. k \in 1 .. b /\ sendQueue'[k] = sendQueue[k]  BY <3>1, <1>2, <1>3
      <4> QED BY <4>1, <2>1
    <3>2. CASE ~(k <= b)
      <4>1. k - b \in 1 .. (n - written) /\ sendQueue'[k] = new[k - b]
        BY <3>2, <1>0, <1>2, <1>3
      <4>2. new[k - b] = written + (k - b)  BY <4>1, <1>2
      <4> QED BY <4>1, <4>2, <2>1, <1>2
    <3> QED BY <3>1, <3>2
  <2>4. written' = c + Len(sendQueue')  BY <1>0, <1>1, <1>2, <1>3, <2>1
  <2> QED BY <1>1, <2>2, <2>3, <2>4 DEF QueueInv, c
<1> QED BY <1>4, <1>5, <1>6, <1>7, <1>8 DEF IInv, TypeOK

LEMMA WriteUnreliableOK ==
    ASSUME IInv, WriteUnreliable
    PROVE  IInv'
<1>0. nextSendId \in Nat  BY DEF IInv, TypeOK, SenderTypeOK
<1>1. /\ UNCHANGED <<written, sendQueue, sendingQueue, sentList, nextSendId, remoteExpected>>
      /\ UNCHANGED <<phase, burst, walk, net, acks, expected, recvWait>>
      /\ UNCHANGED receiverVars
      /\ outgoing' = outgoing \union {cluster} /\ cluster' = <<>>
  BY DEF WriteUnreliable, receiverVars
<1>2. ReceiverTypeOK' /\ RxInv' /\ WaitInv' /\ AckInv' /\ DeliveredInv'
  BY <1>0, <1>1, SenderFrame
<1>3. WindowInv' /\ AckedIsReceived' /\ QueueInv' /\ BurstInv'
  BY <1>1, WindowFrame, QueueFrame, BurstFrame
<1>4. SenderTypeOK' /\ NetTypeOK'
  BY <1>1 DEF IInv, TypeOK, SenderTypeOK, NetTypeOK
<1>5. NetInv'
  <2>1. DatagramOK(<<>>, expected, nextSendId)  BY DEF DatagramOK
  <2>2. NetInv  BY DEF IInv
  <2> QED BY <1>1, <2>1, <2>2 DEF NetInv
<1> QED BY <1>2, <1>3, <1>4, <1>5 DEF IInv, TypeOK

LEMMA TickTransportOK ==
    ASSUME IInv, TickTransport
    PROVE  IInv'
<1>0. nextSendId \in Nat  BY DEF IInv, TypeOK, SenderTypeOK
<1>1. /\ UNCHANGED <<written, sendQueue, sendingQueue, sentList, nextSendId, remoteExpected>>
      /\ UNCHANGED <<cluster, outgoing, net, acks, expected, recvWait>>
      /\ UNCHANGED receiverVars
      /\ phase = "idle" /\ phase' = "lost" /\ walk' = DOMAIN sentList /\ burst' = burst
  BY DEF TickTransport, receiverVars, RetransmitLost, Idle
<1>2. ReceiverTypeOK' /\ RxInv' /\ WaitInv' /\ AckInv' /\ DeliveredInv'
  BY <1>0, <1>1, SenderFrame
<1>3. WindowInv' /\ AckedIsReceived' /\ NetInv' /\ QueueInv' /\ BurstInv'
  BY <1>1, WindowFrame, NetFrame, QueueFrame, BurstFrame
<1>4. SenderTypeOK' /\ NetTypeOK'
  BY <1>1 DEF IInv, TypeOK, SenderTypeOK, NetTypeOK
<1> QED BY <1>2, <1>3, <1>4 DEF IInv, TypeOK

LEMMA RetransmitOK ==
    ASSUME IInv, NetworkAssumption, NEW id, Retransmit(id)
    PROVE  IInv'
<1>0. /\ nextSendId \in Nat /\ expected \in Nat /\ walk \subseteq DOMAIN sentList
      /\ DOMAIN sentList \subseteq Nat /\ TypeOK /\ NetInv /\ WindowInv
  BY DEF IInv, TypeOK, SenderTypeOK, ReceiverTypeOK
<1>1. /\ UNCHANGED <<written, sendQueue, sendingQueue, sentList, nextSendId, remoteExpected>>
      /\ UNCHANGED <<phase, burst, net, acks, expected, recvWait>>
      /\ UNCHANGED receiverVars
      /\ id \in walk /\ walk' = {i \in walk : i > id}
      /\ ClusterReliableAppend(id, LongMod, sentList[id], nextSendId)
  BY DEF Retransmit, receiverVars
<1>2. ReceiverTypeOK' /\ RxInv' /\ WaitInv' /\ AckInv' /\ DeliveredInv'
  BY <1>0, <1>1, SenderFrame
<1>3. WindowInv' /\ AckedIsReceived' /\ QueueInv' /\ BurstInv'
  BY <1>1, WindowFrame, QueueFrame, BurstFrame
<1>4. /\ id \in Nat /\ FirstId <= id /\ id < nextSendId /\ nextSendId <= id + Span
      /\ sentList[id] = MsgOf(id) /\ remoteExpected \in Int /\ FirstId <= remoteExpected
      /\ nextSendId <= expected + Span
  BY <1>0, <1>1 DEF WindowInv, TypeOK, SenderTypeOK
<1>5. /\ LongMod \in Nat /\ 2 * (id - expected) <= LongMod /\ MsgOf(id) \in Nat
      /\ LongMod \in {2 * Thresh1, 2 * Thresh2, LongMod}
  <2>1. LongMod \in Nat /\ Span \in Nat /\ MaxLag \in Nat /\ 2 * (Span + MaxLag) < LongMod
    BY AckIdAssumption, SpanFacts DEF NetworkAssumption
  <2>2. 2 * (id - expected) <= LongMod  BY <2>1, <1>0, <1>4
  <2>3. MsgOf(id) \in Nat  BY <1>4 DEF MsgOf
  <2> QED BY <2>1, <2>2, <2>3
<1>6. cluster' \in Seq(Entry) /\ outgoing' \subseteq Seq(Entry) /\ NetInv'
  BY <1>0, <1>1, <1>4, <1>5, ClusterAppendOK
<1>7. SenderTypeOK' /\ NetTypeOK'
  BY <1>1, <1>6 DEF IInv, TypeOK, SenderTypeOK, NetTypeOK
<1> QED BY <1>2, <1>3, <1>6, <1>7 DEF IInv, TypeOK

LEMMA WriteQueuedReliableOK ==
    ASSUME IInv, WriteQueuedReliable
    PROVE  IInv'
<1>0. nextSendId \in Nat  BY DEF IInv, TypeOK, SenderTypeOK
<1>1. /\ UNCHANGED <<written, sentList, nextSendId, remoteExpected, cluster, outgoing>>
      /\ UNCHANGED <<net, acks, expected, recvWait>> /\ UNCHANGED receiverVars
      /\ phase \in {"lost", "nack"} /\ phase' = "flush" /\ walk' = {} /\ burst' = burst
      /\ sendingQueue' = sendingQueue \o sendQueue /\ sendQueue' = <<>>
  BY DEF WriteQueuedReliable, receiverVars
<1>2. ReceiverTypeOK' /\ RxInv' /\ WaitInv' /\ AckInv' /\ DeliveredInv'
  BY <1>0, <1>1, SenderFrame
<1>3. WindowInv' /\ AckedIsReceived' /\ NetInv' /\ BurstInv'
  BY <1>1, WindowFrame, NetFrame, BurstFrame
<1>4. SenderTypeOK' /\ NetTypeOK'
  BY <1>1 DEF IInv, TypeOK, SenderTypeOK, NetTypeOK
<1>5. QueueInv'
  <2>1. /\ QueueInv /\ sendQueue \in Seq(Nat) /\ sendingQueue \in Seq(Nat)
        /\ written \in Nat /\ nextSendId \in Nat
    BY DEF IInv, TypeOK, SenderTypeOK
  <2> DEFINE a == Len(sendingQueue)
             b == Len(sendQueue)
  <2>2. /\ a \in Nat /\ b \in Nat /\ Len(sendingQueue') = a + b /\ Len(sendQueue') = 0
        /\ \A k \in 1 .. (a + b) :
              sendingQueue'[k] = IF k <= a THEN sendingQueue[k] ELSE sendQueue[k - a]
    BY <1>1, <2>1
  <2>3. \A k \in 1 .. a : sendingQueue[k] = (nextSendId - FirstId) + k
    BY <2>1 DEF QueueInv
  <2>4. \A k \in 1 .. b : sendQueue[k] = (nextSendId - FirstId) + a + k
    BY <2>1 DEF QueueInv
  <2>5. written = (nextSendId - FirstId) + a + b
    BY <2>1 DEF QueueInv
  <2> HIDE DEF a, b
  <2>6. ASSUME NEW k \in 1 .. (a + b)
        PROVE  sendingQueue'[k] = (nextSendId - FirstId) + k
    <3>1. CASE k <= a
      <4>1. k \in 1 .. a  BY <3>1, <2>2
      <4> QED BY <4>1, <3>1, <2>2, <2>3
    <3>2. CASE ~(k <= a)
      <4>1. k - a \in 1 .. b  BY <3>2, <2>2
      <4>2. sendingQueue'[k] = sendQueue[k - a]  BY <3>2, <2>2
      <4>3. sendQueue[k - a] = (nextSendId - FirstId) + a + (k - a)  BY <4>1, <2>4
      <4> QED BY <4>2, <4>3, <2>1, <2>2
    <3> QED BY <3>1, <3>2
  <2>7. written' = (nextSendId' - FirstId) + Len(sendingQueue') + Len(sendQueue')
    BY <1>1, <2>1, <2>2, <2>5
  <2> QED BY <1>1, <2>2, <2>6, <2>7 DEF QueueInv
<1> QED BY <1>2, <1>3, <1>4, <1>5 DEF IInv, TypeOK

\* The range chosen for a new ACK-ID reaches from the receiver to the id.
LEMMA RangeCovers ==
    ASSUME NEW id \in Nat, NEW remote \in Int, NEW exp \in Nat, remote <= exp,
           NetworkAssumption, id - remote < Span
    PROVE  LET range == CounterRange(GetACKIDOverhead(id, remote))
           IN  /\ range \in {2 * Thresh1, 2 * Thresh2, LongMod} /\ range \in Nat
               /\ 2 * (id - exp) <= range
<1>1. /\ Thresh1 \in Nat /\ Thresh2 \in Nat /\ LongMod \in Nat /\ Span \in Nat
      /\ MaxLag \in Nat /\ 2 * (Span + MaxLag) < LongMod
  BY AckIdAssumption, SpanFacts DEF NetworkAssumption
<1>2. CASE id - remote < Thresh1
  <2>1. GetACKIDOverhead(id, remote) = 1  BY <1>1, <1>2 DEF GetACKIDOverhead
  <2> QED BY <1>1, <1>2, <2>1 DEF CounterRange
<1>3. CASE ~(id - remote < Thresh1) /\ id - remote < Thresh2
  <2>1. GetACKIDOverhead(id, remote) = 2  BY <1>1, <1>3 DEF GetACKIDOverhead
  <2> QED BY <1>1, <1>3, <2>1 DEF CounterRange
<1>4. CASE ~(id - remote < Thresh1) /\ ~(id - remote < Thresh2)
  <2>1. GetACKIDOverhead(id, remote) = 3  BY <1>1, <1>4 DEF GetACKIDOverhead
  <2> QED BY <1>1, <1>4, <2>1 DEF CounterRange
<1> QED BY <1>2, <1>3, <1>4

LEMMA WriteSendQueueNodeOK ==
    ASSUME IInv, NetworkAssumption, WriteSendQueueNode
    PROVE  IInv'
<1> DEFINE msg == Head(sendingQueue)
           range == CounterRange(GetACKIDOverhead(nextSendId, remoteExpected))
           n == nextSendId + 1
<1>0. /\ nextSendId \in Nat /\ expected \in Nat /\ remoteExpected \in Int
      /\ DOMAIN sentList \subseteq Nat /\ TypeOK /\ NetInv /\ WindowInv /\ QueueInv
      /\ sendQueue \in Seq(Nat) /\ sendingQueue \in Seq(Nat) /\ written \in Nat
      /\ \A i \in DOMAIN sentList : sentList[i] \in Nat
      /\ AckedIsReceived /\ BurstInv /\ burst \in 0 .. MaxFrags
  BY DEF IInv, TypeOK, SenderTypeOK, ReceiverTypeOK
<1>1. /\ UNCHANGED <<written, sendQueue, remoteExpected, phase, walk, net, acks>>
      /\ UNCHANGED <<expected, recvWait>> /\ UNCHANGED receiverVars
      /\ sendingQueue # <<>> /\ phase = "flush"
      /\ \/ nextSendId - remoteExpected < Window /\ burst' = 1
         \/ 0 < burst /\ burst < MaxFrags /\ burst' = burst + 1
      /\ sendingQueue' = Tail(sendingQueue) /\ nextSendId' = n
      /\ ClusterReliableAppend(nextSendId, range, msg, n)
      /\ sentList' = [i \in DOMAIN sentList \union {nextSendId} |->
                         IF i = nextSendId THEN msg ELSE sentList[i]]
  BY DEF WriteSendQueueNode, WindowOpen, receiverVars
<1>2. n \in Nat /\ nextSendId <= n  BY <1>0
<1>20. PICK f \in 1 .. MaxFrags : burst' = f /\ nextSendId < remoteExpected + Window + f - 1
  <2>1. CASE nextSendId - remoteExpected < Window /\ burst' = 1
    BY <2>1, <1>0, SpanFacts
  <2>2. CASE 0 < burst /\ burst < MaxFrags /\ burst' = burst + 1
    <3>1. nextSendId <= remoteExpected + Window + burst - 1  BY <2>2, <1>0 DEF BurstInv
    <3>2. burst + 1 \in 1 .. MaxFrags  BY <2>2, <1>0
    <3> QED BY <2>2, <3>1, <3>2, <1>0, SpanFacts
  <2> QED BY <1>1, <2>1, <2>2
<1>21. nextSendId - remoteExpected < Span
  BY <1>0, <1>20, SpanFacts
<1>3. ReceiverTypeOK' /\ RxInv' /\ WaitInv' /\ AckInv' /\ DeliveredInv'
  BY <1>1, <1>2, SenderFrame
<1>4. /\ FirstId <= remoteExpected /\ remoteExpected <= expected /\ expected <= nextSendId
      /\ FirstId <= nextSendId
  BY <1>0 DEF WindowInv
<1>5. msg = MsgOf(nextSendId) /\ msg \in Nat
  <2>1. Len(sendingQueue) \in Nat /\ Len(sendingQueue) > 0 /\ msg = sendingQueue[1]
    BY <1>0, <1>1
  <2>2. sendingQueue[1] = (nextSendId - FirstId) + 1
    BY <2>1, <1>0 DEF QueueInv
  <2> QED BY <2>1, <2>2, <1>0, <1>4 DEF MsgOf
<1>6. /\ range \in {2 * Thresh1, 2 * Thresh2, LongMod} /\ range \in Nat
      /\ 2 * (nextSendId - expected) <= range
  BY <1>0, <1>21, <1>4, RangeCovers
<1> HIDE DEF msg, range
<1>7. cluster' \in Seq(Entry) /\ outgoing' \subseteq Seq(Entry) /\ NetInv'
  <2>1. n <= nextSendId + Span /\ nextSendId < n  BY <1>0, SpanFacts
  <2> QED BY <1>0, <1>1, <1>2, <1>4, <1>5, <1>6, <2>1, ClusterAppendOK
<1>8. /\ DOMAIN sentList' = DOMAIN sentList \union {nextSendId}
      /\ \A i \in DOMAIN sentList' :
            sentList'[i] = IF i = nextSendId THEN msg ELSE sentList[i]
  BY <1>1
<1>9. SenderTypeOK' /\ NetTypeOK'
  <2>1. sendingQueue' \in Seq(Nat)  BY <1>0, <1>1
  <2>2. DOMAIN sentList' \subseteq Nat /\ \A i \in DOMAIN sentList' : sentList'[i] \in Nat
    BY <1>0, <1>5, <1>8
  <2>3. walk' \subseteq DOMAIN sentList'
    BY <1>0, <1>1, <1>8 DEF TypeOK, SenderTypeOK
  <2>4. nextSendId' \in Nat  BY <1>1, <1>2
  <2>5. burst' \in 0 .. MaxFrags  BY <1>20
  <2> QED BY <1>0, <1>1, <1>7, <2>1, <2>2, <2>3, <2>4, <2>5 DEF TypeOK, SenderTypeOK, NetTypeOK
<1>10. WindowInv'
  <2>1. /\ expected <= n /\ n <= expected + Span
    BY <1>0, <1>21, <1>4, SpanFacts
  <2>2. ASSUME NEW i \in DOMAIN sentList'
        PROVE  /\ remoteExpected <= i /\ i < n /\ n <= i + Span
               /\ sentList'[i] = MsgOf(i)
    <3>1. CASE i = nextSendId
      BY <3>1, <1>0, <1>4, <1>5, <1>8, SpanFacts
    <3>2. CASE i # nextSendId
      <4>1. i \in DOMAIN sentList /\ i \in Nat /\ sentList'[i] = sentList[i]
        BY <3>2, <1>0, <1>8
      <4>2. remoteExpected <= i /\ i < nextSendId /\ sentList[i] = MsgOf(i)
        BY <4>1, <1>0 DEF WindowInv
      <4> QED BY <4>1, <4>2, <1>0, <1>21, SpanFacts
    <3> QED BY <3>1, <3>2
  <2> QED BY <1>1, <1>4, <2>1, <2>2 DEF WindowInv
<1>11. QueueInv'
  <2>1. /\ Len(sendingQueue) \in Nat /\ Len(sendQueue) \in Nat
        /\ Len(sendingQueue') = Len(sendingQueue) - 1
        /\ \A k \in 1 .. Len(sendingQueue') : sendingQueue'[k] = sendingQueue[k + 1]
    BY <1>0, <1>1
  <2> QED BY <2>1, <1>0, <1>1 DEF QueueInv
<1>12. AckedIsReceived'
  <2> SUFFICES ASSUME NEW i \in FirstId .. (n - 1)
               PROVE  i \in DOMAIN sentList' \/ i < expected \/ i \in DOMAIN recvWait
    BY <1>1 DEF AckedIsReceived
  <2>1. CASE i = nextSendId  BY <2>1, <1>8
  <2>2. CASE i # nextSendId
    <3>1. i \in FirstId .. (nextSendId - 1)  BY <2>2, <1>0
    <3> QED BY <3>1, <1>0, <1>8 DEF AckedIsReceived
  <2> QED BY <2>1, <2>2
<1>13. BurstInv'
  <2>1. n <= remoteExpected + Window + f - 1  BY <1>0, <1>20, SpanFacts
  <2> QED BY <1>1, <1>20, <2>1 DEF BurstInv
<1> QED BY <1>3, <1>7, <1>9, <1>10, <1>11, <1>12, <1>13 DEF IInv, TypeOK

LEMMA FlushWritesOK ==
    ASSUME IInv, FlushWrites
    PROVE  IInv'
<1>0. nextSendId \in Nat  BY DEF IInv, TypeOK, SenderTypeOK
<1>1. /\ UNCHANGED <<written, sendQueue, sendingQueue, sentList, nextSendId, remoteExpected>>
      /\ UNCHANGED <<acks, expected, recvWait>> /\ UNCHANGED receiverVars
      /\ phase' = "idle" /\ burst' = 0 /\ walk' = {} /\ cluster' = <<>> /\ outgoing' = {}
      /\ net' \subseteq net \union outgoing \union {cluster}
  BY DEF FlushWrites, receiverVars, Carried, Outgoing
<1>2. ReceiverTypeOK' /\ RxInv' /\ WaitInv' /\ AckInv' /\ DeliveredInv'
  BY <1>0, <1>1, SenderFrame
<1>3. WindowInv' /\ AckedIsReceived' /\ QueueInv'
  BY <1>1, WindowFrame, QueueFrame
<1>7. BurstInv'  BY <1>1 DEF BurstInv
<1>4. SenderTypeOK'
  BY <1>1 DEF IInv, TypeOK, SenderTypeOK
<1>5. NetTypeOK'
  <2>1. cluster \in Seq(Entry) /\ outgoing \subseteq Seq(Entry) /\ NetTypeOK
    BY DEF IInv, TypeOK, SenderTypeOK
  <2> QED BY <1>1, <2>1 DEF NetTypeOK
<1>6. NetInv'
  <2>1. DatagramOK(<<>>, expected, nextSendId)
    BY DEF DatagramOK
  <2>2. NetInv  BY DEF IInv
  <2> QED BY <1>1, <2>1, <2>2 DEF NetInv
<1> QED BY <1>2, <1>3, <1>4, <1>5, <1>6, <1>7 DEF IInv, TypeOK

LEMMA EndDatagramsOK ==
    ASSUME IInv, EndDatagrams
    PROVE  IInv'
<1>0. nextSendId \in Nat  BY DEF IInv, TypeOK, SenderTypeOK
<1>1. /\ UNCHANGED <<written, sendQueue, sendingQueue, sentList, nextSendId, remoteExpected>>
      /\ UNCHANGED <<cluster, outgoing, net, acks, expected, recvWait>>
      /\ UNCHANGED receiverVars
      /\ phase = "nack" /\ phase' = "idle" /\ walk' = {} /\ burst' = burst
  BY DEF EndDatagrams, receiverVars
<1>2. ReceiverTypeOK' /\ RxInv' /\ WaitInv' /\ AckInv' /\ DeliveredInv'
  BY <1>0, <1>1, SenderFrame
<1>3. WindowInv' /\ AckedIsReceived' /\ NetInv' /\ QueueInv' /\ BurstInv'
  BY <1>1, WindowFrame, NetFrame, QueueFrame, BurstFrame
<1>4. SenderTypeOK' /\ NetTypeOK'
  BY <1>1 DEF IInv, TypeOK, SenderTypeOK, NetTypeOK
<1> QED BY <1>2, <1>3, <1>4 DEF IInv, TypeOK

\* The roll-up of an acknowledgement is rebuilt as it was written.
LEMMA RollupExact ==
    ASSUME IInv, NetworkAssumption, NEW a \in acks, nextSendId - a.rollup <= MaxAckLag,
           NEW head \in DOMAIN sentList
    PROVE  ReconstructCounter(RollupMod, head, a.low) = a.rollup
<1>1. /\ a.rollup \in Nat /\ head \in Nat /\ expected \in Nat /\ nextSendId \in Nat
      /\ a.low = LowBits(a.rollup, RollupMod) /\ a.rollup <= expected
  BY DEF IInv, TypeOK, SenderTypeOK, NetTypeOK, ReceiverTypeOK, AckInv
<1>2. expected <= nextSendId /\ head < nextSendId /\ nextSendId <= head + Span
  BY DEF IInv, WindowInv
<1>3. /\ RollupMod \in Nat \ {0} /\ RollupMod % 2 = 0
      /\ RollupMod \div 2 \in Nat /\ RollupMod = 2 * (RollupMod \div 2)
  BY AckIdAssumption, RangeFacts
<1>4. 2 * MaxAckLag < RollupMod /\ 2 * Span <= RollupMod /\ MaxAckLag \in Nat /\ Span \in Nat
  BY SpanFacts DEF NetworkAssumption
<1>5. a.rollup - head <= RollupMod \div 2 /\ head - a.rollup < RollupMod \div 2
  <2> DEFINE h == RollupMod \div 2
  <2>1. h \in Nat /\ MaxAckLag < h /\ Span <= h  BY <1>3, <1>4
  <2> HIDE DEF h
  <2>2. a.rollup - head <= h /\ head - a.rollup < h  BY <1>1, <1>2, <1>4, <2>1
  <2> QED BY <2>2 DEF h
<1>6. ReconstructCounter(RollupMod, head, LowBits(a.rollup, RollupMod)) = a.rollup
  <2>1. a.rollup \in Int /\ head \in Int  BY <1>1
  <2> QED BY <2>1, <1>3, <1>5, ReconstructExact
<1> QED BY <1>1, <1>6

LEMMA OnACKOK ==
    ASSUME IInv, NetworkAssumption, NEW a, OnACK(a)
    PROVE  IInv'
<1>0. /\ nextSendId \in Nat /\ expected \in Nat /\ remoteExpected \in Int
      /\ DOMAIN sentList \subseteq Nat /\ WindowInv /\ AckInv /\ AckedIsReceived
      /\ \A i \in DOMAIN sentList : sentList[i] \in Nat
  BY DEF IInv, TypeOK, SenderTypeOK, ReceiverTypeOK
<1>1. /\ UNCHANGED <<written, sendQueue, sendingQueue, nextSendId, cluster, outgoing, net>>
      /\ UNCHANGED <<expected, recvWait>> /\ UNCHANGED receiverVars
      /\ a \in acks /\ acks' = acks \ {a} /\ phase' = "nack" /\ phase = "idle" /\ burst' = burst
      /\ nextSendId - a.rollup <= MaxAckLag
  BY DEF OnACK, receiverVars, Idle
<1> DEFINE held == {a.rollup + o : o \in a.held}
           left == {i \in DOMAIN sentList : i >= a.rollup /\ i \notin held}
<1>2. /\ remoteExpected' = a.rollup
      /\ sentList' = [i \in left |-> sentList[i]]
      /\ walk' = {i \in left : \E h \in held : i < h}
  <2>1. PICK head \in DOMAIN sentList :
          LET ack_id == ReconstructCounter(RollupMod, head, a.low)
              h == {ack_id + o : o \in a.held}
              l == {i \in DOMAIN sentList : i >= ack_id /\ i \notin h}
          IN  /\ remoteExpected' = ack_id
              /\ sentList' = [i \in l |-> sentList[i]]
              /\ walk' = {i \in l : \E j \in h : i < j}
    BY DEF OnACK, RetransmitNegative, Unacknowledged
  <2>2. ReconstructCounter(RollupMod, head, a.low) = a.rollup
    BY <1>1, RollupExact
  <2> QED BY <2>1, <2>2
<1>3. /\ a.rollup \in Nat /\ FirstId <= a.rollup /\ a.rollup <= expected
      /\ \A o \in a.held : Received(a.rollup + o)
  BY <1>0, <1>1 DEF AckInv, IInv, TypeOK, NetTypeOK
<1>4. ReceiverTypeOK' /\ RxInv' /\ WaitInv' /\ AckInv' /\ DeliveredInv'
  BY <1>0, <1>1, SenderFrame
<1>5. QueueInv' /\ NetInv' /\ BurstInv' /\ burst' \in 0 .. MaxFrags
  BY <1>1, QueueFrame, NetFrame, BurstFrame
<1>6. /\ left \subseteq DOMAIN sentList /\ DOMAIN sentList' = left
      /\ \A i \in left : sentList'[i] = sentList[i] /\ i >= a.rollup
  BY <1>2
<1>7. AckedIsReceived'
  <2> SUFFICES ASSUME NEW i \in FirstId .. (nextSendId - 1), i \notin left
               PROVE  i < expected \/ i \in DOMAIN recvWait
    BY <1>1, <1>6 DEF AckedIsReceived
  <2>1. CASE i \notin DOMAIN sentList  BY <2>1, <1>0 DEF AckedIsReceived
  <2>2. CASE ~(i >= a.rollup)  BY <2>2, <1>0, <1>3
  <2>3. CASE i \in held  BY <2>3, <1>3 DEF Received
  <2> QED BY <2>1, <2>2, <2>3
<1> HIDE DEF left, held
<1>8. SenderTypeOK'
  <2>1. walk' \subseteq DOMAIN sentList'  BY <1>2, <1>6
  <2>2. DOMAIN sentList' \subseteq Nat /\ \A i \in DOMAIN sentList' : sentList'[i] \in Nat
    BY <1>0, <1>6
  <2>3. remoteExpected' \in Int  BY <1>2, <1>3
  <2>4. SenderTypeOK  BY DEF IInv, TypeOK
  <2> QED BY <1>1, <1>5, <2>1, <2>2, <2>3, <2>4 DEF SenderTypeOK
<1>9. NetTypeOK'
  BY <1>1 DEF IInv, TypeOK, NetTypeOK
<1>10. WindowInv'
  <2>1. /\ expected <= nextSendId /\ nextSendId <= expected + Span
        /\ \A i \in DOMAIN sentList :
             i < nextSendId /\ nextSendId <= i + Span /\ sentList[i] = MsgOf(i)
    BY <1>0 DEF WindowInv
  <2>2. \A i \in left : /\ a.rollup <= i /\ i < nextSendId /\ nextSendId <= i + Span
                        /\ sentList'[i] = MsgOf(i)
    BY <2>1, <1>0, <1>3, <1>6
  <2>3. /\ FirstId <= remoteExpected' /\ remoteExpected' <= expected'
        /\ expected' <= nextSendId' /\ nextSendId' <= expected' + Span
    BY <1>1, <1>2, <1>3, <2>1
  <2>4. \A i \in DOMAIN sentList' :
          /\ remoteExpected' <= i /\ i < nextSendId' /\ nextSendId' <= i + Span
          /\ sentList'[i] = MsgOf(i)
    BY <1>1, <1>2, <1>6, <2>2
  <2> QED BY <2>3, <2>4 DEF WindowInv
<1> QED BY <1>4, <1>5, <1>7, <1>8, <1>9, <1>10 DEF IInv, TypeOK

------------------------------------------------------------------------------
(* The receiver's steps *)

LEMMA RecvDatagramOK ==
    ASSUME IInv, NEW d, RecvDatagram(d)
    PROVE  IInv'
<1>0. /\ expected \in Nat /\ nextSendId \in Nat /\ WindowInv /\ NetInv
      /\ net \subseteq Seq(Entry)
  BY DEF IInv, TypeOK, NetTypeOK, SenderTypeOK, ReceiverTypeOK
<1>1. /\ UNCHANGED senderVars /\ nextSendId' = nextSendId
      /\ UNCHANGED <<acks, expected, recvWait, gotReliable, delivered>>
      /\ d \in net /\ net' = net \ {d} /\ rx' = d /\ rxId' = 0 /\ Timely(d)
  BY DEF RecvDatagram, senderVars
<1>2. SenderTypeOK' /\ QueueInv' /\ WindowInv' /\ BurstInv' /\ NetInv' /\ AckedIsReceived'
  <2>1. expected <= nextSendId  BY <1>0 DEF WindowInv
  <2>2. \A id \in DOMAIN recvWait : id < expected \/ id \in DOMAIN recvWait'  BY <1>1
  <2> QED BY <1>0, <1>1, <2>1, <2>2, ReceiverFrame
<1>3. WaitInv' /\ AckInv'
  BY <1>1 DEF IInv, WaitInv, AckInv, Received
<1>4. DeliveredInv'
  <2>1. DeliveredInv  BY DEF IInv
  <2> QED BY <1>1, <2>1 DEF DeliveredInv, DeliveredOnce
<1>5. NetTypeOK' /\ ReceiverTypeOK'
  BY <1>1 DEF IInv, TypeOK, NetTypeOK, ReceiverTypeOK
<1>6. RxInv'
  <2>1. DatagramOK(d, expected, nextSendId) /\ d \in Seq(Entry)
    BY <1>0, <1>1 DEF NetInv
  <2>2. DOMAIN d = 1 .. Len(d)  BY <2>1
  <2>3. \A k \in 1 .. Len(d) :
          /\ expected <= d[k].stamp + MaxLag
          /\ \A i \in DOMAIN recvWait : i < d[k].stamp + MaxLag
    BY <1>1, <2>2 DEF Timely
  <2>4. \A k \in 1 .. Len(d) :
          d[k].m = 0 => d[k].id = (IF k = 1 THEN 0 ELSE d[k-1].id) + 1
    BY <2>1 DEF DatagramOK
  <2> QED BY <1>1, <2>1, <2>3, <2>4 DEF RxInv, DatagramOK
<1> QED BY <1>2, <1>3, <1>4, <1>5, <1>6 DEF IInv, TypeOK

\* What is known of the entry at hand.
LEMMA HeadFacts ==
    ASSUME IInv, NetworkAssumption, rx # <<>>
    PROVE  /\ EntryId = Head(rx).id /\ EntryId \in Nat /\ Head(rx).msg \in Nat
           /\ FirstId <= EntryId /\ EntryId < nextSendId
           /\ Head(rx).msg = MsgOf(EntryId)
<1>1. EntryId = Head(rx).id  BY EntryIdExact
<1>2. Head(rx) = rx[1] /\ Head(rx) \in Entry /\ 1 \in 1 .. Len(rx)
  BY DEF IInv, TypeOK, ReceiverTypeOK
<1>3. EntryOK(Head(rx), expected, nextSendId)  BY <1>2 DEF IInv, RxInv
<1>4. nextSendId \in Nat  BY DEF IInv, TypeOK, SenderTypeOK
<1> QED BY <1>1, <1>2, <1>3, <1>4, EntryFields DEF EntryOK

\* The rest of the datagram after an entry was taken from it.
LEMMA RxTail ==
    ASSUME IInv, NetworkAssumption, NextEntry,
           NEW x \in Nat, expected' = x, expected <= x,
           x = expected \/ x = EntryId + 1,
           DOMAIN recvWait' \subseteq DOMAIN recvWait \union {EntryId}
    PROVE  RxInv' /\ rx' \in Seq(Entry) /\ rxId' \in Int
<1>1. /\ rx # <<>> /\ rx' = Tail(rx) /\ rxId' = EntryId /\ nextSendId' = nextSendId
  BY DEF NextEntry, senderVars
<1>2. /\ rx \in Seq(Entry) /\ expected \in Nat /\ nextSendId \in Nat
      /\ DOMAIN recvWait \subseteq Int
  BY DEF IInv, TypeOK, SenderTypeOK, ReceiverTypeOK
<1>3. EntryId = rx[1].id /\ EntryId \in Nat  BY <1>1, <1>2, HeadFacts
<1> DEFINE r == Tail(rx)
<1>4. /\ r \in Seq(Entry) /\ Len(r) \in Nat /\ Len(rx) = Len(r) + 1
      /\ \A k \in 1 .. Len(r) : r[k] = rx[k + 1] /\ r[k] \in Entry
  BY <1>1, <1>2
<1> HIDE DEF r
<1>5. \A k \in 1 .. Len(r) : k + 1 \in 1 .. Len(rx)  BY <1>4
<1>6. RxInv  BY DEF IInv
<1>7. ASSUME NEW k \in 1 .. Len(r)
      PROVE  EntryOK(r[k], x, nextSendId)
  <2>1. EntryOK(r[k], expected, nextSendId) /\ r[k] \in Entry
    BY <1>4, <1>5, <1>6 DEF RxInv
  <2> QED BY <2>1, <1>2, EntryMonotone
<1>8. ASSUME NEW k \in 1 .. Len(r), r[k].m = 0
      PROVE  r[k].id = (IF k = 1 THEN EntryId ELSE r[k-1].id) + 1
  <2>1. rx[k+1].m = 0 /\ k + 1 \in 1 .. Len(rx) /\ k + 1 # 1  BY <1>8, <1>4, <1>5
  <2>2. rx[k+1].id = rx[(k+1)-1].id + 1  BY <2>1, <1>6 DEF RxInv
  <2>3. rx[(k+1)-1] = rx[k] /\ r[k] = rx[k+1]  BY <1>4
  <2>4. CASE k = 1  BY <2>2, <2>3, <2>4, <1>3
  <2>5. CASE k # 1
    <3>1. k - 1 \in 1 .. Len(r)  BY <2>5, <1>4
    <3>2. r[k-1] = rx[(k-1)+1]  BY <3>1, <1>4
    <3>3. rx[(k-1)+1] = rx[k]  OBVIOUS
    <3> QED BY <2>2, <2>3, <2>5, <3>2, <3>3
  <2> QED BY <2>4, <2>5
<1>9. ASSUME NEW j \in 1 .. Len(r), NEW k \in 1 .. Len(r), j < k
      PROVE  r[j].id < r[k].stamp
  <2>1. j + 1 \in 1 .. Len(rx) /\ k + 1 \in 1 .. Len(rx) /\ j + 1 < k + 1
    BY <1>9, <1>5
  <2>2. rx[j+1].id < rx[k+1].stamp  BY <2>1, <1>6 DEF RxInv
  <2> QED BY <2>2, <1>4
<1>10. ASSUME NEW k \in 1 .. Len(r)
       PROVE  /\ x <= r[k].stamp + MaxLag
              /\ \A i \in DOMAIN recvWait' : i < r[k].stamp + MaxLag
  <2>1. k + 1 \in 1 .. Len(rx) /\ 1 \in 1 .. Len(rx) /\ 1 < k + 1  BY <1>4, <1>5
  <2>2. /\ rx[1].id < rx[k+1].stamp /\ expected <= rx[k+1].stamp + MaxLag
        /\ \A i \in DOMAIN recvWait : i < rx[k+1].stamp + MaxLag
    BY <2>1, <1>6 DEF RxInv
  <2>3. r[k] = rx[k+1] /\ r[k].stamp \in Nat /\ MaxLag \in Nat  BY <1>4, EntryFields
  <2>4. EntryId < r[k].stamp + MaxLag /\ EntryId + 1 <= r[k].stamp + MaxLag
    BY <2>2, <2>3, <1>3, SMTT(40)
  <2> QED BY <2>2, <2>3, <2>4
<1>11. rx' = r  BY <1>1 DEF r
<1>12. RxInv'
  BY <1>1, <1>7, <1>8, <1>9, <1>10, <1>11 DEF RxInv
<1>13. rx' \in Seq(Entry)  BY <1>4, <1>11
<1>14. rxId' \in Int  BY <1>1, <1>3
<1> QED BY <1>12, <1>13, <1>14

\* What an acknowledgement tells stays true.
LEMMA AckFrame ==
    ASSUME IInv, acks' = acks, NEW x \in Nat, expected' = x, expected <= x,
           \A id \in DOMAIN recvWait : id < x \/ id \in DOMAIN recvWait'
    PROVE  AckInv'
<1>1. /\ AckInv /\ expected \in Nat
      /\ \A a \in acks : a.rollup \in Nat /\ a.held \subseteq Int
  BY DEF IInv, TypeOK, NetTypeOK, ReceiverTypeOK
<1>2. ASSUME NEW a \in acks
      PROVE  /\ FirstId <= a.rollup /\ a.rollup <= x
             /\ a.low = LowBits(a.rollup, RollupMod)
             /\ \A o \in a.held : a.rollup + o < x \/ a.rollup + o \in DOMAIN recvWait'
  BY <1>1 DEF AckInv, Received
<1> QED BY <1>2 DEF AckInv, Received

\* Handing over a message for the first time.
LEMMA AppendOnce ==
    ASSUME NEW q \in Seq(Nat), NEW msg \in Nat,
           \A j, k \in DOMAIN q : q[j] = q[k] => j = k,
           \A k \in 1 .. Len(q) : q[k] # msg
    PROVE  \A j, k \in DOMAIN Append(q, msg) :
              Append(q, msg)[j] = Append(q, msg)[k] => j = k
<1> DEFINE f == Append(q, msg)
<1>1. /\ DOMAIN q = 1 .. Len(q) /\ DOMAIN f = 1 .. (Len(q) + 1) /\ Len(q) \in Nat
      /\ f[Len(q) + 1] = msg /\ \A k \in 1 .. Len(q) : f[k] = q[k]
  OBVIOUS
<1> HIDE DEF f
<1>2. \A k \in DOMAIN f : k \in 1 .. Len(q) \/ k = Len(q) + 1  BY <1>1
<1>3. ASSUME NEW j \in DOMAIN f, NEW k \in DOMAIN f, f[j] = f[k]
      PROVE  j = k
  <2>1. CASE j \in 1 .. Len(q) /\ k \in 1 .. Len(q)  BY <2>1, <1>1, <1>3
  <2>2. CASE j \in 1 .. Len(q) /\ k = Len(q) + 1  BY <2>2, <1>1, <1>3
  <2>3. CASE j = Len(q) + 1 /\ k \in 1 .. Len(q)  BY <2>3, <1>1, <1>3
  <2>4. CASE j = Len(q) + 1 /\ k = Len(q) + 1  BY <2>4
  <2> QED BY <1>2, <2>1, <2>2, <2>3, <2>4
<1> QED BY <1>3 DEF f

\* The message of id is handed over while the receiver moves to x.
LEMMA DeliverOK ==
    ASSUME IInv, NEW id \in Nat, FirstId <= id, NEW x \in Nat, expected' = x, expected <= x,
           delivered' = Append(delivered, MsgOf(id)),
           ~Unordered => id = expected /\ x = expected + 1,
           id >= expected,
           Unordered => id \notin DOMAIN recvWait \/ ~DeliverEarly(MsgOf(id)),
           Unordered => id < x \/ (id \in DOMAIN recvWait' /\ DeliverEarly(MsgOf(id))),
           \A i \in DOMAIN recvWait : i < x \/ i \in DOMAIN recvWait'
    PROVE  DeliveredInv' /\ delivered' \in Seq(Nat)
<1> DEFINE msg == MsgOf(id)
           f == Append(delivered, msg)
<1>1. /\ expected \in Nat /\ delivered \in Seq(Nat) /\ DeliveredInv
  BY DEF IInv, TypeOK, ReceiverTypeOK
<1>2. msg \in Nat /\ msg + FirstId - 1 = id /\ msg = id - FirstId + 1 /\ FirstId \in Nat
  BY DEF MsgOf
<1> HIDE DEF msg
<1>3. /\ f \in Seq(Nat) /\ Len(f) = Len(delivered) + 1 /\ Len(delivered) \in Nat
      /\ f[Len(delivered) + 1] = msg
      /\ \A k \in 1 .. Len(delivered) : f[k] = delivered[k] /\ delivered[k] \in Nat
  BY <1>1, <1>2
<1>4. delivered' = f  BY DEF f, msg
<1> HIDE DEF f
<1>5. \A k \in 1 .. Len(f) : k \in 1 .. Len(delivered) \/ k = Len(delivered) + 1
  BY <1>3
<1>6. ASSUME ~Unordered
      PROVE  Len(f) = x - FirstId /\ \A k \in 1 .. Len(f) : f[k] = k
  <2>1. /\ Len(delivered) = expected - FirstId
        /\ \A k \in 1 .. Len(delivered) : delivered[k] = k
    BY <1>1, <1>6 DEF DeliveredInv
  <2>2. id = expected /\ x = expected + 1  BY <1>6
  <2>3. msg = Len(delivered) + 1 /\ Len(f) = x - FirstId
    BY <2>1, <2>2, <1>1, <1>2, <1>3
  <2> QED BY <1>3, <1>5, <2>1, <2>3
<1>7. ASSUME Unordered, ~AllocFails
      PROVE  /\ \A j, k \in DOMAIN f : f[j] = f[k] => j = k
             /\ \A k \in 1 .. Len(f) : Accounted(f[k], x, DOMAIN recvWait')
  <2>1. /\ DeliveredOnce
        /\ \A k \in 1 .. Len(delivered) : Accounted(delivered[k], expected, DOMAIN recvWait)
    BY <1>1, <1>7 DEF DeliveredInv
  <2>2. ASSUME NEW k \in 1 .. Len(delivered), delivered[k] = msg
        PROVE  FALSE
    <3>1. Accounted(msg, expected, DOMAIN recvWait)  BY <2>1, <2>2
    <3>2. id < expected \/ (id \in DOMAIN recvWait /\ DeliverEarly(msg))
      BY <3>1, <1>2 DEF Accounted
    <3>3. id \notin DOMAIN recvWait \/ ~DeliverEarly(msg)  BY <1>7 DEF msg
    <3> QED BY <3>2, <3>3, <1>1
  <2>3. \A j, k \in DOMAIN f : f[j] = f[k] => j = k
    BY <2>1, <2>2, <1>1, <1>2, AppendOnce DEF DeliveredOnce, f
  <2>4. ASSUME NEW k \in 1 .. Len(delivered)
        PROVE  Accounted(f[k], x, DOMAIN recvWait')
    <3>1. Accounted(delivered[k], expected, DOMAIN recvWait)  BY <2>1
    <3>2. f[k] = delivered[k] /\ delivered[k] \in Nat  BY <1>3
    <3> QED BY <3>1, <3>2, <1>1 DEF Accounted
  <2>5. Accounted(msg, x, DOMAIN recvWait')
    <3>1. id < x \/ (id \in DOMAIN recvWait' /\ DeliverEarly(msg))  BY <1>7 DEF msg
    <3> QED BY <3>1, <1>2 DEF Accounted
  <2>6. \A k \in 1 .. Len(f) : Accounted(f[k], x, DOMAIN recvWait')
    BY <2>4, <2>5, <1>3, <1>5
  <2> QED BY <2>3, <2>6
<1> QED BY <1>3, <1>4, <1>6, <1>7 DEF DeliveredInv, DeliveredOnce

\* Nothing is handed over while the receiver moves to x.
LEMMA KeepOK ==
    ASSUME IInv, NEW x \in Nat, expected' = x, expected <= x, delivered' = delivered,
           ~Unordered => x = expected,
           \A i \in DOMAIN recvWait : i < x \/ i \in DOMAIN recvWait'
    PROVE  DeliveredInv'
<1>1. /\ expected \in Nat /\ delivered \in Seq(Nat) /\ DeliveredInv
  BY DEF IInv, TypeOK, ReceiverTypeOK
<1>2. ASSUME Unordered, ~AllocFails, NEW k \in 1 .. Len(delivered)
      PROVE  Accounted(delivered[k], x, DOMAIN recvWait')
  <2>1. Accounted(delivered[k], expected, DOMAIN recvWait)
    BY <1>1, <1>2 DEF DeliveredInv
  <2>2. delivered[k] \in Nat  BY <1>1
  <2> QED BY <2>1, <2>2, <1>1 DEF Accounted
<1> QED BY <1>1, <1>2 DEF DeliveredInv, DeliveredOnce

LEMMA ProcessInOrderOK ==
    ASSUME IInv, NetworkAssumption, ProcessInOrder
    PROVE  IInv'
<1> DEFINE x == expected + 1
<1>0. /\ expected \in Nat /\ DOMAIN recvWait \subseteq Int /\ WaitInv /\ ReceiverTypeOK
      /\ NetTypeOK
  BY DEF IInv, TypeOK, ReceiverTypeOK
<1>1. /\ UNCHANGED senderVars /\ UNCHANGED <<net, acks, recvWait>> /\ nextSendId' = nextSendId
      /\ rx # <<>> /\ expected \notin DOMAIN recvWait /\ EntryId = expected
      /\ delivered' = Append(delivered, Head(rx).msg) /\ expected' = x /\ gotReliable' = TRUE
  BY DEF ProcessInOrder, NextEntry, senderVars, QueueReady
<1>2. expected < nextSendId /\ FirstId <= expected /\ Head(rx).msg = MsgOf(expected)
  BY <1>1, HeadFacts
<1>3. x \in Nat /\ expected <= x /\ x <= nextSendId
  <2>1. nextSendId \in Nat  BY DEF IInv, TypeOK, SenderTypeOK
  <2> QED BY <2>1, <1>0, <1>2
<1>4. SenderTypeOK' /\ QueueInv' /\ WindowInv' /\ BurstInv' /\ NetInv' /\ AckedIsReceived'
  BY <1>1, <1>3, ReceiverFrame
<1>5. AckInv'
  BY <1>1, <1>3, AckFrame
<1>6. RxInv' /\ rx' \in Seq(Entry) /\ rxId' \in Int
  BY <1>1, <1>3, RxTail DEF ProcessInOrder
<1>7. DeliveredInv' /\ delivered' \in Seq(Nat)
  BY <1>0, <1>1, <1>2, <1>3, DeliverOK
<1>8. WaitInv'
  BY <1>0, <1>1 DEF WaitInv
<1>9. NetTypeOK' /\ ReceiverTypeOK'
  BY <1>0, <1>1, <1>3, <1>6, <1>7 DEF NetTypeOK, ReceiverTypeOK
<1> QED BY <1>4, <1>5, <1>6, <1>7, <1>8, <1>9 DEF IInv, TypeOK

LEMMA RunReliableReceiveQueueOK ==
    ASSUME IInv, RunReliableReceiveQueue
    PROVE  IInv'
<1> DEFINE x == expected + 1
<1>0. /\ expected \in Nat /\ DOMAIN recvWait \subseteq Int /\ WaitInv /\ ReceiverTypeOK
      /\ NetTypeOK /\ RxInv /\ rx \in Seq(Entry) /\ nextSendId \in Nat
      /\ FirstId <= expected
  <2>1. remoteExpected \in Int /\ expected \in Nat /\ WindowInv
    BY DEF IInv, TypeOK, SenderTypeOK, ReceiverTypeOK
  <2>2. FirstId <= expected  BY <2>1 DEF WindowInv
  <2> QED BY <2>2 DEF IInv, TypeOK, SenderTypeOK, ReceiverTypeOK
<1>1. /\ UNCHANGED senderVars /\ UNCHANGED <<net, acks, rx, rxId>> /\ nextSendId' = nextSendId
      /\ expected \in DOMAIN recvWait
      /\ delivered' = (IF recvWait[expected] = NoData THEN delivered
                       ELSE Append(delivered, recvWait[expected]))
      /\ recvWait' = [i \in DOMAIN recvWait \ {expected} |-> recvWait[i]]
      /\ expected' = x /\ gotReliable' = TRUE
  BY DEF RunReliableReceiveQueue, senderVars, QueueReady
<1>2. /\ DOMAIN recvWait' = DOMAIN recvWait \ {expected}
      /\ \A i \in DOMAIN recvWait' : recvWait'[i] = recvWait[i]
  BY <1>1
<1>3. /\ x \in Nat /\ expected <= x /\ x <= nextSendId
      /\ recvWait[expected] = (IF DeliverEarly(MsgOf(expected)) THEN NoData ELSE MsgOf(expected))
  BY <1>0, <1>1 DEF WaitInv
<1>4. \A id \in DOMAIN recvWait : id < x \/ id \in DOMAIN recvWait'
  BY <1>0, <1>2
<1>5. SenderTypeOK' /\ QueueInv' /\ WindowInv' /\ BurstInv' /\ NetInv' /\ AckedIsReceived'
  BY <1>1, <1>3, <1>4, ReceiverFrame
<1>6. AckInv'
  BY <1>1, <1>3, <1>4, AckFrame
<1>7. RxInv'
  <2>1. ASSUME NEW k \in 1 .. Len(rx)
        PROVE  /\ EntryOK(rx[k], x, nextSendId)
               /\ x <= rx[k].stamp + MaxLag
               /\ \A i \in DOMAIN recvWait' : i < rx[k].stamp + MaxLag
    <3>1. rx[k] \in Entry /\ EntryOK(rx[k], expected, nextSendId)  BY <1>0 DEF RxInv
    <3>2. EntryOK(rx[k], x, nextSendId)  BY <3>1, <1>0, <1>3, EntryMonotone
    <3>3. \A i \in DOMAIN recvWait : i < rx[k].stamp + MaxLag  BY <1>0 DEF RxInv
    <3>4. rx[k].stamp \in Nat /\ MaxLag \in Nat  BY <3>1, EntryFields
    <3> QED BY <3>2, <3>3, <3>4, <1>0, <1>1, <1>2
  <2>2. /\ \A k \in 1 .. Len(rx) :
             rx[k].m = 0 => rx[k].id = (IF k = 1 THEN rxId ELSE rx[k-1].id) + 1
        /\ \A j, k \in 1 .. Len(rx) : j < k => rx[j].id < rx[k].stamp
    BY <1>0 DEF RxInv
  <2> QED BY <1>1, <2>1, <2>2 DEF RxInv
<1>8. MsgOf(expected) \in Nat /\ MsgOf(expected) # NoData
  BY <1>0 DEF MsgOf, NoData
<1>9. DeliveredInv' /\ delivered' \in Seq(Nat)
  <2>1. CASE DeliverEarly(MsgOf(expected))
    <3>1. delivered' = delivered /\ Unordered
      BY <2>1, <1>1, <1>3 DEF DeliverEarly
    <3>2. DeliveredInv'  BY <3>1, <1>1, <1>3, <1>4, KeepOK
    <3> QED BY <3>1, <3>2, <1>0 DEF ReceiverTypeOK
  <2>2. CASE ~DeliverEarly(MsgOf(expected))
    <3>1. delivered' = Append(delivered, MsgOf(expected))
      BY <2>2, <1>1, <1>3, <1>8
    <3>2. expected < x  BY <1>0
    <3>3. expected \in Nat /\ FirstId <= expected /\ expected >= expected  BY <1>0
    <3> HIDE DEF x
    <3> QED BY <2>2, <3>1, <3>2, <3>3, <1>1, <1>3, <1>4, DeliverOK DEF x
  <2> QED BY <2>1, <2>2
<1>10. WaitInv'
  <2>1. ASSUME NEW i \in DOMAIN recvWait'
        PROVE  /\ x <= i /\ i < nextSendId
               /\ recvWait'[i] = (IF DeliverEarly(MsgOf(i)) THEN NoData ELSE MsgOf(i))
    <3>1. i \in DOMAIN recvWait /\ i # expected /\ i \in Int /\ recvWait'[i] = recvWait[i]
      BY <1>0, <1>2
    <3> QED BY <3>1, <1>0 DEF WaitInv
  <2> QED BY <1>1, <2>1 DEF WaitInv
<1>11. NetTypeOK' /\ ReceiverTypeOK'
  <2>1. /\ DOMAIN recvWait' \subseteq Int
        /\ \A i \in DOMAIN recvWait' : recvWait'[i] \in Nat
    BY <1>0, <1>2 DEF ReceiverTypeOK
  <2> QED BY <1>0, <1>1, <1>3, <1>9, <2>1 DEF NetTypeOK, ReceiverTypeOK
<1> QED BY <1>5, <1>6, <1>7, <1>9, <1>10, <1>11 DEF IInv, TypeOK

\* The steps on an out-of-order entry: expected stays, id may be stored and its
\* message may be handed over.
LEMMA OutOfOrderOK ==
    ASSUME IInv, NetworkAssumption, NextEntry, expected' = expected, EntryId > expected,
           gotReliable' \in BOOLEAN,
           \/ recvWait' = recvWait
           \/ recvWait' = [i \in DOMAIN recvWait \union {EntryId} |->
                             IF i # EntryId THEN recvWait[i]
                             ELSE IF DeliverEarly(Head(rx).msg) THEN NoData ELSE Head(rx).msg],
           DeliveredInv', delivered' \in Seq(Nat)
    PROVE  IInv'
<1>0. /\ expected \in Nat /\ DOMAIN recvWait \subseteq Int /\ WaitInv /\ ReceiverTypeOK
      /\ NetTypeOK /\ nextSendId \in Nat /\ expected <= nextSendId
      /\ \A i \in DOMAIN recvWait : recvWait[i] \in Nat
  BY DEF IInv, TypeOK, SenderTypeOK, ReceiverTypeOK, WindowInv
<1>1. /\ UNCHANGED senderVars /\ UNCHANGED <<net, acks>> /\ nextSendId' = nextSendId
      /\ rx # <<>>
  BY DEF NextEntry, senderVars
<1>2. /\ EntryId \in Nat /\ EntryId < nextSendId /\ Head(rx).msg = MsgOf(EntryId)
      /\ Head(rx).msg \in Nat
  BY <1>1, HeadFacts
<1>3. /\ DOMAIN recvWait \subseteq DOMAIN recvWait'
      /\ DOMAIN recvWait' \subseteq DOMAIN recvWait \union {EntryId}
      /\ \A i \in DOMAIN recvWait' :
           \/ i \in DOMAIN recvWait /\ recvWait'[i] = recvWait[i]
           \/ /\ i = EntryId
              /\ recvWait'[i] = (IF DeliverEarly(MsgOf(i)) THEN NoData ELSE MsgOf(i))
  BY <1>2
<1>4. \A id \in DOMAIN recvWait : id < expected \/ id \in DOMAIN recvWait'
  BY <1>3
<1>5. SenderTypeOK' /\ QueueInv' /\ WindowInv' /\ BurstInv' /\ NetInv' /\ AckedIsReceived'
  BY <1>0, <1>1, <1>4, ReceiverFrame
<1>6. AckInv'
  BY <1>0, <1>1, <1>4, AckFrame
<1>7. RxInv' /\ rx' \in Seq(Entry) /\ rxId' \in Int
  BY <1>0, <1>3, RxTail
<1>8. WaitInv'
  <2>1. ASSUME NEW i \in DOMAIN recvWait'
        PROVE  /\ expected <= i /\ i < nextSendId
               /\ recvWait'[i] = (IF DeliverEarly(MsgOf(i)) THEN NoData ELSE MsgOf(i))
    <3>1. CASE i \in DOMAIN recvWait /\ recvWait'[i] = recvWait[i]
      BY <3>1, <1>0 DEF WaitInv
    <3>2. CASE i = EntryId /\ recvWait'[i] = (IF DeliverEarly(MsgOf(i)) THEN NoData ELSE MsgOf(i))
      BY <3>2, <1>0, <1>2
    <3> QED BY <1>3, <3>1, <3>2
  <2> QED BY <1>1, <2>1 DEF WaitInv
<1>9. NetTypeOK' /\ ReceiverTypeOK'
  <2>1. DOMAIN recvWait' \subseteq Int  BY <1>0, <1>2, <1>3
  <2>2. ASSUME NEW i \in DOMAIN recvWait'
        PROVE  recvWait'[i] \in Nat
    <3>1. CASE i \in DOMAIN recvWait /\ recvWait'[i] = recvWait[i]
      BY <3>1, <1>0
    <3>2. CASE i = EntryId /\ recvWait'[i] = (IF DeliverEarly(MsgOf(i)) THEN NoData ELSE MsgOf(i))
      BY <3>2, <1>2 DEF NoData
    <3> QED BY <1>3, <3>1, <3>2
  <2> QED BY <1>0, <1>1, <1>7, <2>1, <2>2 DEF NetTypeOK, ReceiverTypeOK
<1> QED BY <1>5, <1>6, <1>7, <1>8, <1>9 DEF IInv, TypeOK

LEMMA StoreReliableOutOfOrderOK ==
    ASSUME IInv, NetworkAssumption, StoreReliableOutOfOrder
    PROVE  IInv'
<1> DEFINE msg == Head(rx).msg
<1>0. expected \in Nat /\ delivered \in Seq(Nat)  BY DEF IInv, TypeOK, ReceiverTypeOK
<1>1. /\ NextEntry /\ rx # <<>> /\ expected' = expected /\ EntryId > expected
      /\ gotReliable' = TRUE
      /\ EntryId \notin DOMAIN recvWait
      /\ delivered' = (IF DeliverEarly(msg) THEN Append(delivered, msg) ELSE delivered)
      /\ recvWait' = [i \in DOMAIN recvWait \union {EntryId} |->
                         IF i # EntryId THEN recvWait[i]
                         ELSE IF DeliverEarly(msg) THEN NoData ELSE msg]
  BY DEF StoreReliableOutOfOrder, NextEntry, Storable
<1>2. EntryId \in Nat /\ FirstId <= EntryId /\ msg = MsgOf(EntryId)
  BY <1>1, HeadFacts
<1> HIDE DEF msg
<1>3. DOMAIN recvWait' = DOMAIN recvWait \union {EntryId}  BY <1>1
<1>4. DeliveredInv' /\ delivered' \in Seq(Nat)
  <2>1. CASE DeliverEarly(msg)
    <3>1. delivered' = Append(delivered, MsgOf(EntryId)) /\ Unordered
      BY <2>1, <1>1, <1>2 DEF DeliverEarly
    <3>2. EntryId >= expected /\ expected <= expected  BY <1>0, <1>1, <1>2
    <3> QED BY <2>1, <3>1, <3>2, <1>0, <1>1, <1>2, <1>3, DeliverOK
  <2>2. CASE ~DeliverEarly(msg)
    <3>1. delivered' = delivered  BY <2>2, <1>1
    <3>2. DeliveredInv'  BY <3>1, <1>0, <1>1, <1>3, KeepOK
    <3> QED BY <3>1, <3>2, <1>0
  <2> QED BY <2>1, <2>2
<1> QED BY <1>1, <1>4, OutOfOrderOK DEF msg

LEMMA StoreOutOfMemoryOK ==
    ASSUME IInv, NetworkAssumption, StoreOutOfMemory
    PROVE  IInv'
<1> DEFINE msg == Head(rx).msg
<1>0. /\ expected \in Nat /\ delivered \in Seq(Nat) /\ gotReliable \in BOOLEAN /\ DeliveredInv
  BY DEF IInv, TypeOK, ReceiverTypeOK
<1>1. /\ NextEntry /\ rx # <<>> /\ expected' = expected /\ EntryId > expected
      /\ gotReliable' = gotReliable /\ AllocFails
      /\ delivered' = (IF DeliverEarly(msg) THEN Append(delivered, msg) ELSE delivered)
      /\ recvWait' = recvWait
  BY DEF StoreOutOfMemory, NextEntry
<1>2. msg \in Nat  BY <1>1, HeadFacts
<1> HIDE DEF msg
<1>3. DeliveredInv' /\ delivered' \in Seq(Nat)
  <2>1. CASE DeliverEarly(msg)
    <3>1. Unordered /\ delivered' = Append(delivered, msg)  BY <2>1, <1>1 DEF DeliverEarly
    <3>2. delivered' \in Seq(Nat)  BY <3>1, <1>0, <1>2
    <3> QED BY <3>1, <3>2, <1>1 DEF DeliveredInv
  <2>2. CASE ~DeliverEarly(msg)
    <3>1. delivered' = delivered  BY <2>2, <1>1
    <3>2. DeliveredInv'  BY <3>1, <1>0, <1>1, KeepOK
    <3> QED BY <3>1, <3>2, <1>0
  <2> QED BY <2>1, <2>2
<1> QED BY <1>0, <1>1, <1>3, OutOfOrderOK

LEMMA DropOutOfOrderOK ==
    ASSUME IInv, NetworkAssumption, DropOutOfOrder
    PROVE  IInv'
<1>0. expected \in Nat /\ delivered \in Seq(Nat) /\ gotReliable \in BOOLEAN
  BY DEF IInv, TypeOK, ReceiverTypeOK
<1>1. /\ NextEntry /\ expected' = expected /\ EntryId > expected
      /\ gotReliable' = gotReliable /\ recvWait' = recvWait /\ delivered' = delivered
  BY DEF DropOutOfOrder
<1>2. DeliveredInv'  BY <1>0, <1>1, KeepOK
<1> QED BY <1>0, <1>1, <1>2, OutOfOrderOK

LEMMA IgnoreDuplicateOK ==
    ASSUME IInv, NetworkAssumption, IgnoreDuplicate
    PROVE  IInv'
<1>0. /\ expected \in Nat /\ nextSendId \in Nat /\ expected <= nextSendId /\ WaitInv
      /\ ReceiverTypeOK /\ NetTypeOK
  BY DEF IInv, TypeOK, SenderTypeOK, ReceiverTypeOK, WindowInv
<1>1. /\ UNCHANGED senderVars /\ UNCHANGED <<net, acks, expected, recvWait, delivered>>
      /\ nextSendId' = nextSendId /\ NextEntry /\ gotReliable' = TRUE
  BY DEF IgnoreDuplicate, NextEntry, senderVars
<1>2. SenderTypeOK' /\ QueueInv' /\ WindowInv' /\ BurstInv' /\ NetInv' /\ AckedIsReceived'
  BY <1>0, <1>1, ReceiverFrame
<1>3. AckInv'  BY <1>0, <1>1, AckFrame
<1>4. RxInv' /\ rx' \in Seq(Entry) /\ rxId' \in Int  BY <1>0, <1>1, RxTail
<1>5. DeliveredInv'  BY <1>0, <1>1, KeepOK
<1>6. WaitInv'  BY <1>0, <1>1 DEF WaitInv
<1>7. NetTypeOK' /\ ReceiverTypeOK'
  BY <1>0, <1>1, <1>4 DEF NetTypeOK, ReceiverTypeOK
<1> QED BY <1>2, <1>3, <1>4, <1>5, <1>6, <1>7 DEF IInv, TypeOK

LEMMA WriteACKOK ==
    ASSUME IInv, NEW cut, WriteACK(cut)
    PROVE  IInv'
<1> DEFINE told == {i \in DOMAIN recvWait : i < cut}
           ack == [rollup |-> expected, low |-> LowBits(expected, RollupMod),
                   held |-> {i - expected : i \in told}]
<1>0. /\ expected \in Nat /\ nextSendId \in Nat /\ expected <= nextSendId /\ WaitInv
      /\ ReceiverTypeOK /\ NetTypeOK /\ DOMAIN recvWait \subseteq Int /\ AckInv /\ RxInv
      /\ FirstId <= expected
  <2>1. remoteExpected \in Int /\ expected \in Nat /\ WindowInv
    BY DEF IInv, TypeOK, SenderTypeOK, ReceiverTypeOK
  <2>2. FirstId <= expected  BY <2>1 DEF WindowInv
  <2> QED BY <2>1, <2>2 DEF IInv, TypeOK, SenderTypeOK, ReceiverTypeOK, WindowInv
<1>1. /\ UNCHANGED senderVars /\ UNCHANGED <<net, expected, recvWait, rx, rxId, delivered>>
      /\ nextSendId' = nextSendId
      /\ acks' \subseteq acks \union {ack}
      /\ gotReliable' = (told # DOMAIN recvWait)
  BY DEF WriteACK, senderVars, Carried
<1>2. SenderTypeOK' /\ QueueInv' /\ WindowInv' /\ BurstInv' /\ NetInv' /\ AckedIsReceived'
  BY <1>0, <1>1, ReceiverFrame
<1>3. WaitInv' /\ RxInv'
  BY <1>0, <1>1 DEF WaitInv, RxInv
<1>4. DeliveredInv'  BY <1>0, <1>1, KeepOK
<1>5. LowBits(expected, RollupMod) \in Nat
  <2>1. RollupMod \in Nat \ {0}  BY AckIdAssumption
  <2>2. expected % RollupMod \in 0 .. (RollupMod - 1)  BY <2>1, <1>0, DivMod
  <2> QED BY <2>2 DEF LowBits
<1>6. /\ ack.rollup = expected /\ ack.low = LowBits(expected, RollupMod)
      /\ \A o \in ack.held : o \in Int /\ expected + o \in DOMAIN recvWait
      /\ ack.held \subseteq Int
  BY <1>0
<1>7. ack \in [rollup : Nat, low : Nat, held : SUBSET Int]
  BY <1>0, <1>5, <1>6
<1> HIDE DEF ack, told
<1>8. AckInv'
  <2>1. ASSUME NEW a \in acks
        PROVE  /\ FirstId <= a.rollup /\ a.rollup <= expected
               /\ a.low = LowBits(a.rollup, RollupMod)
               /\ \A o \in a.held : a.rollup + o < expected \/ a.rollup + o \in DOMAIN recvWait
    BY <1>0 DEF AckInv, Received
  <2>2. /\ FirstId <= ack.rollup /\ ack.rollup <= expected
        /\ ack.low = LowBits(ack.rollup, RollupMod)
        /\ \A o \in ack.held : ack.rollup + o < expected \/ ack.rollup + o \in DOMAIN recvWait
    BY <1>0, <1>6
  <2> QED BY <1>1, <2>1, <2>2 DEF AckInv, Received
<1>9. NetTypeOK' /\ ReceiverTypeOK'
  <2>1. NetTypeOK'  BY <1>0, <1>1, <1>7 DEF NetTypeOK
  <2>2. gotReliable' \in BOOLEAN  BY <1>1
  <2> QED BY <1>0, <1>1, <2>1, <2>2 DEF ReceiverTypeOK
<1> QED BY <1>2, <1>3, <1>4, <1>8, <1>9 DEF IInv, TypeOK

------------------------------------------------------------------------------
(* The invariant *)

LEMMA InitOK == Init => IInv
<1> SUFFICES ASSUME Init PROVE IInv
  OBVIOUS
<1>1. /\ DOMAIN sentList = {} /\ DOMAIN recvWait = {}
      /\ Len(<<>>) = 0 /\ <<>> \in Seq(Nat) /\ <<>> \in Seq(Entry)
  BY DEF Init
<1>2. TypeOK
  <2>1. SenderTypeOK  BY <1>1 DEF Init, SenderTypeOK
  <2>2. NetTypeOK  BY <1>1 DEF Init, NetTypeOK
  <2>3. gotReliable \in BOOLEAN  BY DEF Init
  <2>4. ReceiverTypeOK  BY <1>1, <2>3 DEF Init, ReceiverTypeOK
  <2> QED BY <2>1, <2>2, <2>4 DEF TypeOK
<1>3. QueueInv /\ WindowInv /\ BurstInv
  <2>0. BurstInv  BY DEF Init, BurstInv
  <2>1. QueueInv  BY <1>1 DEF Init, QueueInv
  <2>2. WindowInv  BY <1>1, SpanFacts DEF Init, WindowInv
  <2> QED BY <2>0, <2>1, <2>2
<1>4. NetInv /\ RxInv
  BY <1>1 DEF Init, NetInv, RxInv, DatagramOK
<1>5. WaitInv /\ AckInv /\ AckedIsReceived
  BY <1>1 DEF Init, WaitInv, AckInv, AckedIsReceived
<1>6. DeliveredInv
  BY <1>1 DEF Init, DeliveredInv, DeliveredOnce
<1> QED BY <1>2, <1>3, <1>4, <1>5, <1>6 DEF IInv

LEMMA NextOK ==
    ASSUME NetworkAssumption, IInv, [Next]_vars
    PROVE  IInv'
<1>1. CASE WriteReliable  BY <1>1, WriteReliableOK
<1>18. CASE WriteUnreliable  BY <1>18, WriteUnreliableOK
<1>2. CASE TickTransport  BY <1>2, TickTransportOK
<1>3. ASSUME NEW id \in walk, Retransmit(id) PROVE IInv'  BY <1>3, RetransmitOK
<1>4. CASE WriteQueuedReliable  BY <1>4, WriteQueuedReliableOK
<1>5. CASE WriteSendQueueNode  BY <1>5, WriteSendQueueNodeOK
<1>6. CASE FlushWrites  BY <1>6, FlushWritesOK
<1>7. CASE EndDatagrams  BY <1>7, EndDatagramsOK
<1>8. ASSUME NEW a \in acks, OnACK(a) PROVE IInv'  BY <1>8, OnACKOK
<1>9. ASSUME NEW d \in net, RecvDatagram(d) PROVE IInv'  BY <1>9, RecvDatagramOK
<1>10. CASE ProcessInOrder  BY <1>10, ProcessInOrderOK
<1>11. CASE RunReliableReceiveQueue  BY <1>11, RunReliableReceiveQueueOK
<1>12. CASE StoreReliableOutOfOrder  BY <1>12, StoreReliableOutOfOrderOK
<1>13. CASE StoreOutOfMemory  BY <1>13, StoreOutOfMemoryOK
<1>14. CASE DropOutOfOrder  BY <1>14, DropOutOfOrderOK
<1>15. CASE IgnoreDuplicate  BY <1>15, IgnoreDuplicateOK
<1>16. ASSUME NEW cut \in Ids, WriteACK(cut) PROVE IInv'  BY <1>16, WriteACKOK
<1>17. CASE UNCHANGED vars
  <2>1. /\ UNCHANGED senderVars /\ UNCHANGED receiverVars /\ UNCHANGED <<net, acks>>
        /\ nextSendId' = nextSendId /\ expected' = expected /\ recvWait' = recvWait
    BY <1>17 DEF vars, senderVars, receiverVars
  <2>2. nextSendId \in Nat /\ expected \in Nat /\ expected <= nextSendId
    BY DEF IInv, TypeOK, SenderTypeOK, ReceiverTypeOK, WindowInv
  <2>3. ReceiverTypeOK' /\ RxInv' /\ WaitInv' /\ AckInv' /\ DeliveredInv'
    BY <2>1, <2>2, SenderFrame
  <2>4. SenderTypeOK' /\ QueueInv' /\ WindowInv' /\ BurstInv' /\ NetInv' /\ AckedIsReceived'
    BY <2>1, <2>2, ReceiverFrame
  <2>5. NetTypeOK'  BY <2>1 DEF IInv, TypeOK, NetTypeOK
  <2> QED BY <2>3, <2>4, <2>5 DEF IInv, TypeOK
<1> QED BY <1>1, <1>2, <1>3, <1>4, <1>5, <1>6, <1>7, <1>8, <1>9, <1>10, <1>11, <1>12,
           <1>13, <1>14, <1>15, <1>16, <1>17, <1>18 DEF Next

\* The inductive invariant holds in every state of the stream, as long as no
\* datagram and no acknowledgement is delayed past the range of its id field.
THEOREM Invariance ==
    ASSUME NetworkAssumption PROVE Spec => []IInv
<1>1. Init => IInv  BY InitOK
<1>2. IInv /\ [Next]_vars => IInv'  BY NextOK
<1> QED BY <1>1, <1>2, PTL DEF Spec

\* Every variable keeps its type, and the retransmission walks of TickTransport
\* and OnACK touch only nodes that are on the sent list.
THEOREM TypeCorrect ==
    ASSUME NetworkAssumption PROVE Spec => []TypeOK
<1>1. IInv => TypeOK  BY DEF IInv
<1> QED BY <1>1, Invariance, PTL

\* An ordered stream hands over the messages in the order of writing, without
\* gap or repetition.
THEOREM OrderedDelivery ==
    ASSUME NetworkAssumption PROVE Spec => []DeliveredInOrder
<1>1. IInv => DeliveredInOrder
  <2> SUFFICES ASSUME IInv, ~Unordered, NEW k \in DOMAIN delivered
               PROVE  delivered[k] = k
    BY DEF DeliveredInOrder
  <2>1. delivered \in Seq(Nat)  BY DEF IInv, TypeOK, ReceiverTypeOK
  <2>2. k \in 1 .. Len(delivered)  BY <2>1
  <2> QED BY <2>2 DEF IInv, DeliveredInv
<1> QED BY <1>1, Invariance, PTL

\* A message is handed over at most once on an ordered stream, and on the
\* unordered one too unless the wait queue runs out of memory.
THEOREM DeliveryOnce ==
    ASSUME NetworkAssumption, ~Unordered \/ ~AllocFails
    PROVE  Spec => []DeliveredOnce
<1>1. IInv => DeliveredOnce
  <2> SUFFICES ASSUME IInv PROVE DeliveredOnce
    OBVIOUS
  <2>1. CASE Unordered  BY <2>1 DEF IInv, DeliveredInv
  <2>2. CASE ~Unordered
    <3>1. DOMAIN delivered = 1 .. Len(delivered)
      BY DEF IInv, TypeOK, ReceiverTypeOK
    <3>2. \A k \in 1 .. Len(delivered) : delivered[k] = k
      BY <2>2 DEF IInv, DeliveredInv
    <3> QED BY <3>1, <3>2 DEF DeliveredOnce
  <2> QED BY <2>1, <2>2
<1> QED BY <1>1, Invariance, PTL

\* A message is released by OnACK only when the receiver has it, whatever
\* acknowledgements are lost, repeated or taken out of order.
THEOREM NothingAckedEarly ==
    ASSUME NetworkAssumption PROVE Spec => []AckedIsReceived
<1>1. IInv => AckedIsReceived  BY DEF IInv
<1> QED BY <1>1, Invariance, PTL

\* The receiver decodes every ACK-ID as the sender assigned it.
THEOREM DecodingExact ==
    ASSUME NetworkAssumption PROVE Spec => []AckIdDecoded
<1>1. IInv => AckIdDecoded  BY EntryIdExact DEF AckIdDecoded
<1> QED BY <1>1, Invariance, PTL

------------------------------------------------------------------------------
(* The window *)

\* What an acknowledgement removes, in terms of its roll-up.
LEMMA OnACKEffect ==
    ASSUME IInv, NetworkAssumption, NEW a, OnACK(a)
    PROVE  /\ a \in acks /\ acks' = acks \ {a} /\ nextSendId' = nextSendId
           /\ DOMAIN sentList # {} /\ remoteExpected' = a.rollup
           /\ DOMAIN sentList' = {i \in DOMAIN sentList : i >= a.rollup /\ i \notin HeldIds(a)}
<1>1. /\ a \in acks /\ acks' = acks \ {a} /\ nextSendId' = nextSendId
      /\ nextSendId - a.rollup <= MaxAckLag
  BY DEF OnACK
<1>2. PICK head \in DOMAIN sentList :
        LET ack_id == ReconstructCounter(RollupMod, head, a.low)
            left == {i \in DOMAIN sentList : i >= ack_id /\ i \notin {ack_id + o : o \in a.held}}
        IN  /\ remoteExpected' = ack_id
            /\ sentList' = [i \in left |-> sentList[i]]
  BY DEF OnACK, Unacknowledged
<1>3. ReconstructCounter(RollupMod, head, a.low) = a.rollup
  BY <1>1, RollupExact
<1> QED BY <1>1, <1>2, <1>3 DEF HeldIds

\* The ids on the sent list, the next one and the roll-ups are numbers, and
\* what an ACK reports was received.
LEMMA AckFacts ==
    ASSUME IInv
    PROVE  /\ nextSendId \in Nat /\ expected \in Nat /\ expected <= nextSendId
           /\ DOMAIN sentList \subseteq Nat /\ DOMAIN recvWait \subseteq Int
           /\ \A i \in DOMAIN sentList : i < nextSendId
           /\ \A i \in DOMAIN recvWait : expected <= i /\ i < nextSendId
           /\ \A a \in acks : /\ a.rollup \in Nat /\ a.rollup <= expected /\ FirstId <= a.rollup
                              /\ HeldIds(a) \subseteq Int
                              /\ \A h \in HeldIds(a) : h < expected \/ h \in DOMAIN recvWait
                              /\ \A h \in HeldIds(a) : h < nextSendId
<1>1. /\ nextSendId \in Nat /\ expected \in Nat /\ expected <= nextSendId
      /\ DOMAIN sentList \subseteq Nat /\ DOMAIN recvWait \subseteq Int
      /\ \A i \in DOMAIN sentList : i < nextSendId
      /\ \A i \in DOMAIN recvWait : expected <= i /\ i < nextSendId
  BY DEF IInv, TypeOK, SenderTypeOK, ReceiverTypeOK, WindowInv, WaitInv
<1>2. ASSUME NEW a \in acks
      PROVE  /\ a.rollup \in Nat /\ a.rollup <= expected /\ FirstId <= a.rollup
             /\ HeldIds(a) \subseteq Int
             /\ \A h \in HeldIds(a) : h < expected \/ h \in DOMAIN recvWait
  <2>1. a.rollup \in Nat /\ a.held \subseteq Int
    BY DEF IInv, TypeOK, NetTypeOK
  <2> QED BY <2>1 DEF IInv, AckInv, HeldIds, Received
<1>3. ASSUME NEW a \in acks, NEW h \in HeldIds(a) PROVE h < nextSendId
  BY <1>1, <1>2
<1> QED BY <1>1, <1>2, <1>3

\* An ACK takes nodes off the sent list: either the head stays, or the roll-up
\* is the new head.
LEMMA OnACKKeepsOrder ==
    ASSUME IInv, AckOrder, NetworkAssumption, NEW a, OnACK(a)
    PROVE  AckOrder' /\ WindowReopens'
<1>1. /\ a \in acks /\ acks' = acks \ {a} /\ nextSendId' = nextSendId
      /\ DOMAIN sentList # {} /\ remoteExpected' = a.rollup
      /\ DOMAIN sentList' = {i \in DOMAIN sentList : i >= a.rollup /\ i \notin HeldIds(a)}
  BY OnACKEffect
<1>2. PICK head \in DOMAIN sentList : \A i \in DOMAIN sentList : head <= i
  BY DEF OnACK
<1>3. /\ head \in Nat /\ head < nextSendId /\ nextSendId \in Nat /\ a.rollup \in Nat
      /\ DOMAIN sentList \subseteq Nat /\ a.rollup <= nextSendId
      /\ \A i \in DOMAIN sentList : i < nextSendId
      /\ \A b \in acks : b.rollup \in Nat /\ HeldIds(b) \subseteq Int
  BY <1>1, AckFacts
<1>4. head \notin HeldIds(a) /\ a.rollup \notin HeldIds(a)
  BY <1>1, <1>2 DEF AckOrder, IsHead
<1>5. CASE a.rollup <= head
  <2>1. head \in DOMAIN sentList' /\ \A h \in Int : IsHead(h)' => h = head
    BY <1>1, <1>2, <1>3, <1>4, <1>5 DEF IsHead
  <2>2. \A b \in acks' : \A h \in HeldIds(b) : ~IsHead(h)'
    BY <1>1, <1>2, <1>3, <2>1 DEF AckOrder, IsHead
  <2>3. \A b \in acks' : \/ b.rollup \in DOMAIN sentList' \union {nextSendId'}
                         \/ \A i \in DOMAIN sentList' : b.rollup < i
    <3> SUFFICES ASSUME NEW b \in acks', b.rollup \in DOMAIN sentList,
                        b.rollup \notin DOMAIN sentList'
                 PROVE  \A i \in DOMAIN sentList' : b.rollup < i
      BY <1>1 DEF AckOrder
    <3>1. b.rollup < a.rollup
      BY <1>1, <1>3 DEF AckOrder
    <3> QED BY <1>1, <1>3, <3>1
  <2> QED BY <1>1, <2>1, <2>2, <2>3 DEF AckOrder, HeldIds, WindowReopens
<1>6. CASE a.rollup > head
  <2>1. a.rollup \in DOMAIN sentList \union {nextSendId}
    BY <1>1, <1>3, <1>6 DEF AckOrder
  <2>2. a.rollup \in DOMAIN sentList' \union {nextSendId'}
    BY <1>1, <1>3, <1>4, <2>1
  <2>3. \A i \in DOMAIN sentList' : a.rollup <= i
    BY <1>1, <1>3
  <2>4. \A h \in Int : IsHead(h)' => h = a.rollup
    BY <1>1, <1>3, <2>2, <2>3 DEF IsHead
  <2>5. \A b \in acks' : \A h \in HeldIds(b) : ~IsHead(h)'
    BY <1>1, <1>3, <2>4 DEF AckOrder
  <2>6. \A b \in acks' : \/ b.rollup \in DOMAIN sentList' \union {nextSendId'}
                         \/ \A i \in DOMAIN sentList' : b.rollup < i
    <3> SUFFICES ASSUME NEW b \in acks', b.rollup \in DOMAIN sentList,
                        b.rollup \notin DOMAIN sentList'
                 PROVE  \A i \in DOMAIN sentList' : b.rollup < i
      BY <1>1 DEF AckOrder
    <3>1. b.rollup < a.rollup
      BY <1>1, <1>3 DEF AckOrder
    <3> QED BY <1>1, <1>3, <3>1
  <2>7. WindowReopens'
    BY <1>1, <2>2 DEF WindowReopens
  <2> QED BY <1>1, <2>5, <2>6, <2>7 DEF AckOrder, HeldIds
<1> QED BY <1>3, <1>5, <1>6

\* The next id goes to the end of the sent list.
LEMMA IssueKeepsOrder ==
    ASSUME IInv, AckOrder, WriteSendQueueNode
    PROVE  AckOrder' /\ WindowReopens'
<1>1. /\ DOMAIN sentList' = DOMAIN sentList \union {nextSendId}
      /\ nextSendId' = nextSendId + 1 /\ acks' = acks
  BY DEF WriteSendQueueNode
<1>2. /\ nextSendId \in Nat /\ DOMAIN sentList \subseteq Nat
      /\ \A i \in DOMAIN sentList : i < nextSendId
      /\ \A b \in acks : b.rollup \in Nat /\ b.rollup <= nextSendId /\ HeldIds(b) \subseteq Int
      /\ \A b \in acks : \A h \in HeldIds(b) : h < nextSendId
  BY AckFacts
<1>3. \A h \in Int : IsHead(h)' => IsHead(h)
  BY <1>1, <1>2 DEF IsHead
<1>4. \A b \in acks : \A h \in HeldIds(b) : ~IsHead(h)'
  BY <1>2, <1>3 DEF AckOrder
<1>5. \A b \in acks : \/ b.rollup \in DOMAIN sentList' \union {nextSendId'}
                      \/ \A i \in DOMAIN sentList' : b.rollup < i
  BY <1>1, <1>2 DEF AckOrder
<1> QED BY <1>1, <1>4, <1>5 DEF AckOrder, HeldIds, WindowReopens

\* The roll-up of a new ACK is missing, so nothing reports it, and it is on the
\* sent list or was not issued yet.
LEMMA WriteACKKeepsOrder ==
    ASSUME IInv, AckOrder, NEW cut, WriteACK(cut)
    PROVE  AckOrder'
<1> DEFINE told == {i \in DOMAIN recvWait : i < cut}
           new == [rollup |-> expected, low |-> LowBits(expected, RollupMod),
                   held |-> {i - expected : i \in told}]
<1>1. /\ acks' \subseteq acks \union {new} /\ expected \notin DOMAIN recvWait
      /\ UNCHANGED <<sentList, nextSendId>>
  BY DEF WriteACK, Carried, Idle, QueueReady, senderVars
<1>2. /\ nextSendId \in Nat /\ expected \in Nat /\ expected <= nextSendId
      /\ DOMAIN sentList \subseteq Nat /\ DOMAIN recvWait \subseteq Int
      /\ \A i \in DOMAIN sentList : i < nextSendId
      /\ \A i \in DOMAIN recvWait : expected <= i /\ i < nextSendId
      /\ \A a \in acks : /\ a.rollup \in Nat /\ a.rollup <= expected
                         /\ HeldIds(a) \subseteq Int
                         /\ \A h \in HeldIds(a) : h < expected \/ h \in DOMAIN recvWait
  BY AckFacts
<1>3. new.rollup = expected /\ HeldIds(new) = told
  <2>1. \A i \in told : expected + (i - expected) = i
    BY <1>2
  <2> QED BY <2>1 DEF HeldIds
<1>4. \A h \in told : h > expected /\ h \in DOMAIN recvWait
  BY <1>1, <1>2
<1>5. expected \in DOMAIN sentList \union {nextSendId}
  <2>1. FirstId <= expected
    BY <1>2 DEF IInv, WindowInv, TypeOK, SenderTypeOK
  <2> QED BY <1>1, <1>2, <2>1 DEF IInv, AckedIsReceived
<1> HIDE DEF new, told
<1>6. \A a \in acks : expected \notin HeldIds(a) /\ a.rollup \notin told
  BY <1>1, <1>2, <1>4
<1>7. \A a, b \in acks' : b.rollup \notin HeldIds(a)
  BY <1>1, <1>2, <1>3, <1>4, <1>6 DEF AckOrder
<1>8. \A h \in told : ~IsHead(h)
  BY <1>2, <1>4, <1>5 DEF IsHead
<1>9. \A a \in acks' : \/ a.rollup \in DOMAIN sentList \union {nextSendId}
                       \/ \A i \in DOMAIN sentList : a.rollup < i
  BY <1>1, <1>3, <1>5 DEF AckOrder
<1>10. \A a \in acks' : \A h \in HeldIds(a) : ~IsHead(h)
  BY <1>1, <1>3, <1>8 DEF AckOrder
<1> QED BY <1>1, <1>7, <1>9, <1>10 DEF AckOrder, HeldIds, IsHead

\* With one id for each window check, what waits lies strictly between the id
\* that is missing and the end of the window.
LEMMA StoreKeepsRoom ==
    ASSUME IInv, NetworkAssumption, StoreReliableOutOfOrder
    PROVE  WaitQueueHasRoom'
<1> SUFFICES ASSUME MaxFrags = 1 PROVE Cardinality(DOMAIN recvWait') < Window
  BY DEF WaitQueueHasRoom
<1>1. /\ rx # <<>> /\ expected \notin DOMAIN recvWait /\ EntryId > expected
      /\ DOMAIN recvWait' = DOMAIN recvWait \union {EntryId}
  BY DEF StoreReliableOutOfOrder, NextEntry, QueueReady
<1>2. /\ nextSendId \in Nat /\ expected \in Nat /\ DOMAIN recvWait \subseteq Int
      /\ \A i \in DOMAIN recvWait : expected <= i /\ i < nextSendId
  BY AckFacts
<1>3. EntryId \in Nat /\ EntryId < nextSendId
  BY <1>1, HeadFacts
<1>4. nextSendId <= expected + Window
  BY <1>2, SpanFacts DEF IInv, WindowInv
<1> DEFINE lo == expected + 1
           hi == (expected + Window) - 1
<1>5. lo \in Int /\ hi \in Int /\ Window \in Nat \ {0} /\ (hi - lo) + 1 = Window - 1
      /\ (lo > hi => Window - 1 = 0)
  BY <1>2, SpanFacts
<1>6. DOMAIN recvWait' \in SUBSET (lo .. hi)
  BY <1>1, <1>2, <1>3, <1>4, SpanFacts
<1> HIDE DEF lo, hi
<1>7. IsFiniteSet(lo .. hi) /\ Cardinality(lo .. hi) = Window - 1
  BY <1>5, FS_Interval
<1>8. IsFiniteSet(DOMAIN recvWait') /\ Cardinality(DOMAIN recvWait') <= Window - 1
  BY <1>6, <1>7, FS_Subset
<1>9. Cardinality(DOMAIN recvWait') \in Nat
  BY <1>8, FS_CardinalityType
<1> QED BY <1>5, <1>8, <1>9

\* Running the queue takes a node from it.
LEMMA RunKeepsRoom ==
    ASSUME IInv, WaitQueueHasRoom, RunReliableReceiveQueue
    PROVE  WaitQueueHasRoom'
<1>1. DOMAIN recvWait' = DOMAIN recvWait \ {expected}
  BY DEF RunReliableReceiveQueue
<1>2. /\ nextSendId \in Nat /\ expected \in Nat /\ DOMAIN recvWait \subseteq Int
      /\ \A i \in DOMAIN recvWait : expected <= i /\ i < nextSendId
  BY AckFacts
<1>3. DOMAIN recvWait \in SUBSET (expected .. (nextSendId - 1))
  BY <1>2
<1>4. IsFiniteSet(DOMAIN recvWait)
  <2>1. expected \in Int /\ nextSendId - 1 \in Int
    BY <1>2
  <2> QED BY <1>3, <2>1, FS_Interval, FS_Subset
<1>5. /\ Cardinality(DOMAIN recvWait) \in Nat
      /\ Cardinality(DOMAIN recvWait') \in {Cardinality(DOMAIN recvWait) - 1, Cardinality(DOMAIN recvWait)}
  BY <1>1, <1>4, FS_RemoveElement, FS_CardinalityType
<1> QED BY <1>5, SpanFacts DEF WaitQueueHasRoom

\* Neither end runs out of room: while every message takes one id the receiver's
\* wait queue stays below OUT_OF_ORDER_LIMIT, and a sender with nothing left to
\* be acknowledged knows how far the receiver has got, whatever ACKs are lost,
\* cut short or overtaken (OnACK, WriteACK).
THEOREM WindowSafe ==
    ASSUME NetworkAssumption PROVE Spec => []WindowKept
<1> DEFINE Inv == AckOrder /\ WindowKept
<1>1. Init => Inv
  <2> SUFFICES ASSUME Init PROVE Inv
    OBVIOUS
  <2>1. AckOrder /\ WindowReopens
    BY DEF Init, AckOrder, WindowReopens
  <2>2. DOMAIN recvWait = {}
    BY DEF Init
  <2>3. WaitQueueHasRoom
    BY <2>2, FS_EmptySet, SpanFacts DEF WaitQueueHasRoom
  <2> QED BY <2>1, <2>3 DEF WindowKept
<1>2. IInv /\ Inv /\ [Next]_vars => Inv'
  <2> SUFFICES ASSUME IInv, AckOrder, WaitQueueHasRoom, WindowReopens, [Next]_vars
               PROVE  AckOrder' /\ WaitQueueHasRoom' /\ WindowReopens'
    BY DEF WindowKept
  <2>1. UNCHANGED <<sentList, nextSendId, remoteExpected, acks>> => AckOrder' /\ WindowReopens'
    BY DEF AckOrder, IsHead, HeldIds, WindowReopens
  <2>2. UNCHANGED recvWait => WaitQueueHasRoom'
    BY DEF WaitQueueHasRoom
  <2>3. CASE UNCHANGED vars
    BY <2>1, <2>2, <2>3 DEF vars, senderVars, receiverVars
  <2>4. CASE \/ WriteReliable \/ WriteUnreliable \/ TickTransport \/ WriteQueuedReliable
             \/ FlushWrites \/ EndDatagrams \/ (\E id \in walk : Retransmit(id))
    BY <2>1, <2>2, <2>4 DEF WriteReliable, WriteUnreliable, TickTransport,
       WriteQueuedReliable, FlushWrites, EndDatagrams, Retransmit, receiverVars
  <2>5. CASE \/ ProcessInOrder \/ StoreOutOfMemory \/ DropOutOfOrder \/ IgnoreDuplicate
             \/ (\E d \in net : RecvDatagram(d))
    BY <2>1, <2>2, <2>5 DEF ProcessInOrder, StoreOutOfMemory, DropOutOfOrder,
       IgnoreDuplicate, RecvDatagram, NextEntry, senderVars
  <2>6. CASE WriteSendQueueNode
    BY <2>2, <2>6, IssueKeepsOrder DEF WriteSendQueueNode, receiverVars
  <2>7. ASSUME NEW a \in acks, OnACK(a) PROVE AckOrder' /\ WaitQueueHasRoom' /\ WindowReopens'
    BY <2>2, <2>7, OnACKKeepsOrder DEF OnACK, receiverVars
  <2>8. CASE RunReliableReceiveQueue
    BY <2>1, <2>8, RunKeepsRoom DEF RunReliableReceiveQueue, senderVars
  <2>9. CASE StoreReliableOutOfOrder
    BY <2>1, <2>9, StoreKeepsRoom DEF StoreReliableOutOfOrder, NextEntry, senderVars
  <2>10. ASSUME NEW cut \in Ids, WriteACK(cut)
         PROVE  AckOrder' /\ WaitQueueHasRoom' /\ WindowReopens'
    <3>1. WindowReopens'
      BY <2>10 DEF WriteACK, senderVars, WindowReopens
    <3> QED BY <2>2, <2>10, <3>1, WriteACKKeepsOrder DEF WriteACK
  <2> QED BY <2>3, <2>4, <2>5, <2>6, <2>7, <2>8, <2>9, <2>10 DEF Next
<1>3. Inv => WindowKept
  OBVIOUS
<1> QED BY <1>1, <1>2, <1>3, Invariance, PTL DEF Spec

------------------------------------------------------------------------------
(* The channel *)

\* A step that hands over a message appends one that was written and has its
\* place in the order of its id.
LEMMA HandOver ==
    ASSUME IInv, NetworkAssumption, Next, delivered' # delivered
    PROVE  /\ written' = written
           /\ \E id \in Nat : /\ FirstId <= id /\ id < nextSendId
                              /\ delivered' = Append(delivered, MsgOf(id))
<1>1. /\ nextSendId \in Nat /\ expected \in Nat
      /\ \A i \in DOMAIN recvWait : expected <= i /\ i < nextSendId
  BY AckFacts
<1>2. CASE RunReliableReceiveQueue
  <2>1. /\ expected \in DOMAIN recvWait /\ recvWait[expected] # NoData
        /\ delivered' = Append(delivered, recvWait[expected]) /\ written' = written
    BY <1>2 DEF RunReliableReceiveQueue, QueueReady, senderVars
  <2>2. recvWait[expected] = MsgOf(expected) /\ expected < nextSendId /\ FirstId <= expected
    <3>1. FirstId <= expected
      BY <1>1 DEF IInv, WindowInv, TypeOK, SenderTypeOK
    <3> QED BY <1>1, <2>1, <3>1 DEF IInv, WaitInv
  <2> QED BY <1>1, <2>1, <2>2
<1>3. CASE ProcessInOrder \/ StoreReliableOutOfOrder \/ StoreOutOfMemory
  <2>1. rx # <<>> /\ delivered' = Append(delivered, Head(rx).msg) /\ written' = written
    BY <1>3 DEF ProcessInOrder, StoreReliableOutOfOrder, StoreOutOfMemory, NextEntry,
                senderVars
  <2> QED BY <2>1, HeadFacts
<1>4. ~\/ WriteReliable \/ WriteUnreliable \/ TickTransport \/ WriteQueuedReliable
       \/ FlushWrites \/ EndDatagrams \/ WriteSendQueueNode
       \/ (\E id \in walk : Retransmit(id)) \/ (\E a \in acks : OnACK(a))
  BY DEF WriteReliable, WriteUnreliable, TickTransport, WriteQueuedReliable, FlushWrites,
         EndDatagrams, WriteSendQueueNode, Retransmit, OnACK, receiverVars
<1>5. ~\/ DropOutOfOrder \/ IgnoreDuplicate \/ (\E d \in net : RecvDatagram(d))
       \/ (\E cut \in Ids : WriteACK(cut))
  BY DEF DropOutOfOrder, IgnoreDuplicate, RecvDatagram, WriteACK
<1> QED BY <1>2, <1>3, <1>4, <1>5 DEF Next

\* A stream, seen by the application on both ends, is the channel it is promised:
\* every step of the transport writes, hands over the right message once, or
\* changes nothing the application sees (Transport.hpp).
THEOREM StreamImplementsChannel ==
    ASSUME NetworkAssumption, ~Unordered \/ ~AllocFails
    PROVE  Spec => ImplementsChannel
<1>1. Init => Channel!Init
  BY DEF Init, Channel!Init
<1>2. IInv /\ IInv' /\ [Next]_vars => [Channel!Next]_<<written, delivered>>
  <2> SUFFICES ASSUME IInv, IInv', [Next]_vars,
                      ~UNCHANGED <<written, delivered>>
               PROVE  Channel!Next
    OBVIOUS
  <2>1. Next
    BY DEF vars, senderVars, receiverVars
  <2>2. CASE delivered' = delivered
    <3>1. WriteReliable
      BY <2>1, <2>2 DEF Next, WriteUnreliable, TickTransport, WriteQueuedReliable, FlushWrites,
         EndDatagrams, WriteSendQueueNode, Retransmit, OnACK, RecvDatagram, ProcessInOrder,
         StoreReliableOutOfOrder, StoreOutOfMemory, DropOutOfOrder, IgnoreDuplicate,
         WriteACK, RunReliableReceiveQueue, NextEntry, senderVars
    <3> QED BY <3>1, <2>2 DEF WriteReliable, Channel!Next, Channel!Write
  <2>3. CASE delivered' # delivered
    <3>1. PICK id \in Nat : /\ FirstId <= id /\ id < nextSendId /\ written' = written
                            /\ delivered' = Append(delivered, MsgOf(id))
      BY <2>1, <2>3, HandOver
    <3> DEFINE m == MsgOf(id)
               n == Len(delivered)
    <3>2. /\ nextSendId \in Nat /\ delivered \in Seq(Nat) /\ written \in Nat
          /\ Len(sendingQueue) \in Nat /\ Len(sendQueue) \in Nat
          /\ written = (nextSendId - FirstId) + Len(sendingQueue) + Len(sendQueue)
      <4>1. /\ nextSendId \in Nat /\ delivered \in Seq(Nat) /\ written \in Nat
            /\ sendingQueue \in Seq(Nat) /\ sendQueue \in Seq(Nat)
        BY DEF IInv, TypeOK, SenderTypeOK, ReceiverTypeOK
      <4> QED BY <4>1 DEF IInv, QueueInv
    <3>3. m \in 1 .. written
      BY <3>1, <3>2 DEF MsgOf
    <3>4. /\ n \in Nat /\ Len(delivered') = n + 1 /\ delivered'[n + 1] = m
          /\ DOMAIN delivered = 1 .. n /\ DOMAIN delivered' = 1 .. (n + 1)
          /\ \A k \in 1 .. n : delivered'[k] = delivered[k]
      <4>1. m \in Nat /\ delivered' = Append(delivered, m)
        BY <3>1, <3>2, <3>3
      <4> HIDE DEF m
      <4> QED BY <3>2, <4>1
    <3> HIDE DEF m, n
    <3>5. \A k \in DOMAIN delivered : delivered[k] # m
      <4>1. DeliveredOnce'
        <5>1. CASE Unordered
          BY <5>1 DEF IInv, DeliveredInv
        <5>2. CASE ~Unordered
          <6>1. \A k \in 1 .. Len(delivered') : delivered'[k] = k
            BY <5>2 DEF IInv, DeliveredInv
          <6> QED BY <3>4, <6>1 DEF DeliveredOnce
        <5> QED BY <5>1, <5>2
      <4>2. \A j, k \in 1 .. (n + 1) : delivered'[j] = delivered'[k] => j = k
        BY <3>4, <4>1 DEF DeliveredOnce
      <4> QED BY <3>4, <4>2
    <3>6. ~Unordered => m = n + 1
      BY <3>4 DEF IInv, DeliveredInv
    <3>7. delivered' = Append(delivered, m) /\ written' = written
      BY <3>1 DEF m
    <3>8. Channel!Deliver
      BY <3>3, <3>5, <3>6, <3>7 DEF Channel!Deliver, n
    <3> QED BY <3>8 DEF Channel!Next
  <2> QED BY <2>2, <2>3
<1> QED BY <1>1, <1>2, Invariance, PTL DEF Spec, ImplementsChannel, Channel!Spec
==============================================================================
