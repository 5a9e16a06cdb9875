---------------------------- MODULE ReliableStream ----------------------------
(***************************************************************************)
(* One reliable stream of cat::sphynx::Transport, in one direction: the    *)
(* sending half of one endpoint, the datagram network and the receiving    *)
(* half of the other (Transport.cpp, Transport.hpp).                       *)
(*                                                                         *)
(* A message is the number it was written under: the application writes    *)
(* 1, 2, 3 ...  A message too long for a datagram takes several numbers,   *)
(* one for each fragment.  A datagram is the sequence of reliable messages *)
(* clustered in it; what an entry has on the wire is                       *)
(*    m    the range of its ACK-ID field, 0 when the field is left out     *)
(*         (I=0: "ACK-ID is one higher than the last"),                    *)
(*    low  the low bits of the ACK-ID,                                     *)
(*    msg  the payload.                                                    *)
(* Two ghost fields say what no receiver sees: id is the full ACK-ID and   *)
(* stamp the number of ids the sender had issued when it wrote the entry.  *)
(*                                                                         *)
(* TickTransport() and OnTransportDatagrams() of an endpoint run on one    *)
(* worker thread.  Their loops are modelled one iteration a step, and the  *)
(* thread's position (phase, walk, rx) keeps it from taking up other work  *)
(* before the handler is done.  The endpoints share nothing but the        *)
(* network, so one starts a handler only when the other is between two of  *)
(* its own; WriteReliable(), which any thread may call, runs at any time.  *)
(***************************************************************************)
EXTENDS BitMath, Sequences, FiniteSets

(* ACK-IDs on the wire.  Every reliable message of a stream carries a counter,
   of which the sender puts only the low bits on the wire, 5, 12 or 20 of them;
   the receiver rebuilds it as the value with those low bits that lies nearest
   to the id it expects next.  The roll-up field of an acknowledgement is cut
   to 21 bits the same way.  The code has Thresh1 = 16, Thresh2 = 2048,
   LongMod = 2^20 and RollupMod = 2^21. *)
CONSTANTS Thresh1,    \* ACK_ID_1_THRESH: half the range of a 1-byte ACK-ID
          Thresh2,    \* ACK_ID_2_THRESH: half the range of a 2-byte ACK-ID
          LongMod,    \* range of the 3-byte ACK-ID
          RollupMod   \* range of the ROLLUP field of an ACK

ASSUME AckIdAssumption ==
    /\ Thresh1 \in Nat \ {0}
    /\ Thresh2 \in Nat /\ Thresh1 < Thresh2
    /\ LongMod \in Nat /\ 2 * Thresh2 < LongMod /\ LongMod % 2 = 0
    /\ RollupMod \in Nat \ {0} /\ RollupMod % 2 = 0

CONSTANTS Unordered,   \* TRUE: stream 0 (STREAM_UNORDERED), FALSE: ordered stream
          FragMsgs,    \* the numbers that are fragments (SOP_FRAG)
          Continues,   \* those of them that continue the one before
          MaxFrags,    \* how many fragments a message is cut into
          FirstId,     \* initial ACK-ID, derived from the session key
          Window,      \* OUT_OF_ORDER_LIMIT
          Loops,       \* OUT_OF_ORDER_LOOPS
          Capacity,    \* reliable messages that fit in one datagram
          MaxWrites,   \* bound: messages the application writes
          MaxLag,      \* network: how many newer ids may overtake a datagram
          MaxAckLag,   \* network: how many ids a delayed ACK may be behind
          MaxInFlight, \* network: datagrams in flight
          MaxAcks,     \* network: acknowledgements in flight
          AllocFails   \* TRUE: AcquireTrailing<RecvQueue>() may return null

ASSUME StreamAssumption ==
    /\ Unordered \in BOOLEAN /\ AllocFails \in BOOLEAN
    /\ FirstId \in Nat
    /\ Continues \subseteq FragMsgs /\ MaxFrags \in Nat \ {0}
    /\ Window \in Nat \ {0} /\ Loops \in Nat \ {0} /\ Capacity \in Nat \ {0}
    /\ MaxWrites \in Nat /\ MaxLag \in Nat /\ MaxAckLag \in Nat
    /\ MaxInFlight \in Nat /\ MaxAcks \in Nat

\* Mutant: the whole range of the short field is used instead of half of it.
GetACKIDOverheadWide(id, remote_expected) ==
    CASE id - remote_expected < 2 * Thresh1 -> 1
      [] /\ id - remote_expected >= 2 * Thresh1
         /\ id - remote_expected < 2 * Thresh2 -> 2
      [] OTHER -> 3

\* Bytes of ACK-ID that id needs when the receiver is known to have reached
\* remote_expected.
GetACKIDOverhead(id, remote_expected) ==
    CASE id - remote_expected < Thresh1 -> 1
      [] /\ id - remote_expected >= Thresh1
         /\ id - remote_expected < Thresh2 -> 2
      [] OTHER -> 3

\* How many counter values an ACK-ID field of that many bytes tells apart.
CounterRange(bytes) ==
    CASE bytes = 1 -> 2 * Thresh1
      [] bytes = 2 -> 2 * Thresh2
      [] OTHER -> LongMod

VARIABLES
    \* Sender
    written,         \* messages accepted by WriteReliable so far
    sendQueue,       \* _send_queue: written, waiting for the worker thread
    sendingQueue,    \* _sending_queue: stolen by the worker, no ACK-ID yet
    sentList,        \* _sent_list: ACK-ID -> message, waiting for acknowledgement
    nextSendId,      \* _next_send_id
    remoteExpected,  \* _send_next_remote_expected
    cluster,         \* _send_cluster: the datagram being filled
    outgoing,        \* _outgoing_datagrams: full datagrams not yet sent
    phase,           \* what the worker is in: "idle", "lost", "flush" or "nack"
    burst,           \* ids issued since WriteSendQueueNode checked the window
    walk,            \* ids the retransmission loop has still to look at
    \* Network
    net,             \* datagrams in flight
    acks,            \* acknowledgements in flight
    \* Receiver
    expected,        \* _next_recv_expected_id
    recvWait,        \* _recv_wait: ACK-ID -> stored message (NoData: 0 bytes)
    gotReliable,     \* _got_reliable: an acknowledgement is due
    rx,              \* entries of the current datagram still to process
    rxId,            \* ack_id of the entry processed last
    delivered        \* history: messages passed to OnMessages, in order

senderVars   == <<written, sendQueue, sendingQueue, sentList, nextSendId,
                  remoteExpected, cluster, outgoing, phase, burst, walk>>
receiverVars == <<expected, recvWait, gotReliable, rx, rxId, delivered>>
vars         == <<senderVars, net, acks, receiverVars>>

NoData == 0
MsgOf(id) == id - FirstId + 1            \* the message that got this ACK-ID
Ids == FirstId .. (FirstId + MaxWrites)

Entry == [m : Nat, low : Nat, msg : Nat, id : Nat, stamp : Nat]

\* RunReliableReceiveQueue has not finished: the head of the wait queue is due.
QueueReady == expected \in DOMAIN recvWait

\* Neither worker thread is inside a handler.
Idle == phase = "idle" /\ rx = <<>> /\ ~QueueReady

------------------------------------------------------------------------------
(***************************************************************************)
(* Sender                                                                  *)
(***************************************************************************)

\* The ACK-ID is left out when it follows the previous one in the cluster.
Follows(c, id) == c # <<>> /\ c[Len(c)].id + 1 = id

\* One message header and its ACK-ID, as ClusterReliableAppend writes them.
MakeEntry(c, id, range, msg, stamp) ==
    LET m == IF Follows(c, id) THEN 0 ELSE range
    IN  [m |-> m, low |-> IF m = 0 THEN 0 ELSE LowBits(id, m),
         msg |-> msg, id |-> id, stamp |-> stamp]

\* Append a message to the cluster; a full cluster is first queued as a
\* datagram (QueueWriteDatagram) and a new one started.
ClusterReliableAppend(id, range, msg, stamp) ==
    IF Len(cluster) >= Capacity
    THEN /\ outgoing' = outgoing \union {cluster}
         /\ cluster' = <<MakeEntry(<<>>, id, range, msg, stamp)>>
    ELSE /\ cluster' = Append(cluster, MakeEntry(cluster, id, range, msg, stamp))
         /\ UNCHANGED outgoing

\* The application writes a message; any thread, under _send_queue_lock.  It
\* takes the numbers up to n, more than one if it will be fragmented.
WriteReliable ==
    \E n \in (written + 1) .. MaxWrites :
        /\ \A k \in (written + 2) .. n : k \in Continues
        /\ n + 1 \notin Continues
        /\ written' = n
        /\ sendQueue' = sendQueue \o [k \in 1 .. (n - written) |-> written + k]
        /\ UNCHANGED <<sendingQueue, sentList, nextSendId, remoteExpected, cluster,
                       outgoing, phase, burst, walk, net, acks, receiverVars>>

\* Any thread: an unreliable message that does not fit pushes the cluster out.
\* FlushWrites holds _send_cluster_lock while it writes queued messages.
WriteUnreliable ==
    /\ phase # "flush"
    /\ cluster # <<>>
    /\ outgoing' = outgoing \union {cluster}
    /\ cluster' = <<>>
    /\ UNCHANGED <<written, sendQueue, sendingQueue, sentList, nextSendId,
                   remoteExpected, phase, burst, walk, net, acks, receiverVars>>

\* The nodes RetransmitLost may look at: it starts at the head of the sent list
\* and stops at a node that is too young.
RetransmitLost == DOMAIN sentList

\* TickTransport: the retransmission walk starts at the head of the sent list.
TickTransport ==
    /\ Idle
    /\ phase' = "lost"
    /\ walk' = RetransmitLost
    /\ UNCHANGED <<written, sendQueue, sendingQueue, sentList, nextSendId,
                   remoteExpected, cluster, outgoing, burst, net, acks,
                   receiverVars>>

\* Retransmit one node whose timer ran out.  The ACK-ID is written in full.
Retransmit(id) ==
    /\ phase \in {"lost", "nack"}
    /\ id \in walk
    /\ ClusterReliableAppend(id, LongMod, sentList[id], nextSendId)
    /\ walk' = {i \in walk : i > id}
    /\ UNCHANGED <<written, sendQueue, sendingQueue, sentList, nextSendId,
                   remoteExpected, phase, burst, net, acks, receiverVars>>

\* FlushWrites, first half: there is room in the channel, so the worker
\* steals the send queue.  It is reached at the end of the tick, and at the
\* end of OnTransportDatagrams when FlushAfter() was called.
WriteQueuedReliable ==
    /\ phase \in {"lost", "nack"}
    /\ sendQueue # <<>> \/ sendingQueue # <<>>
    /\ phase' = "flush"
    /\ walk' = {}
    /\ sendingQueue' = sendingQueue \o sendQueue
    /\ sendQueue' = <<>>
    /\ UNCHANGED <<written, sentList, nextSendId, remoteExpected, cluster,
                   outgoing, burst, net, acks, receiverVars>>

\* Mutant: the window check is missing.
WindowOpenAlways == TRUE

\* The receiver is known to have room for the next id.
WindowOpen == nextSendId - remoteExpected < Window

\* Give the head of the sending queue its ACK-ID and put it in the cluster
\* and on the sent list, unless it is too far ahead of the receiver.  The loop
\* over the fragments of one message looks at the window only once.
WriteSendQueueNode ==
    /\ phase = "flush"
    /\ sendingQueue # <<>>
    /\ \/ WindowOpen /\ burst' = 1
       \/ /\ Head(sendingQueue) \in Continues
          /\ 0 < burst /\ burst < MaxFrags
          /\ burst' = burst + 1
    /\ LET msg == Head(sendingQueue)
       IN  /\ ClusterReliableAppend(nextSendId,
                 CounterRange(GetACKIDOverhead(nextSendId, remoteExpected)),
                 msg, nextSendId + 1)
           /\ sentList' = [i \in DOMAIN sentList \union {nextSendId} |->
                             IF i = nextSendId THEN msg ELSE sentList[i]]
    /\ sendingQueue' = Tail(sendingQueue)
    /\ nextSendId' = nextSendId + 1
    /\ UNCHANGED <<written, sendQueue, remoteExpected, phase, walk,
                   net, acks, receiverVars>>

\* Everything FlushWrites hands to WriteDatagrams.
Outgoing == outgoing \union (IF cluster = <<>> THEN {} ELSE {cluster})

\* The network loses what it likes and has room for n (external).
Carried(S, n) == {T \in SUBSET S : Cardinality(T) <= n}

\* FlushWrites, second half: the cluster and the queued datagrams go out.
\* From "lost" or "nack" there was nothing to send or no room in the channel.
FlushWrites ==
    /\ phase \in {"lost", "flush", "nack"}
    /\ phase' = "idle"
    /\ burst' = 0
    /\ walk' = {}
    /\ net' \in Carried(net \union Outgoing, MaxInFlight)
    /\ cluster' = <<>>
    /\ outgoing' = {}
    /\ UNCHANGED <<written, sendQueue, sendingQueue, sentList, nextSendId,
                   remoteExpected, acks, receiverVars>>

\* OnTransportDatagrams ends with no flush requested.
EndDatagrams ==
    /\ phase = "nack"
    /\ phase' = "idle"
    /\ walk' = {}
    /\ UNCHANGED <<written, sendQueue, sendingQueue, sentList, nextSendId,
                   remoteExpected, cluster, outgoing, burst, net,
                   acks, receiverVars>>

\* The nodes left below the last acknowledged id are negative acknowledgements.
RetransmitNegative(left, held) == {i \in left : \E h \in held : i < h}

\* Mutant: the roll-up is taken for the last id received, not the next expected.
UnacknowledgedPastRollup(ack_id, held) ==
    {i \in DOMAIN sentList : i > ack_id /\ i \notin held}

\* The nodes neither below the roll-up nor inside a range.
Unacknowledged(ack_id, held) ==
    {i \in DOMAIN sentList : i >= ack_id /\ i \notin held}

\* Mutant: _send_next_remote_expected is not updated.
OnACKKeepsWindow(a) ==
    /\ Idle
    /\ a \in acks
    /\ nextSendId - a.rollup <= MaxAckLag
    /\ \E head \in DOMAIN sentList :
         /\ \A i \in DOMAIN sentList : head <= i
         /\ LET ack_id == ReconstructCounter(RollupMod, head, a.low)
                held   == {ack_id + o : o \in a.held}
                left   == Unacknowledged(ack_id, held)
            IN  /\ remoteExpected' = remoteExpected
                /\ sentList' = [i \in left |-> sentList[i]]
                /\ walk' = RetransmitNegative(left, held)
    /\ phase' = "nack"
    /\ acks' = acks \ {a}
    /\ UNCHANGED <<written, sendQueue, sendingQueue, nextSendId, cluster,
                   outgoing, burst, net, receiverVars>>

\* A ROLLUP and its RANGEs arrive.  The roll-up is rebuilt next to the head of
\* the sent list; every node below it or inside a range is released.  With
\* nothing outstanding the ACK is ignored.
OnACK(a) ==
    /\ Idle
    /\ a \in acks
    /\ nextSendId - a.rollup <= MaxAckLag
    /\ \E head \in DOMAIN sentList :
         /\ \A i \in DOMAIN sentList : head <= i
         /\ LET ack_id == ReconstructCounter(RollupMod, head, a.low)
                held   == {ack_id + o : o \in a.held}
                left   == Unacknowledged(ack_id, held)
            IN  /\ remoteExpected' = ack_id
                /\ sentList' = [i \in left |-> sentList[i]]
                /\ walk' = RetransmitNegative(left, held)
    /\ phase' = "nack"
    /\ acks' = acks \ {a}
    /\ UNCHANGED <<written, sendQueue, sendingQueue, nextSendId, cluster,
                   outgoing, burst, net, receiverVars>>

------------------------------------------------------------------------------
(***************************************************************************)
(* Receiver                                                                *)
(***************************************************************************)

\* Where the maximal runs of consecutive waiting ids start.
RunStarts(S) == {i \in S : i - 1 \notin S}

\* The network assumption: a datagram is not overtaken by more than MaxLag
\* newer ids.
Timely(d) ==
    \A k \in DOMAIN d :
      /\ expected <= d[k].stamp + MaxLag
      /\ \A i \in DOMAIN recvWait : i < d[k].stamp + MaxLag

RecvDatagram(d) ==
    /\ Idle
    /\ d \in net
    /\ Timely(d)
    /\ net' = net \ {d}
    /\ rx' = d
    /\ rxId' = 0
    /\ UNCHANGED <<senderVars, acks, expected, recvWait, gotReliable, delivered>>

\* The ACK-ID of the next entry, as OnTransportDatagrams decodes it.
EntryId ==
    LET e == Head(rx)
    IN  IF e.m = 0 THEN rxId + 1 ELSE ReconstructCounter(e.m, expected, e.low)

\* Take up the next entry of the datagram.
NextEntry ==
    /\ rx # <<>> /\ ~QueueReady
    /\ rx' = Tail(rx)
    /\ rxId' = EntryId
    /\ UNCHANGED <<senderVars, net, acks>>

\* Mutant: _next_recv_expected_id is not advanced.
ProcessInOrderAgain ==
    /\ NextEntry
    /\ EntryId = expected
    /\ delivered' = Append(delivered, Head(rx).msg)
    /\ gotReliable' = TRUE
    /\ UNCHANGED <<expected, recvWait>>

\* diff = 0: the message is processed at once.
ProcessInOrder ==
    /\ NextEntry
    /\ EntryId = expected
    /\ delivered' = Append(delivered, Head(rx).msg)
    /\ expected' = expected + 1
    /\ gotReliable' = TRUE
    /\ UNCHANGED recvWait

\* One iteration of the loop in RunReliableReceiveQueue.
RunReliableReceiveQueue ==
    /\ QueueReady
    /\ delivered' = IF recvWait[expected] = NoData THEN delivered
                    ELSE Append(delivered, recvWait[expected])
    /\ recvWait' = [i \in DOMAIN recvWait \ {expected} |-> recvWait[i]]
    /\ expected' = expected + 1
    /\ gotReliable' = TRUE
    /\ UNCHANGED <<senderVars, net, acks, rx, rxId>>

\* Mutant: a message that is waiting already is stored again.
StorableAgain(id) ==
    /\ Cardinality(DOMAIN recvWait) < Window
    /\ Cardinality({i \in RunStarts(DOMAIN recvWait) : i < id}) < Loops

\* diff > 0, and the wait queue takes the message.
Storable(id) ==
    /\ Cardinality(DOMAIN recvWait) < Window
    /\ id \notin DOMAIN recvWait
    /\ Cardinality({i \in RunStarts(DOMAIN recvWait) : i < id}) < Loops

\* Mutant: the ordered streams deliver on arrival too.
DeliverEarlyAlways(msg) == msg \notin FragMsgs

\* The unordered stream delivers a whole message on arrival, and stores only
\* that it came.
DeliverEarly(msg) == Unordered /\ msg \notin FragMsgs

\* Mutant: what was delivered on arrival is stored with its data.
StoreReliableWithData ==
    /\ NextEntry
    /\ EntryId > expected
    /\ Storable(EntryId)
    /\ LET msg == Head(rx).msg
       IN  /\ delivered' = IF DeliverEarly(msg) THEN Append(delivered, msg)
                           ELSE delivered
           /\ recvWait' = [i \in DOMAIN recvWait \union {EntryId} |->
                             IF i # EntryId THEN recvWait[i] ELSE msg]
    /\ gotReliable' = TRUE
    /\ UNCHANGED expected

StoreReliableOutOfOrder ==
    /\ NextEntry
    /\ EntryId > expected
    /\ Storable(EntryId)
    /\ LET msg == Head(rx).msg
       IN  /\ delivered' = IF DeliverEarly(msg) THEN Append(delivered, msg)
                           ELSE delivered
           /\ recvWait' = [i \in DOMAIN recvWait \union {EntryId} |->
                             IF i # EntryId THEN recvWait[i]
                             ELSE IF DeliverEarly(msg) THEN NoData ELSE msg]
    /\ gotReliable' = TRUE
    /\ UNCHANGED expected

\* The node for the message cannot be allocated: it is not stored, but the
\* unordered stream has delivered it by then.
StoreOutOfMemory ==
    /\ AllocFails
    /\ NextEntry
    /\ EntryId > expected
    /\ Storable(EntryId)
    /\ delivered' = IF DeliverEarly(Head(rx).msg)
                    THEN Append(delivered, Head(rx).msg) ELSE delivered
    /\ UNCHANGED <<expected, recvWait, gotReliable>>

\* The wait queue is full, too fragmented, or has the message already.
DropOutOfOrder ==
    /\ NextEntry
    /\ EntryId > expected
    /\ ~Storable(EntryId)
    /\ UNCHANGED <<expected, recvWait, gotReliable, delivered>>

\* Mutant: a duplicate does not ask for an acknowledgement.
IgnoreDuplicateSilently ==
    /\ NextEntry
    /\ EntryId < expected
    /\ UNCHANGED <<expected, recvWait, gotReliable, delivered>>

\* diff < 0: already rolled up, but the acknowledgement may have been lost.
IgnoreDuplicate ==
    /\ NextEntry
    /\ EntryId < expected
    /\ gotReliable' = TRUE
    /\ UNCHANGED <<expected, recvWait, delivered>>

\* The receiver's tick: acknowledge the roll-up and the waiting ranges below
\* cut.  A list that does not fit is cut between two ranges and the flag stays
\* set.
WriteACK(cut) ==
    /\ Idle
    /\ gotReliable
    /\ LET told == {i \in DOMAIN recvWait : i < cut}
       IN  /\ ~(cut \in DOMAIN recvWait /\ cut - 1 \in DOMAIN recvWait)
           /\ Cardinality(RunStarts(told)) <= Loops
           /\ acks' \in Carried(acks \union
                 {[rollup |-> expected, low |-> LowBits(expected, RollupMod),
                   held |-> {i - expected : i \in told}]}, MaxAcks)
           /\ gotReliable' = (told # DOMAIN recvWait)
    /\ UNCHANGED <<senderVars, net, expected, recvWait, rx, rxId, delivered>>

------------------------------------------------------------------------------
Init ==
    /\ written = 0
    /\ sendQueue = <<>> /\ sendingQueue = <<>>
    /\ sentList = [i \in {} |-> NoData]
    /\ nextSendId = FirstId /\ remoteExpected = FirstId
    /\ cluster = <<>> /\ outgoing = {}
    /\ phase = "idle" /\ burst = 0 /\ walk = {}
    /\ net = {} /\ acks = {}
    /\ expected = FirstId
    /\ recvWait = [i \in {} |-> NoData]
    /\ gotReliable = FALSE
    /\ rx = <<>> /\ rxId = 0
    /\ delivered = <<>>

Next ==
    \/ WriteReliable
    \/ WriteUnreliable
    \/ TickTransport
    \/ \E id \in walk : Retransmit(id)
    \/ WriteQueuedReliable
    \/ WriteSendQueueNode
    \/ FlushWrites
    \/ EndDatagrams
    \/ \E a \in acks : OnACK(a)
    \/ \E d \in net : RecvDatagram(d)
    \/ ProcessInOrder
    \/ RunReliableReceiveQueue
    \/ StoreReliableOutOfOrder
    \/ StoreOutOfMemory
    \/ DropOutOfOrder
    \/ IgnoreDuplicate
    \/ \E cut \in Ids : WriteACK(cut)

Spec == Init /\ [][Next]_vars

Oldest(id) == id \in DOMAIN sentList /\ \A i \in DOMAIN sentList : id <= i

\* Fairness.  The worker thread: the timer ticks, a handler that has started
\* runs to its end, the oldest message is retransmitted when its timer ran out,
\* and the rate limiter lets the head of the sending queue through again and
\* again.
WorkerFairness ==
    /\ SF_vars(TickTransport)
    /\ SF_vars(\E id \in walk : Oldest(id) /\ Retransmit(id))
    /\ SF_vars(WriteQueuedReliable)
    /\ SF_vars(WriteSendQueueNode)
    /\ WF_vars(FlushWrites)
    /\ WF_vars(ProcessInOrder \/ StoreReliableOutOfOrder \/ DropOutOfOrder
                \/ IgnoreDuplicate \/ RunReliableReceiveQueue)

\* Datagram d has the oldest message that is not acknowledged.
CarriesOldest(d) == \E k \in DOMAIN d : Oldest(d[k].id)

\* The network: what is sent again and again is not lost every time, be it the
\* oldest message or the acknowledgement that is due.
NetworkFairness ==
    /\ SF_vars(FlushWrites /\ \E d \in Outgoing \intersect net' : CarriesOldest(d))
    /\ SF_vars(\E d \in net : RecvDatagram(d) /\ CarriesOldest(d))
    /\ SF_vars(\E cut \in Ids : WriteACK(cut) /\ \E a \in acks' : a.rollup = expected)
    /\ SF_vars(\E a \in acks : OnACK(a) /\ remoteExpected' = expected)

FairSpec == Spec /\ WorkerFairness /\ NetworkFairness

------------------------------------------------------------------------------
(***************************************************************************)
(* Properties                                                              *)
(***************************************************************************)

SenderTypeOK ==
    /\ written \in Nat /\ sendQueue \in Seq(Nat) /\ sendingQueue \in Seq(Nat)
    /\ DOMAIN sentList \subseteq Nat
    /\ \A i \in DOMAIN sentList : sentList[i] \in Nat
    /\ nextSendId \in Nat /\ remoteExpected \in Int
    /\ cluster \in Seq(Entry) /\ outgoing \subseteq Seq(Entry)
    /\ phase \in {"idle", "lost", "flush", "nack"} /\ walk \subseteq DOMAIN sentList
    /\ burst \in 0 .. MaxFrags

NetTypeOK ==
    /\ net \subseteq Seq(Entry)
    /\ acks \subseteq [rollup : Nat, low : Nat, held : SUBSET Int]

ReceiverTypeOK ==
    /\ expected \in Nat
    /\ DOMAIN recvWait \subseteq Int
    /\ \A i \in DOMAIN recvWait : recvWait[i] \in Nat
    /\ gotReliable \in BOOLEAN
    /\ rx \in Seq(Entry) /\ rxId \in Int /\ delivered \in Seq(Nat)

\* Every variable has its type; what RetransmitLost and RetransmitNegative have
\* still to look at is on the sent list, so they touch no released node.
TypeOK == SenderTypeOK /\ NetTypeOK /\ ReceiverTypeOK

\* An ordered stream hands over the messages in the order they were written,
\* none missing and none twice, whatever the network loses, repeats or reorders
\* (OnTransportDatagrams, StoreReliableOutOfOrder, RunReliableReceiveQueue).
DeliveredInOrder ==
    ~Unordered => \A k \in DOMAIN delivered : delivered[k] = k

\* No message is handed over twice, although the unordered stream delivers on
\* arrival and meets the same id again when the queue runs and on retransmission.
DeliveredOnce ==
    \A j, k \in DOMAIN delivered : delivered[j] = delivered[k] => j = k

\* A message leaves the sent list only when the receiver has it: a stale,
\* repeated or cut-off ACK never frees a message that still has to be resent
\* (OnACK, FreeSentNode).
AckedIsReceived ==
    \A id \in FirstId .. (nextSendId - 1) :
        \/ id \in DOMAIN sentList
        \/ id < expected
        \/ id \in DOMAIN recvWait

\* The receiver rebuilds the very ACK-ID the sender assigned, however few bits
\* of it were sent and wherever the receiver has got to meanwhile.
AckIdDecoded ==
    (rx # <<>> /\ ~QueueReady) => EntryId = Head(rx).id

\* The sender's window keeps the receiver's wait queue below OUT_OF_ORDER_LIMIT,
\* even after a stale ACK moved _send_next_remote_expected backwards: a message
\* is never turned away for lack of room, unless it was written as one of
\* several fragments that passed the window check together.
WaitQueueHasRoom == MaxFrags = 1 => Cardinality(DOMAIN recvWait) < Window

\* The stream implements the channel the application is promised.
Channel == INSTANCE ReliableChannel
             WITH written <- written, delivered <- delivered
ImplementsChannel == Channel!Spec

\* Every message written is handed over in the end.
EventuallyDelivered ==
    \A n \in 1 .. MaxWrites :
        written >= n ~> \E k \in DOMAIN delivered : delivered[k] = n

\* A window that looks full to the sender opens again: when nothing is left to
\* be acknowledged the sender knows how far the receiver has got, also after
\* ACKs that arrived out of order, since no later ACK would tell it (OnACK
\* ignores the roll-up when the sent list is empty).
WindowReopens ==
    DOMAIN sentList = {} => remoteExpected = nextSendId

\* Once the application stops writing, the sender learns that everything has
\* arrived and stops retransmitting.
EventuallyAcknowledged ==
    written = MaxWrites ~>
        (sendQueue = <<>> /\ sendingQueue = <<>> /\ DOMAIN sentList = {})

\* Neither end runs out of room: the receiver's wait queue stays below its limit
\* and the sender's window never stays shut with nothing left to acknowledge.
WindowKept == WaitQueueHasRoom /\ WindowReopens

\* What is written arrives, and the sender learns of it.
EverythingArrives == EventuallyDelivered /\ EventuallyAcknowledged
------------------------------------------------------------------------------
(***************************************************************************)
(* The inductive invariant                                                 *)
(***************************************************************************)

\* How far the ids issued may run ahead of the oldest one missing: the last
\* message that passes the window check takes MaxFrags ids at once.
Span == Window + MaxFrags - 1

\* What the network and the ACK-ID fields have to satisfy: a datagram is not
\* overtaken so far that its low bits become ambiguous, nor an ACK.
NetworkAssumption ==
    /\ MaxLag + 2 <= Thresh1
    /\ 2 * (Span + MaxLag) < LongMod
    /\ 2 * MaxAckLag < RollupMod /\ 2 * Span <= RollupMod

\* Queued messages are the written ones that have no ACK-ID yet, in order.
QueueInv ==
    /\ written = (nextSendId - FirstId) + Len(sendingQueue) + Len(sendQueue)
    /\ \A k \in 1 .. Len(sendingQueue) :
          sendingQueue[k] = (nextSendId - FirstId) + k
    /\ \A k \in 1 .. Len(sendQueue) :
          sendQueue[k] = (nextSendId - FirstId) + Len(sendingQueue) + k

\* The sender's view lags behind the receiver, the receiver behind the sender,
\* and nothing unacknowledged is more than a window old.
WindowInv ==
    /\ FirstId <= remoteExpected /\ remoteExpected <= expected
    /\ expected <= nextSendId /\ nextSendId <= expected + Span
    /\ \A i \in DOMAIN sentList :
          /\ remoteExpected <= i /\ i < nextSendId /\ nextSendId <= i + Span
          /\ sentList[i] = MsgOf(i)

\* What the fragments of one message add to the window is what was issued since
\* the check.
BurstInv ==
    burst > 0 => /\ phase = "flush"
                 /\ nextSendId <= remoteExpected + Window + burst - 1

\* An entry carries the message its id stands for, and low bits from which the
\* id can be told as long as the receiver is not too far past it.
EntryOK(e, exp, issued) ==
    /\ FirstId <= e.id /\ e.id < e.stamp /\ e.stamp <= issued
    /\ e.stamp <= e.id + Span
    /\ e.msg = MsgOf(e.id)
    /\ e.m # 0 =>
         /\ e.m \in {2 * Thresh1, 2 * Thresh2, LongMod}
         /\ e.low = LowBits(e.id, e.m)
         /\ 2 * (e.id - exp) <= e.m
         /\ e.m # LongMod => e.stamp = e.id + 1

\* An entry without ACK-ID follows the one before it; no entry is older than
\* what was issued when a later one was written.
DatagramOK(d, exp, issued) ==
    /\ \A k \in 1 .. Len(d) : EntryOK(d[k], exp, issued)
    /\ \A k \in 1 .. Len(d) : d[k].m = 0 => k > 1 /\ d[k].id = d[k-1].id + 1
    /\ \A j, k \in 1 .. Len(d) : j < k => d[j].id < d[k].stamp

NetInv ==
    /\ DatagramOK(cluster, expected, nextSendId)
    /\ \A d \in outgoing \union net : DatagramOK(d, expected, nextSendId)

\* The rest of the datagram being processed.
RxInv ==
    /\ \A k \in 1 .. Len(rx) : EntryOK(rx[k], expected, nextSendId)
    /\ \A k \in 1 .. Len(rx) :
          rx[k].m = 0 => rx[k].id = (IF k = 1 THEN rxId ELSE rx[k-1].id) + 1
    /\ \A j, k \in 1 .. Len(rx) : j < k => rx[j].id < rx[k].stamp
    /\ \A k \in 1 .. Len(rx) :
          /\ expected <= rx[k].stamp + MaxLag
          /\ \A i \in DOMAIN recvWait : i < rx[k].stamp + MaxLag

Received(id) == id < expected \/ id \in DOMAIN recvWait

WaitInv ==
    \A i \in DOMAIN recvWait :
        /\ expected <= i /\ i < nextSendId
        /\ recvWait[i] = (IF DeliverEarly(MsgOf(i)) THEN NoData ELSE MsgOf(i))

AckInv ==
    \A a \in acks :
        /\ FirstId <= a.rollup /\ a.rollup <= expected
        /\ a.low = LowBits(a.rollup, RollupMod)
        /\ \A o \in a.held : Received(a.rollup + o)

\* A message handed over by the unordered stream is below expected, or waits
\* as a node without data.
Accounted(msg, exp, waiting) ==
    LET id == msg + FirstId - 1
    IN  id < exp \/ (id \in waiting /\ DeliverEarly(msg))

\* What was handed over: on an ordered stream the messages below expected, on
\* the unordered one also those that came early.
DeliveredInv ==
    /\ ~Unordered => /\ Len(delivered) = expected - FirstId
                     /\ \A k \in 1 .. Len(delivered) : delivered[k] = k
    /\ (Unordered /\ ~AllocFails) =>
         /\ DeliveredOnce
         /\ \A k \in 1 .. Len(delivered) :
              Accounted(delivered[k], expected, DOMAIN recvWait)

IInv == /\ TypeOK /\ QueueInv /\ WindowInv /\ BurstInv /\ NetInv /\ RxInv /\ WaitInv
        /\ AckInv /\ DeliveredInv /\ AckedIsReceived

\* The ids an acknowledgement reports beyond its roll-up.
HeldIds(a) == {a.rollup + o : o \in a.held}

\* The oldest id that is not acknowledged, or the next to be issued.
IsHead(h) == /\ h \in DOMAIN sentList \union {nextSendId}
             /\ \A i \in DOMAIN sentList : h <= i

\* The roll-up of an ACK is an id that was missing when it was written: no other
\* ACK, older or newer, reports it as held, so that a later ACK finds it at the
\* head of the sent list or acknowledged by an even later one.
AckOrder ==
    /\ \A a, b \in acks : b.rollup \notin HeldIds(a)
    /\ \A a \in acks : \/ a.rollup \in DOMAIN sentList \union {nextSendId}
                       \/ \A i \in DOMAIN sentList : a.rollup < i
    /\ \A a \in acks : \A h \in HeldIds(a) : ~IsHead(h)
==============================================================================
