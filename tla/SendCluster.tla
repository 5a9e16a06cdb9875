----------------------------- MODULE SendCluster -----------------------------
(***************************************************************************)
(* How messages of several streams are cut, packed into one datagram and   *)
(* told apart again (WriteSendQueueNode, ClusterReliableAppend,            *)
(* Retransmit, WriteUnreliable, and the parser in OnTransportDatagrams).   *)
(*                                                                         *)
(* The bytes themselves are left out; what is kept is where each message   *)
(* starts in the cluster, how many bytes its header declares and whether   *)
(* it carries an ACK-ID field.  The parser takes messages one after the    *)
(* other: the next one is read where the last one ends, and a message      *)
(* without field continues the stream and the id of the last reliable one. *)
(*                                                                         *)
(* Everything happens under _send_cluster_lock, one message or one         *)
(* iteration of the fragment loop of WriteSendQueueNode a step.            *)
(***************************************************************************)
EXTENDS Integers, Sequences, FiniteSets

CONSTANTS Streams,          \* the reliable streams
          Sizes,            \* bytes of the reliable messages written
          UnreliableSizes,  \* bytes of the unreliable messages written
          CompressedSizes,  \* what LZ4_compress may make of a message
          AckBytes,         \* what GetACKIDOverhead returns
          MaxPayload,       \* _max_payload_bytes
          FragThreshold,    \* FRAG_THRESHOLD
          FragHeader,       \* FRAG_HEADER_BYTES
          BloMask,          \* BLO_MASK: longest message with a one-byte header
          ResentSizes,      \* sizes that are retransmitted
          MaxMsgs           \* bound: messages written to a stream

NoStream == -1
MaxHeader == 2    \* MAX_MESSAGE_HEADER_BYTES
MaxAckId  == 3    \* MAX_ACK_ID_BYTES

ASSUME ClusterAssumption ==
    /\ NoStream \notin Streams
    /\ Sizes \subseteq Nat \ {0} /\ UnreliableSizes \subseteq Nat \ {0}
    /\ CompressedSizes \subseteq Nat \ {0} /\ ResentSizes \subseteq Nat
    /\ AckBytes \subseteq 1 .. MaxAckId /\ AckBytes # {}
    /\ FragHeader \in Nat /\ BloMask \in Nat /\ MaxMsgs \in Nat
    /\ FragThreshold \in Nat /\ MaxHeader + MaxAckId + FragHeader < FragThreshold
    /\ MaxPayload \in Nat /\ FragThreshold <= MaxPayload

VARIABLES
    segs,      \* the messages in _send_cluster, in the order of writing
    bytes,     \* _send_cluster.bytes
    ackId,     \* _send_cluster.ack_id: the id that needs no field
    stream,    \* _send_cluster.stream, NoStream after Clear()
    nextId,    \* _next_send_id of each stream
    node,      \* head of _sending_queue of each stream, partly sent
    sentNodes, \* _sent_list of each stream: ACK-ID -> node
    busy,      \* the stream WriteSendQueueNode is at work on, or NoStream
    overhead,  \* ack_id_overhead of its next piece
    written,   \* messages written to each stream
    pieces     \* history: what was put on the wire of each stream, by id

clusterVars == <<segs, bytes, ackId, stream>>
sendVars == <<clusterVars, nextId, node, sentNodes, busy, overhead, written, pieces>>

\* No message at the head of the queue.
NoNode == [size |-> 0, done |-> 0, frag |-> FALSE, count |-> 0, version |-> 0]

Seg == [start : Nat, size : Nat, reliable : BOOLEAN, field : BOOLEAN,
        stream : Streams \union {NoStream}, id : Nat]

HeaderBytes(data) == IF data <= BloMask THEN 1 ELSE MaxHeader

------------------------------------------------------------------------------
\* The cluster as it stands after QueueWriteDatagram and Clear().
Emptied == [segs |-> <<>>, bytes |-> 0, stream |-> NoStream]
Current == [segs |-> segs, bytes |-> bytes, stream |-> stream]

\* Put a message of size bytes at the end of cluster c, which counts it as
\* counted bytes.
Put(c, size, counted, reliable, field, s, id) ==
    /\ segs' = Append(c.segs, [start |-> c.bytes, size |-> size,
                  reliable |-> reliable, field |-> field, stream |-> s, id |-> id])
    /\ bytes' = c.bytes + counted

\* WriteUnreliable and WriteACK: any thread, under the cluster lock.
WriteUnreliable(data) ==
    LET needed == HeaderBytes(data) + data
        c      == IF bytes + needed > MaxPayload THEN Emptied ELSE Current
    IN  /\ busy = NoStream
        /\ needed <= MaxPayload
        /\ Put(c, needed, needed, FALSE, FALSE, NoStream, 0)
        /\ stream' = c.stream
        /\ UNCHANGED <<ackId, nextId, node, sentNodes, busy, overhead, written, pieces>>

\* The next message of stream s comes to the head of its sending queue.
WriteReliable(s, size) ==
    /\ busy = NoStream
    /\ node[s] = NoNode
    /\ written[s] < MaxMsgs
    /\ written' = [written EXCEPT ![s] = @ + 1]
    /\ node' = [node EXCEPT ![s] = [NoNode EXCEPT !.size = size]]
    /\ UNCHANGED <<clusterVars, nextId, sentNodes, busy, overhead, pieces>>

\* Mutant: the stream of the cluster is not compared.
AckIdOverheadAnyStream(s) ==
    IF stream # NoStream /\ ackId = nextId[s] THEN {0} ELSE AckBytes

\* ack_id_overhead: none when the id follows the last one in the cluster.
AckIdOverhead(s) == IF stream = s /\ ackId = nextId[s] THEN {0} ELSE AckBytes

\* WriteSendQueueNode begins, or takes up a message it had to leave.
WriteSendQueueNode(s) ==
    /\ busy = NoStream
    /\ node[s] # NoNode
    /\ busy' = s
    /\ overhead' \in AckIdOverhead(s)
    /\ UNCHANGED <<clusterVars, nextId, node, sentNodes, written, pieces>>

Left == node[busy].size - node[busy].done
Room == MaxPayload - bytes

\* Mutant: the message header is left out of the account.
TooLongNoHeader == overhead + Left > Room

\* The rest of the message does not fit in the cluster.
TooLong == MaxHeader + overhead + Left > Room

\* Not worth fragmentation: the cluster is queued as a datagram and the
\* message goes to a new one, or waits if the bandwidth is used up.
QueueWriteDatagram ==
    /\ busy # NoStream
    /\ TooLong /\ Room < FragThreshold /\ bytes > 0
    /\ segs' = <<>> /\ bytes' = 0 /\ stream' = NoStream
    /\ \/ /\ overhead' \in AckBytes
          /\ UNCHANGED busy
       \/ /\ busy' = NoStream /\ overhead' = 0
    /\ UNCHANGED <<ackId, nextId, node, sentNodes, written, pieces>>

\* Mutant: the header of the cluster counts for two bytes however short.
CountedUncut(data, size) == MaxHeader + size

\* What the cluster counts for a message of data bytes: two bytes of header
\* were reserved, and one is cut out again when the message is short.
Counted(data, size) == MaxHeader + size - (IF data <= BloMask THEN 1 ELSE 0)

\* Mutant: no room is left for the full ACK-ID of a retransmission.
RetransmitLimitNone(over) == MaxPayload

\* How long a piece may be so that it still fits with its ACK-ID in full.
RetransmitLimit(over) == MaxPayload - (MaxAckId - over)

\* What LZ4_compress may make of the message: bytes that could not be made
\* shorter before cannot be later.
Compressed(n) ==
    {c \in CompressedSizes : c < n.size /\ (n.done = 0 \/ n.version > 0)}

\* The sent list without the node about to be appended: a message that is not
\* cut is one node, and takes a new id if it is appended a second time.
OthersOf(list, frag, n, id) ==
    IF ~frag /\ n.done > 0 THEN {m \in list : m.id # id - 1} ELSE list

\* Mutant: the loop goes round once too often.
MoreToSendOnce(left) == left >= 0

\* The loop goes on while bytes of the message are left.
MoreToSend(left) == left > 0

\* One iteration of the loop in WriteSendQueueNode: as much of the message as
\* fits is given an ACK-ID and put in the cluster and on the sent list.  A message
\* that is cut for the first time is compressed.
ClusterReliableAppend ==
    /\ busy # NoStream
    /\ ~(TooLong /\ Room < FragThreshold /\ bytes > 0)
    /\ LET n == node[busy]
           frag == n.frag \/ TooLong
           fragOver == IF frag /\ ~n.frag THEN FragHeader ELSE 0
           over == MaxHeader + overhead + fragOver
       IN  \E total \in {n.size} \union
                         (IF frag /\ n.count = 0 THEN Compressed(n) ELSE {}) :
             LET left == IF total = n.size THEN Left ELSE total
                 limits == {over + left, Room, RetransmitLimit(overhead)}
                 write == CHOOSE w \in limits : \A v \in limits : w <= v
                 copy == write - over
                 data == copy + fragOver
                 version == IF total = n.size THEN n.version ELSE n.version + 1
                 after == [size |-> total, done |-> n.done + copy, frag |-> frag,
                           count |-> n.count + (IF frag THEN 1 ELSE 0),
                           version |-> version]
                 id == nextId[busy]
             IN  /\ Put(Current, HeaderBytes(data) + overhead + data,
                        Counted(data, overhead + data), TRUE, overhead > 0, busy, id)
                 /\ stream' = IF overhead > 0 THEN busy ELSE stream
                 /\ ackId' = id + 1
                 /\ nextId' = [nextId EXCEPT ![busy] = @ + 1]
                 /\ sentNodes' = [sentNodes EXCEPT ![busy] = OthersOf(@, frag, n, id) \union
                       {[id |-> id, size |-> IF frag THEN copy ELSE total,
                         frag |-> frag, first |-> fragOver > 0]}]
                 /\ pieces' = [pieces EXCEPT ![busy] = Append(@,
                       [msg |-> written[busy], from |-> n.done, size |-> copy,
                        frag |-> frag, total |-> total, version |-> version])]
                 /\ IF MoreToSend(left - copy)
                    THEN /\ node' = [node EXCEPT ![busy] = after]
                         /\ UNCHANGED busy
                    ELSE /\ node' = [node EXCEPT ![busy] = NoNode]
                         /\ busy' = NoStream
    /\ overhead' = 0
    /\ UNCHANGED written

\* Retransmit a node of the sent list, its ACK-ID in full unless it follows.
Retransmit(s, m) ==
    LET data   == m.size + (IF m.first THEN FragHeader ELSE 0)
        over   == IF stream = s /\ ackId = m.id THEN 0 ELSE MaxAckId
        needed == HeaderBytes(data) + over + data
        full   == bytes + needed > MaxPayload
        c      == IF full THEN Emptied ELSE Current
        size   == IF full THEN needed + MaxAckId - over ELSE needed
        field  == full \/ over > 0
        cut    == IF data <= BloMask THEN 1 ELSE 0
    IN  /\ busy = NoStream
        /\ m \in sentNodes[s]
        /\ m.size \in ResentSizes
        /\ Put(c, size, size - cut, TRUE, field, s, m.id)
        /\ stream' = IF field THEN s ELSE stream
        /\ ackId' = m.id + 1
        /\ UNCHANGED <<nextId, node, sentNodes, busy, overhead, written, pieces>>

\* FlushWrites sends the cluster.
FlushWrites ==
    /\ busy = NoStream
    /\ bytes > 0
    /\ segs' = <<>> /\ bytes' = 0 /\ stream' = NoStream
    /\ UNCHANGED <<ackId, nextId, node, sentNodes, busy, overhead, written, pieces>>

\* A node is acknowledged; a fragment also counts down the message it is of.
FreeSentNode(s, m) ==
    /\ busy = NoStream
    /\ m \in sentNodes[s]
    /\ sentNodes' = [sentNodes EXCEPT ![s] = @ \ {m}]
    /\ node' = IF m.frag /\ node[s].count > 0 /\ pieces[s][m.id].msg = written[s]
               THEN [node EXCEPT ![s].count = @ - 1] ELSE node
    /\ UNCHANGED <<clusterVars, nextId, busy, overhead, written, pieces>>

ClusterInit ==
    /\ segs = <<>> /\ bytes = 0 /\ ackId = 0 /\ stream = NoStream
    /\ nextId = [s \in Streams |-> 1]
    /\ node = [s \in Streams |-> NoNode]
    /\ sentNodes = [s \in Streams |-> {}]
    /\ busy = NoStream /\ overhead = 0
    /\ written = [s \in Streams |-> 0]
    /\ pieces = [s \in Streams |-> <<>>]

ClusterNext ==
    \/ \E d \in UnreliableSizes : WriteUnreliable(d)
    \/ \E s \in Streams, n \in Sizes : WriteReliable(s, n)
    \/ \E s \in Streams : WriteSendQueueNode(s)
    \/ QueueWriteDatagram
    \/ ClusterReliableAppend
    \/ \E s \in Streams : \E m \in sentNodes[s] : Retransmit(s, m) \/ FreeSentNode(s, m)
    \/ FlushWrites

ClusterSpec == ClusterInit /\ [][ClusterNext]_sendVars

------------------------------------------------------------------------------
(***************************************************************************)
(* Properties                                                              *)
(***************************************************************************)

\* Every variable has its type; WriteSendQueueNode works on a message, and a
\* message that waits at the head of a queue has bytes left to send.
ClusterTypeOK ==
    /\ segs \in Seq(Seg) /\ bytes \in Nat /\ ackId \in Nat
    /\ stream \in Streams \union {NoStream}
    /\ nextId \in [Streams -> Nat] /\ written \in [Streams -> Nat]
    /\ busy \in Streams \union {NoStream} /\ overhead \in 0 .. MaxAckId
    /\ busy # NoStream => node[busy] # NoNode
    /\ \A s \in Streams : node[s] # NoNode => node[s].done < node[s].size

\* The parser finds every message where the writer put it: the messages lie
\* end to end and the last one ends with the cluster, whichever mix of new,
\* retransmitted and unreliable messages filled it.
ClusterParses ==
    \A k \in DOMAIN segs :
        /\ k = 1 => segs[k].start = 0
        /\ segs[k].start + segs[k].size =
             (IF k = Len(segs) THEN bytes ELSE segs[k+1].start)

\* A reliable message without ACK-ID field is taken for the message it is: the
\* stream of the last field and the id counted up from it are its own.
IdsParse ==
    \A k \in DOMAIN segs : segs[k].reliable =>
        \E r \in 1 .. k :
            /\ segs[r].field
            /\ \A j \in (r + 1) .. k : ~segs[j].field
            /\ segs[r].stream = segs[k].stream
            /\ segs[k].id = segs[r].id
                 + Cardinality({j \in (r + 1) .. k : segs[j].reliable})

\* No datagram is longer than the payload limit, although a message that was
\* first sent with a short ACK-ID is retransmitted with a long one.
FitsDatagram == bytes <= MaxPayload

\* A message goes out whole: in one piece, or in fragments that lie end to end
\* and are cut from the same (compressed) bytes.
PiecesWhole ==
    \A s \in Streams : \A k \in DOMAIN pieces[s] :
        LET p == pieces[s][k]
        IN  /\ ~p.frag => p.from = 0 /\ p.size = p.total
            /\ p.frag /\ p.from > 0 =>
                 LET q == pieces[s][k-1]
                 IN  /\ q.msg = p.msg /\ q.frag /\ q.version = p.version
                     /\ q.from + q.size = p.from
            /\ k < Len(pieces[s]) =>
                 (pieces[s][k+1].msg = p.msg <=> p.from + p.size < p.total)

\* What the writer packed the reader takes apart again, within one datagram.
Framing == ClusterTypeOK /\ ClusterParses /\ IdsParse /\ FitsDatagram
==============================================================================
