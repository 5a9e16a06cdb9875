--------------------------- MODULE DatagramProofs ---------------------------
(***************************************************************************)
(* Proofs about what a datagram carries, for every size of payload, message *)
(* and queue: the cluster of messages the sender packs (SendCluster) is     *)
(* what the parser at the other end reads, and what the receiver puts       *)
(* together and queues (Delivery) is handed over once, in order and alive.  *)
(* Last, for a table of any size and any hashes, the set of connexions an   *)
(* application broadcasts to (Collexion): whom a removal or the release of  *)
(* a subset would lose, it keeps.                                           *)
(***************************************************************************)
EXTENDS SendCluster, Delivery, Collexion, FiniteSetTheorems, SequenceTheorems,
        WellFoundedInduction, NaturalsInduction, TLAPS


-----------------------------------------------------------------------------
(* The cluster *)

(* The sizes for which the code does what it says (see the findings): no
   message within two bytes of the payload limit, nothing short retransmitted,
   nothing compressed twice. *)
ClusterSizes ==
  /\ \A n \in Sizes : n <= MaxPayload - (MaxHeader + MaxAckId) \/ n > MaxPayload - MaxHeader
  /\ \A n \in ResentSizes : n > BloMask
  /\ \A c, d \in CompressedSizes : c = d

Node == [size : Nat, done : Nat, frag : BOOLEAN, count : Nat, version : Nat]
Piece == [msg : Nat, from : Nat, size : Nat, frag : BOOLEAN, total : Nat, version : Nat]
SentNode == [id : Nat, size : Nat, frag : BOOLEAN, first : BOOLEAN]

(* The head of a queue: a message that was not cut has not begun. *)
HeadOK(n) ==
  \/ n = NoNode
  \/ /\ n.done < n.size
     /\ ~n.frag => n.done = 0 /\ n.size \in Sizes /\ n.version = 0
     /\ n.version > 0 => n.size \in CompressedSizes
Heads ==
  /\ \A s \in Streams : HeadOK(node[s])
  /\ busy # NoStream => node[busy] # NoNode

(* The cluster as the parser reads it: messages end to end, and the ids of those
   without field counted from the last field before them. *)
ParsesTo(sq, b) ==
  \A k \in DOMAIN sq :
    /\ k = 1 => sq[k].start = 0
    /\ sq[k].start + sq[k].size = (IF k = Len(sq) THEN b ELSE sq[k+1].start)
After(sq, r, k) == {j \in (r + 1) .. k : sq[j].reliable}
CountedFrom(sq, r, k) ==
  r \in 1 .. k /\ sq[r].field /\ \A j \in (r + 1) .. k : ~sq[j].field
IdsOK(sq) ==
  \A k \in DOMAIN sq : sq[k].reliable =>
    \E r \in 1 .. k : /\ CountedFrom(sq, r, k)
                      /\ sq[r].stream = sq[k].stream
                      /\ sq[k].id = sq[r].id + Cardinality(After(sq, r, k))

(* The next message of stream st needs no field if its id is a. *)
FieldFrom(sq, st, a) ==
  st # NoStream =>
    \E r \in 1 .. Len(sq) : /\ CountedFrom(sq, r, Len(sq))
                            /\ sq[r].stream = st
                            /\ a = sq[r].id + Cardinality(After(sq, r, Len(sq))) + 1

Laid ==
  /\ segs \in Seq(Seg) /\ bytes \in Nat /\ ackId \in Nat
  /\ stream \in Streams \union {NoStream}
  /\ segs = <<>> => bytes = 0
  /\ ParsesTo(segs, bytes) /\ IdsOK(segs) /\ FieldFrom(segs, stream, ackId)
  /\ bytes <= MaxPayload

(* In the loop of WriteSendQueueNode an id goes without field only where it follows. *)
Follows == busy # NoStream /\ overhead = 0 => stream = busy /\ ackId = nextId[busy]

(* What is on the sent list fits an empty datagram with its ACK-ID in full. *)
Resendable ==
  \A s \in Streams : \A m \in sentNodes[s] :
    m.size + (IF m.first THEN FragHeader ELSE 0) + MaxHeader + MaxAckId <= MaxPayload

(* The pieces of a stream lie end to end; how they end, and what its queue
   goes on with. *)
Whole(P) ==
  \A k \in DOMAIN P :
    /\ k = 1 => P[k].from = 0
    /\ ~P[k].frag => P[k].from = 0 /\ P[k].size = P[k].total
    /\ P[k].frag /\ P[k].from > 0 =>
         /\ P[k-1].msg = P[k].msg /\ P[k-1].frag /\ P[k-1].version = P[k].version
         /\ P[k-1].from + P[k-1].size = P[k].from
    /\ k < Len(P) => (P[k+1].msg = P[k].msg <=> P[k].from + P[k].size < P[k].total)
EndsWith(P, n, w) ==
  /\ \A k \in DOMAIN P : P[k].msg <= w
  /\ n.done > 0 =>
       /\ P # <<>> /\ n.frag /\ P[Len(P)].frag /\ P[Len(P)].msg = w
       /\ P[Len(P)].version = n.version
       /\ P[Len(P)].from + P[Len(P)].size = n.done /\ P[Len(P)].total = n.size
  /\ n.done = 0 /\ P # <<>> =>
       /\ P[Len(P)].from + P[Len(P)].size = P[Len(P)].total
       /\ n # NoNode => P[Len(P)].msg < w
Ends == \A s \in Streams : Whole(pieces[s]) /\ EndsWith(pieces[s], node[s], written[s])

Queues ==
  /\ nextId \in [Streams -> Nat] /\ written \in [Streams -> Nat]
  /\ busy \in Streams \union {NoStream} /\ overhead \in 0 .. MaxAckId
  /\ node \in [Streams -> Node] /\ sentNodes \in [Streams -> SUBSET SentNode]
  /\ pieces \in [Streams -> Seq(Piece)]
  /\ Heads /\ Follows /\ Resendable /\ Ends
ClusterInv == Laid /\ Queues

-----------------------------------------------------------------------------
(* A message put at the end leaves those before it as they are. *)
LEMMA AppendedSegs ==
  ASSUME NEW sq \in Seq(Seg), NEW g \in Seg
  PROVE  /\ Append(sq, g) \in Seq(Seg) /\ Len(Append(sq, g)) = Len(sq) + 1
         /\ Len(sq) \in Nat /\ DOMAIN sq = 1 .. Len(sq)
         /\ DOMAIN Append(sq, g) = 1 .. Len(sq) + 1
         /\ \A k \in 1 .. Len(sq) : Append(sq, g)[k] = sq[k] /\ sq[k] \in Seg
         /\ Append(sq, g)[Len(sq) + 1] = g
  OBVIOUS

LEMMA PutParses ==
  ASSUME NEW sq \in Seq(Seg), NEW b \in Nat, ParsesTo(sq, b), sq = <<>> => b = 0,
         NEW g \in Seg, g.start = b
  PROVE  ParsesTo(Append(sq, g), b + g.size)
<1> DEFINE T == Append(sq, g)
<1>1. /\ Len(T) = Len(sq) + 1 /\ Len(sq) \in Nat /\ DOMAIN sq = 1 .. Len(sq)
      /\ DOMAIN T = 1 .. Len(sq) + 1 /\ T[Len(sq) + 1] = g
      /\ \A k \in 1 .. Len(sq) : T[k] = sq[k] /\ sq[k] \in Seg
  BY AppendedSegs
<1>n. Len(sq) \in Nat
  BY <1>1
<1>2. Len(sq) = 0 => b = 0
  BY EmptySeq
<1> HIDE DEF T
<1> SUFFICES ASSUME NEW k \in 1 .. Len(sq) + 1
             PROVE  /\ k = 1 => T[k].start = 0
                    /\ T[k].start + T[k].size = (IF k = Len(T) THEN b + g.size ELSE T[k+1].start)
  BY <1>1 DEF ParsesTo, T
<1>3. CASE k = Len(sq) + 1
  BY <1>1, <1>2, <1>3
<1>4. CASE k = Len(sq)
  <2>1. k \in 1 .. Len(sq) /\ k + 1 = Len(sq) + 1 /\ k # Len(sq) + 1
    BY <1>n, <1>4
  <2>a. k \in DOMAIN sq /\ T[k] = sq[k] /\ T[k+1] = g /\ k # Len(T)
    BY <1>1, <2>1
  <2>2. (k = 1 => sq[k].start = 0) /\ sq[k].start + sq[k].size = b
    BY <1>4, <2>a DEF ParsesTo
  <2> QED BY <2>a, <2>2
<1>5. CASE k < Len(sq)
  <2>1. k \in DOMAIN sq /\ T[k] = sq[k] /\ T[k+1] = sq[k+1] /\ k # Len(T) /\ k # Len(sq)
    BY <1>1, <1>5
  <2> QED BY <2>1 DEF ParsesTo
<1>6. k = Len(sq) + 1 \/ k = Len(sq) \/ k < Len(sq)
  BY <1>n
<1> QED BY <1>3, <1>4, <1>5, <1>6, Zenon

LEMMA AfterCount ==
  ASSUME NEW sq \in Seq(Seg), NEW g \in Seg, NEW r \in 1 .. Len(sq)
  PROVE  /\ \A k \in 1 .. Len(sq) : After(Append(sq, g), r, k) = After(sq, r, k)
         /\ Cardinality(After(Append(sq, g), r, Len(sq) + 1)) =
              Cardinality(After(sq, r, Len(sq))) + (IF g.reliable THEN 1 ELSE 0)
         /\ Cardinality(After(sq, r, Len(sq))) \in Nat
<1> DEFINE T == Append(sq, g)
           A == After(sq, r, Len(sq))
           B == After(T, r, Len(sq) + 1)
<1>1. /\ Len(sq) \in Nat /\ T[Len(sq) + 1] = g /\ r \in Nat
      /\ \A k \in 1 .. Len(sq) : T[k] = sq[k]
  BY AppendedSegs
<1> HIDE DEF T
<1>2. \A k \in 1 .. Len(sq) : After(T, r, k) = After(sq, r, k)
  BY <1>1 DEF After
<1>3. IsFiniteSet(A) /\ Cardinality(A) \in Nat /\ Len(sq) + 1 \notin A
  <2>1. IsFiniteSet((r + 1) .. Len(sq))
    <3>1. r + 1 \in Int /\ Len(sq) \in Int
      BY <1>1
    <3> QED BY <3>1, FS_Interval, Zenon
  <2>2. A \subseteq (r + 1) .. Len(sq)
    BY DEF After
  <2>3. IsFiniteSet(A)
    BY <2>1, <2>2, FS_Subset
  <2>4. Len(sq) + 1 \notin (r + 1) .. Len(sq)
    BY <1>1
  <2> QED BY <2>2, <2>3, <2>4, FS_CardinalityType
<1>4. B = IF g.reliable THEN A \cup {Len(sq) + 1} ELSE A
  BY <1>1 DEF After
<1>5. Cardinality(B) = Cardinality(A) + (IF g.reliable THEN 1 ELSE 0)
  <2>1. Cardinality(A \cup {Len(sq) + 1}) = Cardinality(A) + 1
    BY <1>3, FS_AddElement
  <2> QED BY <1>3, <1>4, <2>1
<1> QED BY <1>2, <1>3, <1>5 DEF T

LEMMA PutIds ==
  ASSUME NEW sq \in Seq(Seg), IdsOK(sq), NEW g \in Seg, NEW st, NEW a \in Nat,
         FieldFrom(sq, st, a), g.field => g.reliable,
         g.reliable /\ ~g.field => st = g.stream /\ a = g.id /\ st # NoStream
  PROVE  /\ IdsOK(Append(sq, g))
         /\ FieldFrom(Append(sq, g), IF g.field THEN g.stream ELSE st,
                      IF g.reliable THEN g.id + 1 ELSE a)
<1> DEFINE T == Append(sq, g)
           L == Len(sq) + 1
<1>1. /\ Len(T) = L /\ Len(sq) \in Nat /\ DOMAIN sq = 1 .. Len(sq)
      /\ DOMAIN T = 1 .. L /\ T[L] = g
      /\ \A k \in 1 .. Len(sq) : T[k] = sq[k] /\ sq[k] \in Seg
  BY AppendedSegs
<1>2. \A r \in 1 .. Len(sq) :
        /\ \A k \in 1 .. Len(sq) : After(T, r, k) = After(sq, r, k)
        /\ Cardinality(After(T, r, L)) =
              Cardinality(After(sq, r, Len(sq))) + (IF g.reliable THEN 1 ELSE 0)
        /\ Cardinality(After(sq, r, Len(sq))) \in Nat
  BY AfterCount
<1> HIDE DEF T
<1>3. \A r \in 1 .. Len(sq) : \A k \in 1 .. Len(sq) :
        CountedFrom(sq, r, k) => CountedFrom(T, r, k)
  BY <1>1 DEF CountedFrom
<1>4. \A r \in 1 .. Len(sq) :
        CountedFrom(sq, r, Len(sq)) /\ ~g.field => CountedFrom(T, r, L)
  BY <1>1 DEF CountedFrom
<1>5. g.field => CountedFrom(T, L, L) /\ Cardinality(After(T, L, L)) = 0
  <2>1. After(T, L, L) = {}
    BY <1>1 DEF After
  <2>2. Cardinality({}) = 0
    BY FS_EmptySet
  <2>3. L \in 1 .. L /\ \A j \in (L + 1) .. L : FALSE
    BY <1>1
  <2> QED BY <1>1, <2>1, <2>2, <2>3 DEF CountedFrom
<1>6. IdsOK(T)
  <2> SUFFICES ASSUME NEW k \in 1 .. L, T[k].reliable
               PROVE  \E r \in 1 .. k : /\ CountedFrom(T, r, k)
                                        /\ T[r].stream = T[k].stream
                                        /\ T[k].id = T[r].id + Cardinality(After(T, r, k))
    BY <1>1 DEF IdsOK
  <2>1. CASE k \in 1 .. Len(sq)
    <3>1. PICK r \in 1 .. k : /\ CountedFrom(sq, r, k)
                              /\ sq[r].stream = sq[k].stream
                              /\ sq[k].id = sq[r].id + Cardinality(After(sq, r, k))
      BY <1>1, <2>1 DEF IdsOK
    <3>2. r \in 1 .. Len(sq) /\ T[r] = sq[r] /\ T[k] = sq[k]
      BY <1>1, <2>1
    <3> QED BY <1>2, <1>3, <2>1, <3>1, <3>2
  <2>2. CASE k = L /\ g.field
    <3>1. T[k].id = T[k].id + Cardinality(After(T, k, k))
      BY <1>1, <1>5, <2>2 DEF Seg
    <3> QED BY <1>1, <1>5, <2>2, <3>1
  <2>3. CASE k = L /\ ~g.field
    <3>1. g.reliable /\ st = g.stream /\ a = g.id /\ st # NoStream
      BY <1>1, <2>3
    <3>2. PICK r \in 1 .. Len(sq) : /\ CountedFrom(sq, r, Len(sq)) /\ sq[r].stream = st
                                    /\ a = sq[r].id + Cardinality(After(sq, r, Len(sq))) + 1
      BY <3>1 DEF FieldFrom
    <3>3. sq[r] \in Seg /\ T[r] = sq[r] /\ r \in 1 .. k
      BY <1>1, <2>3
    <3>a. /\ Cardinality(After(T, r, L)) = Cardinality(After(sq, r, Len(sq))) + 1
          /\ Cardinality(After(sq, r, Len(sq))) \in Nat /\ sq[r].id \in Nat
      BY <1>2, <3>1, <3>3 DEF Seg
    <3>4. T[k].id = T[r].id + Cardinality(After(T, r, k))
      <4>1. T[k] = g
        BY <1>1, <2>3
      <4>2. \A x, y \in Nat : x + y + 1 = x + (y + 1)
        OBVIOUS
      <4>3. g.id = sq[r].id + (Cardinality(After(sq, r, Len(sq))) + 1)
        BY <3>1, <3>2, <3>a, <4>2, Zenon
      <4> QED BY <2>3, <3>3, <3>a, <4>1, <4>3, Zenon
    <3> QED BY <1>1, <1>4, <2>3, <3>1, <3>2, <3>3, <3>4
  <2> QED BY <1>1, <2>1, <2>2, <2>3
<1>7. FieldFrom(T, IF g.field THEN g.stream ELSE st, IF g.reliable THEN g.id + 1 ELSE a)
  <2>1. CASE g.field
    <3>1. g.reliable /\ L \in 1 .. Len(T) /\ T[L].stream = g.stream
            /\ g.id + 1 = T[L].id + Cardinality(After(T, L, Len(T))) + 1
      BY <1>1, <1>5, <2>1 DEF Seg
    <3> QED BY <1>1, <1>5, <2>1, <3>1 DEF FieldFrom
  <2>2. CASE ~g.field /\ st # NoStream
    <3>1. PICK r \in 1 .. Len(sq) : /\ CountedFrom(sq, r, Len(sq)) /\ sq[r].stream = st
                                    /\ a = sq[r].id + Cardinality(After(sq, r, Len(sq))) + 1
      BY <2>2 DEF FieldFrom
    <3>2. sq[r] \in Seg /\ T[r] = sq[r] /\ r \in 1 .. Len(T)
      BY <1>1
    <3>a. /\ Cardinality(After(T, r, Len(T))) =
               Cardinality(After(sq, r, Len(sq))) + (IF g.reliable THEN 1 ELSE 0)
          /\ Cardinality(After(sq, r, Len(sq))) \in Nat /\ sq[r].id \in Nat
      BY <1>1, <1>2, <3>2 DEF Seg
    <3>3. (IF g.reliable THEN g.id + 1 ELSE a) = T[r].id + Cardinality(After(T, r, Len(T))) + 1
      <4>1. CASE g.reliable
        <5>1. a = g.id
          BY <2>2, <4>1
        <5>2. PICK x \in Nat : x = Cardinality(After(sq, r, Len(sq)))
          BY <3>a
        <5>3. Cardinality(After(T, r, Len(T))) = x + 1 /\ g.id = sq[r].id + x + 1
          BY <3>1, <3>a, <4>1, <5>1, <5>2, Zenon
        <5>4. \A u \in Nat : u + (x + 1) + 1 = u + x + 1 + 1
          OBVIOUS
        <5> QED BY <3>2, <3>a, <4>1, <5>3, <5>4, Zenon
      <4>2. CASE ~g.reliable
        BY <3>1, <3>2, <3>a, <4>2
      <4> QED BY <4>1, <4>2
    <3> QED BY <1>1, <1>4, <2>2, <3>1, <3>2, <3>3 DEF FieldFrom
  <2> QED BY <2>1, <2>2 DEF FieldFrom
<1> QED BY <1>6, <1>7 DEF T

(* A cluster that was sent is empty. *)
LEMMA EmptyLaid ==
  ASSUME ackId \in Nat
  PROVE  /\ <<>> \in Seq(Seg) /\ ParsesTo(<<>>, 0) /\ IdsOK(<<>>)
         /\ \A a : FieldFrom(<<>>, NoStream, a)
  BY DEF ParsesTo, IdsOK, FieldFrom

LEMMA ClearKeeps ==
  ASSUME Laid, segs' = <<>>, bytes' = 0, stream' = NoStream, ackId' = ackId
  PROVE  Laid'
  BY EmptyLaid, ClusterAssumption DEF Laid, ClusterAssumption

(* A message that counts for what its header declares, fits, and has a field
   unless it follows, keeps the cluster in order. *)
LEMMA PutKeeps ==
  ASSUME Laid, NEW c, c = Current \/ c = Emptied,
         NEW size \in Nat, NEW reliable \in BOOLEAN, NEW field \in BOOLEAN,
         NEW s \in Streams \union {NoStream}, NEW id \in Nat,
         Put(c, size, size, reliable, field, s, id),
         c.bytes + size <= MaxPayload, field => reliable,
         reliable /\ ~field => c.stream = s /\ ackId = id /\ s # NoStream,
         stream' = (IF field THEN s ELSE c.stream),
         ackId' = (IF reliable THEN id + 1 ELSE ackId)
  PROVE  Laid'
<1> DEFINE g == [start |-> c.bytes, size |-> size, reliable |-> reliable,
                 field |-> field, stream |-> s, id |-> id]
<1>1. /\ c.segs \in Seq(Seg) /\ c.bytes \in Nat /\ c.stream \in Streams \union {NoStream}
      /\ c.segs = <<>> => c.bytes = 0
      /\ ParsesTo(c.segs, c.bytes) /\ IdsOK(c.segs) /\ FieldFrom(c.segs, c.stream, ackId)
      /\ ackId \in Nat
  <2>1. CASE c = Current
    BY <2>1 DEF Laid, Current
  <2>2. CASE c = Emptied
    BY <2>2, EmptyLaid DEF Laid, Emptied
  <2> QED BY <2>1, <2>2
<1>2. g \in Seg /\ g.start = c.bytes /\ g.size = size /\ g.reliable = reliable
        /\ g.field = field /\ g.stream = s /\ g.id = id
  BY <1>1 DEF Seg
<1>3. segs' = Append(c.segs, g) /\ bytes' = c.bytes + size
  BY DEF Put
<1> HIDE DEF g
<1>4. ParsesTo(segs', bytes')
  BY <1>1, <1>2, <1>3, PutParses
<1>5. IdsOK(segs') /\ FieldFrom(segs', stream', ackId')
  BY <1>1, <1>2, <1>3, PutIds
<1>6. segs' \in Seq(Seg) /\ segs' # <<>>
  BY <1>1, <1>2, <1>3, AppendedSegs
<1>7. bytes' \in Nat /\ bytes' <= MaxPayload /\ ackId' \in Nat
        /\ stream' \in Streams \union {NoStream}
  BY <1>1, <1>3
<1> QED BY <1>4, <1>5, <1>6, <1>7 DEF Laid

-----------------------------------------------------------------------------
(* What goes out of a stream *)

LEMMA PieceAppended ==
  ASSUME NEW P \in Seq(Piece), NEW n \in Node, NEW w \in Nat, NEW p \in Piece,
         Whole(P), EndsWith(P, n, w), n # NoNode,
         p.msg = w, p.from = n.done, p.size > 0, p.from + p.size <= p.total,
         n.done > 0 => p.frag /\ p.version = n.version /\ p.total = n.size,
         n.done < n.size,
         ~p.frag => p.from = 0 /\ p.size = p.total
  PROVE  /\ Whole(Append(P, p))
         /\ \A m \in Node :
              \/ m = NoNode /\ p.from + p.size = p.total
              \/ /\ m.done = p.from + p.size /\ m.frag /\ p.frag
                 /\ m.version = p.version /\ m.size = p.total
              => EndsWith(Append(P, p), m, w)
<1> DEFINE Q == Append(P, p)
           L == Len(P)
<1>0. L \in Nat /\ (P = <<>> <=> L = 0)
  BY EmptySeq
<1>1. /\ Q \in Seq(Piece) /\ Len(Q) = L + 1 /\ Q[L + 1] = p
      /\ \A k \in 1 .. L : Q[k] = P[k] /\ P[k] \in Piece
  OBVIOUS
<1>d. DOMAIN P = 1 .. L /\ DOMAIN Q = 1 .. L + 1
  OBVIOUS
<1>2. \A k \in 1 .. L :
        /\ k = 1 => P[k].from = 0
        /\ ~P[k].frag => P[k].from = 0 /\ P[k].size = P[k].total
        /\ P[k].frag /\ P[k].from > 0 =>
             /\ P[k-1].msg = P[k].msg /\ P[k-1].frag /\ P[k-1].version = P[k].version
             /\ P[k-1].from + P[k-1].size = P[k].from
        /\ k < L => (P[k+1].msg = P[k].msg <=> P[k].from + P[k].size < P[k].total)
  BY <1>d, Zenon DEF Whole
<1>3. \A k \in 1 .. L : P[k].msg <= w
  BY <1>d, Zenon DEF EndsWith
<1>4. n.done > 0 =>
        /\ L > 0 /\ P[L].frag /\ P[L].msg = w /\ P[L].version = n.version
        /\ P[L].from + P[L].size = n.done /\ P[L].total = n.size
  BY <1>0 DEF EndsWith
<1>5. n.done = 0 /\ L > 0 => P[L].from + P[L].size = P[L].total /\ P[L].msg < w
  BY <1>0 DEF EndsWith
<1> HIDE DEF L, Q
<1>6. ASSUME NEW k \in 1 .. L + 1
      PROVE  /\ k = 1 => Q[k].from = 0
             /\ ~Q[k].frag => Q[k].from = 0 /\ Q[k].size = Q[k].total
             /\ Q[k].frag /\ Q[k].from > 0 =>
                  /\ Q[k-1].msg = Q[k].msg /\ Q[k-1].frag /\ Q[k-1].version = Q[k].version
                  /\ Q[k-1].from + Q[k-1].size = Q[k].from
             /\ k < L + 1 => (Q[k+1].msg = Q[k].msg <=> Q[k].from + Q[k].size < Q[k].total)
  <2>1. CASE k = L + 1
    <3>1. k - 1 = L /\ Q[k] = p /\ ~(k < L + 1)
      BY <1>0, <1>1, <2>1
    <3>2. p.from > 0 => Q[L] = P[L] /\ n.done > 0
      BY <1>0, <1>1, <1>4 DEF Node
    <3>3. k = 1 => p.from = 0
      BY <1>0, <1>4, <2>1 DEF Node
    <3> QED BY <1>4, <3>1, <3>2, <3>3
  <2>2. CASE k = L
    <3>1. k \in 1 .. L /\ Q[k] = P[k] /\ Q[k+1] = p /\ ~(k < L) /\ P[k] \in Piece
      BY <1>0, <1>1, <2>2
    <3>2. P[k].frag /\ P[k].from > 0 => Q[k-1] = P[k-1]
      <4>1. P[k].from > 0 => k # 1
        BY <1>2, <3>1 DEF Piece
      <4> QED BY <1>0, <1>1, <2>2, <4>1
    <3>3. p.msg = P[k].msg <=> P[k].from + P[k].size < P[k].total
      <4>1. CASE n.done > 0
        BY <1>4, <2>2, <4>1 DEF Node
      <4>2. CASE n.done = 0
        BY <1>5, <2>2, <3>1, <4>2 DEF Piece
      <4> QED BY <4>1, <4>2 DEF Node
    <3> QED BY <1>2, <3>1, <3>2, <3>3
  <2>3. CASE k < L
    <3>1. k \in 1 .. L /\ k + 1 \in 1 .. L /\ Q[k] = P[k] /\ Q[k+1] = P[k+1]
      BY <1>0, <1>1, <2>3
    <3>2. k # 1 => Q[k-1] = P[k-1]
      BY <1>0, <1>1, <2>3
    <3>3. P[k].from > 0 => k # 1
      BY <1>2, <3>1
    <3>4. k < L /\ k < L + 1
      BY <1>0, <2>3
    <3> QED BY <1>2, <3>1, <3>2, <3>3, <3>4
  <2> QED BY <1>0, <2>1, <2>2, <2>3
<1>7. Whole(Q)
  BY <1>1, <1>d, <1>6, Zenon DEF Whole
<1>8. ASSUME NEW m \in Node,
             \/ m = NoNode /\ p.from + p.size = p.total
             \/ /\ m.done = p.from + p.size /\ m.frag /\ p.frag
                /\ m.version = p.version /\ m.size = p.total
      PROVE  EndsWith(Q, m, w)
  <2>1. \A k \in 1 .. L + 1 : Q[k].msg <= w
    BY <1>0, <1>1, <1>3
  <2>2. Q # <<>> /\ Q[Len(Q)] = p
    BY <1>0, <1>1
  <2>3. CASE m = NoNode /\ p.from + p.size = p.total
    <3>1. m.done = 0
      BY <2>3 DEF NoNode
    <3> QED BY <1>d, <2>1, <2>2, <2>3, <3>1 DEF EndsWith
  <2>4. CASE /\ m.done = p.from + p.size /\ m.frag /\ p.frag
             /\ m.version = p.version /\ m.size = p.total
    <3>1. m.done > 0
      BY <2>4 DEF Piece
    <3> QED BY <1>d, <2>1, <2>2, <2>4, <3>1 DEF EndsWith
  <2> QED BY <1>8, <2>3, <2>4
<1> QED BY <1>7, <1>8 DEF Q

-----------------------------------------------------------------------------
(* The actions *)

(* One iteration of the loop in numbers: is the message cut, what comes before
   its bytes, and how many of them are copied. *)
Cut == node[busy].frag \/ TooLong
FragOver == IF Cut /\ ~node[busy].frag THEN FragHeader ELSE 0
OverAll == MaxHeader + overhead + FragOver
LeftOf(total) == IF total = node[busy].size THEN Left ELSE total
Limits(total) == {OverAll + LeftOf(total), Room, RetransmitLimit(overhead)}
CopyOf(total) == (CHOOSE w \in Limits(total) : \A v \in Limits(total) : w <= v) - OverAll
Totals == {node[busy].size} \union
            (IF Cut /\ node[busy].count = 0 THEN Compressed(node[busy]) ELSE {})

LEMMA AppendNumbers ==
  ASSUME ClusterSizes, ClusterInv, busy # NoStream,
         ~(TooLong /\ Room < FragThreshold /\ bytes > 0), NEW total \in Totals
  PROVE  /\ total \in Nat /\ node[busy].done + LeftOf(total) = total
         /\ total # node[busy].size => /\ node[busy].done = 0 /\ Cut
                                       /\ total \in CompressedSizes
         /\ CopyOf(total) \in Nat \ {0} /\ CopyOf(total) <= LeftOf(total)
         /\ LeftOf(total) \in Nat
         /\ ~Cut => CopyOf(total) = LeftOf(total)
         /\ OverAll + CopyOf(total) <= Room
         /\ FragOver + CopyOf(total) + MaxHeader + MaxAckId <= MaxPayload
<1> DEFINE n == node[busy]
<1>1. busy \in Streams /\ n \in Node /\ n # NoNode /\ HeadOK(n)
  BY DEF ClusterInv, Queues, Heads
<1>2. /\ n.size \in Nat /\ n.done \in Nat /\ n.done < n.size
      /\ ~n.frag => n.done = 0 /\ n.size \in Sizes
      /\ n.version \in Nat /\ (n.version > 0 => n.size \in CompressedSizes)
  BY <1>1 DEF HeadOK, Node
<1>3. bytes \in Nat /\ bytes <= MaxPayload /\ overhead \in 0 .. 3
  BY DEF ClusterInv, Queues, Laid, MaxAckId
<1>4. /\ MaxPayload \in Nat /\ FragHeader \in Nat /\ FragThreshold \in Nat
      /\ 5 + FragHeader < FragThreshold /\ FragThreshold <= MaxPayload
      /\ CompressedSizes \subseteq Nat \ {0}
  BY ClusterAssumption DEF ClusterAssumption, MaxHeader, MaxAckId
<1>5. total # n.size => n.done = 0 /\ Cut /\ total \in CompressedSizes /\ total \in Nat \ {0}
  <2> SUFFICES ASSUME total # n.size
               PROVE  n.done = 0 /\ Cut /\ total \in CompressedSizes /\ total \in Nat \ {0}
    OBVIOUS
  <2>1. Cut /\ total \in Compressed(n)
    BY DEF Totals
  <2>2. total \in CompressedSizes /\ total < n.size /\ (n.done = 0 \/ n.version > 0)
    BY <2>1 DEF Compressed
  <2>3. n.size \in CompressedSizes => total = n.size
    BY <2>2 DEF ClusterSizes
  <2> QED BY <1>2, <1>4, <2>1, <2>2, <2>3
<1>6. total \in Nat /\ LeftOf(total) \in Nat \ {0} /\ n.done + LeftOf(total) = total
  BY <1>2, <1>5 DEF LeftOf, Left
<1>7. FragOver \in Nat /\ FragOver <= FragHeader /\ (n.frag \/ ~Cut => FragOver = 0)
  BY <1>4 DEF FragOver
<1> DEFINE left == LeftOf(total)
           over == OverAll
           room == Room
           lim == RetransmitLimit(overhead)
<1>8. /\ over \in Nat /\ room \in Nat /\ lim \in Nat /\ room = MaxPayload - bytes
      /\ over = 2 + overhead + FragOver /\ lim = MaxPayload - (3 - overhead)
  BY <1>3, <1>4, <1>7 DEF OverAll, Room, RetransmitLimit, MaxHeader, MaxAckId
<1>9. TooLong <=> 2 + overhead + (n.size - n.done) > room
  BY DEF TooLong, Left, MaxHeader
<1>10. TooLong => room >= FragThreshold
  BY <1>3, <1>4, <1>8
<1>11. PICK w \in Limits(total) : \A v \in Limits(total) : w <= v
  <2> HIDE DEF left, over, room, lim
  <2>1. \E w \in {over + left, room, lim} : \A v \in {over + left, room, lim} : w <= v
    <3>1. left \in Nat /\ over \in Nat /\ room \in Nat /\ lim \in Nat
      BY <1>6, <1>8 DEF left
    <3> QED BY <3>1
  <2> QED BY <2>1 DEF Limits, left, over, room, lim
<1>12. PICK write : /\ write = CHOOSE x \in Limits(total) : \A v \in Limits(total) : x <= v
                    /\ write \in Limits(total) /\ \A v \in Limits(total) : write <= v
  BY <1>11
<1>13. CopyOf(total) = write - over
  BY <1>12 DEF CopyOf
<1>14. /\ write \in {over + left, room, lim}
       /\ write <= over + left /\ write <= room /\ write <= lim
  BY <1>12 DEF Limits
<1> HIDE DEF left, over, room, lim
<1>15. left \in Nat \ {0}
  BY <1>6 DEF left
<1>16. ~Cut => left = n.size /\ 2 + overhead + left <= room /\ left <= MaxPayload - 5 /\ FragOver = 0
  <2> SUFFICES ASSUME ~Cut
               PROVE  left = n.size /\ 2 + overhead + left <= room /\ left <= MaxPayload - 5 /\ FragOver = 0
    OBVIOUS
  <2>1. ~n.frag /\ ~TooLong /\ total = n.size /\ n.done = 0 /\ n.size \in Sizes /\ FragOver = 0
    BY <1>2, <1>5, <1>7 DEF Cut
  <2>2. left = n.size
    BY <1>2, <2>1 DEF left, LeftOf, Left
  <2>3. 2 + overhead + left <= room
    BY <1>2, <1>3, <1>8, <1>9, <2>1, <2>2
  <2>4. left <= MaxPayload - 5 \/ left > MaxPayload - 2
    BY <2>1, <2>2 DEF ClusterSizes, MaxHeader, MaxAckId
  <2> QED BY <1>3, <1>4, <1>8, <1>15, <2>1, <2>2, <2>3, <2>4
<1>17. Cut => over < room
  <2>1. CASE TooLong
    BY <1>3, <1>4, <1>7, <1>8, <1>10, <2>1
  <2>2. CASE ~TooLong /\ n.frag
    BY <1>2, <1>3, <1>7, <1>8, <1>9, <2>2
  <2> QED BY <2>1, <2>2 DEF Cut
<1>18. over < lim
  BY <1>3, <1>4, <1>7, <1>8
<1>19. over < room
  BY <1>3, <1>8, <1>15, <1>16, <1>17
<1>20. write - over \in Nat \ {0} /\ write - over <= left /\ over + (write - over) = write
  BY <1>8, <1>14, <1>15, <1>18, <1>19
<1>21. ~Cut => write - over = left
  BY <1>3, <1>4, <1>8, <1>14, <1>15, <1>16
<1>22. FragOver + (write - over) + 2 + 3 <= MaxPayload
  BY <1>3, <1>4, <1>7, <1>8, <1>14, <1>20
<1>23. over + CopyOf(total) <= room
  BY <1>13, <1>14, <1>20
<1> QED BY <1>5, <1>6, <1>13, <1>20, <1>21, <1>22, <1>23 DEF left, over, room, MaxHeader, MaxAckId

(* What the iteration puts on the wire, on the sent list and back in the queue. *)
DataOf(total) == CopyOf(total) + FragOver
VersionOf(total) == IF total = node[busy].size THEN node[busy].version
                    ELSE node[busy].version + 1
NodeAfter(total) ==
  [size |-> total, done |-> node[busy].done + CopyOf(total), frag |-> Cut,
   count |-> node[busy].count + (IF Cut THEN 1 ELSE 0), version |-> VersionOf(total)]
SentAfter(total) ==
  [id |-> nextId[busy], size |-> IF Cut THEN CopyOf(total) ELSE total,
   frag |-> Cut, first |-> FragOver > 0]
PieceOf(total) ==
  [msg |-> written[busy], from |-> node[busy].done, size |-> CopyOf(total),
   frag |-> Cut, total |-> total, version |-> VersionOf(total)]

LEMMA AppendParts ==
  ASSUME ClusterReliableAppend
  PROVE  \E total \in Totals :
           /\ Put(Current, HeaderBytes(DataOf(total)) + overhead + DataOf(total),
                  Counted(DataOf(total), overhead + DataOf(total)), TRUE, overhead > 0,
                  busy, nextId[busy])
           /\ stream' = IF overhead > 0 THEN busy ELSE stream
           /\ ackId' = nextId[busy] + 1
           /\ nextId' = [nextId EXCEPT ![busy] = @ + 1]
           /\ sentNodes' = [sentNodes EXCEPT ![busy] =
                 OthersOf(@, Cut, node[busy], nextId[busy]) \union {SentAfter(total)}]
           /\ pieces' = [pieces EXCEPT ![busy] = Append(@, PieceOf(total))]
           /\ IF MoreToSend(LeftOf(total) - CopyOf(total))
              THEN node' = [node EXCEPT ![busy] = NodeAfter(total)] /\ busy' = busy
              ELSE node' = [node EXCEPT ![busy] = NoNode] /\ busy' = NoStream
  BY Zenon DEF ClusterReliableAppend, Totals, Cut, FragOver, OverAll, LeftOf, Limits, CopyOf,
       DataOf, VersionOf, NodeAfter, SentAfter, PieceOf

(* A stream that an action leaves alone stays as it is. *)
LEMMA StreamFrame ==
  ASSUME Queues, NEW s \in Streams, NEW n \in Node, NEW P \in Seq(Piece), NEW w \in Nat,
         HeadOK(n), Whole(P), EndsWith(P, n, w),
         node' = [node EXCEPT ![s] = n], pieces' = [pieces EXCEPT ![s] = P],
         written' = [written EXCEPT ![s] = w]
  PROVE  /\ node' \in [Streams -> Node] /\ pieces' \in [Streams -> Seq(Piece)]
         /\ written' \in [Streams -> Nat] /\ Ends'
         /\ \A t \in Streams : HeadOK(node'[t])
<1>1. /\ node' \in [Streams -> Node] /\ pieces' \in [Streams -> Seq(Piece)]
      /\ written' \in [Streams -> Nat]
  BY DEF Queues
<1>2. \A t \in Streams : /\ node'[t] = IF t = s THEN n ELSE node[t]
                         /\ pieces'[t] = IF t = s THEN P ELSE pieces[t]
                         /\ written'[t] = IF t = s THEN w ELSE written[t]
  BY DEF Queues
<1>3. Ends'
  <2> SUFFICES ASSUME NEW t \in Streams
               PROVE  Whole(pieces'[t]) /\ EndsWith(pieces'[t], node'[t], written'[t])
    BY DEF Ends
  <2>1. CASE t = s
    BY <1>2, <2>1
  <2>2. CASE t # s
    BY <1>2, <2>2 DEF Queues, Ends
  <2> QED BY <2>1, <2>2
<1>4. \A t \in Streams : HeadOK(node'[t])
  BY <1>2 DEF Queues, Heads
<1> QED BY <1>1, <1>3, <1>4

LEMMA AppendKeeps ==
  ASSUME ClusterSizes, ClusterInv, ClusterReliableAppend
  PROVE  ClusterInv'
<1>1. PICK total \in Totals :
           /\ Put(Current, HeaderBytes(DataOf(total)) + overhead + DataOf(total),
                  Counted(DataOf(total), overhead + DataOf(total)), TRUE, overhead > 0,
                  busy, nextId[busy])
           /\ stream' = IF overhead > 0 THEN busy ELSE stream
           /\ ackId' = nextId[busy] + 1
           /\ nextId' = [nextId EXCEPT ![busy] = @ + 1]
           /\ sentNodes' = [sentNodes EXCEPT ![busy] =
                 OthersOf(@, Cut, node[busy], nextId[busy]) \union {SentAfter(total)}]
           /\ pieces' = [pieces EXCEPT ![busy] = Append(@, PieceOf(total))]
           /\ IF MoreToSend(LeftOf(total) - CopyOf(total))
              THEN node' = [node EXCEPT ![busy] = NodeAfter(total)] /\ busy' = busy
              ELSE node' = [node EXCEPT ![busy] = NoNode] /\ busy' = NoStream
  BY AppendParts
<1>2. busy # NoStream /\ ~(TooLong /\ Room < FragThreshold /\ bytes > 0)
        /\ overhead' = 0 /\ written' = written
  BY DEF ClusterReliableAppend
<1>3. /\ total \in Nat /\ node[busy].done + LeftOf(total) = total
      /\ total # node[busy].size => /\ node[busy].done = 0 /\ Cut
                                    /\ total \in CompressedSizes
      /\ CopyOf(total) \in Nat \ {0} /\ CopyOf(total) <= LeftOf(total)
      /\ LeftOf(total) \in Nat
      /\ ~Cut => CopyOf(total) = LeftOf(total)
      /\ OverAll + CopyOf(total) <= Room
      /\ FragOver + CopyOf(total) + MaxHeader + MaxAckId <= MaxPayload
  BY <1>2, AppendNumbers
<1> DEFINE copy == CopyOf(total)
           left == LeftOf(total)
           n == node[busy]
           id == nextId[busy]
<1>4. /\ busy \in Streams /\ n \in Node /\ n # NoNode /\ HeadOK(n) /\ id \in Nat
      /\ written[busy] \in Nat /\ overhead \in 0 .. MaxAckId
      /\ pieces[busy] \in Seq(Piece) /\ sentNodes[busy] \subseteq SentNode
  BY <1>2 DEF ClusterInv, Queues, Heads
<1>5. /\ n.size \in Nat /\ n.done \in Nat /\ n.done < n.size
      /\ ~n.frag => n.done = 0 /\ n.size \in Sizes /\ n.version = 0
      /\ n.version \in Nat /\ n.count \in Nat /\ n.frag \in BOOLEAN
      /\ n.version > 0 => n.size \in CompressedSizes
  BY <1>4 DEF HeadOK, Node
<1>6. FragOver \in Nat /\ FragHeader \in Nat /\ FragOver \in {0, FragHeader} /\ Cut \in BOOLEAN
  BY <1>5, ClusterAssumption DEF ClusterAssumption, FragOver, Cut, TooLong
<1>a. copy \in Nat \ {0} /\ left \in Nat /\ overhead \in 0 .. 3
        /\ FragOver + copy + 5 <= MaxPayload /\ 2 + overhead + FragOver + copy <= MaxPayload - bytes
  <2>1. MaxHeader = 2 /\ MaxAckId = 3
    BY DEF MaxHeader, MaxAckId
  <2>2. copy \in Nat \ {0} /\ left \in Nat /\ overhead \in 0 .. 3
    BY <1>3, <1>4, <2>1
  <2>3. FragOver + copy + 2 + 3 <= MaxPayload /\ 2 + overhead + FragOver + copy <= MaxPayload - bytes
    BY <1>3, <2>1 DEF OverAll, Room
  <2> HIDE DEF copy
  <2>4. FragOver + copy + 2 + 3 = FragOver + copy + 5
    BY <1>6, <2>2
  <2> QED BY <2>2, <2>3, <2>4
<1>b. ~Cut => n.done = 0 /\ total = copy
  BY <1>3, <1>5 DEF Cut
<1>7. Laid'
  <2> DEFINE d == DataOf(total)
             size == HeaderBytes(d) + overhead + d
  <2>1. d \in Nat /\ d = copy + FragOver
    BY <1>3, <1>6 DEF DataOf
  <2> HIDE DEF d
  <2>2. size \in Nat /\ Counted(d, overhead + d) = size /\ size <= MaxHeader + overhead + d
    <3>1. BloMask \in Nat /\ overhead \in 0 .. 3
      BY <1>a, ClusterAssumption DEF ClusterAssumption
    <3>2. CASE d <= BloMask
      BY <2>1, <3>1, <3>2 DEF HeaderBytes, Counted, MaxHeader
    <3>3. CASE ~(d <= BloMask)
      BY <2>1, <3>1, <3>3 DEF HeaderBytes, Counted, MaxHeader
    <3> QED BY <3>2, <3>3
  <2>3. Current.bytes + size <= MaxPayload /\ Current.stream = stream
    <3>1. bytes \in Nat /\ MaxPayload \in Nat
      BY ClusterAssumption DEF ClusterAssumption, ClusterInv, Laid
    <3> HIDE DEF copy, size
    <3>2. size <= 2 + overhead + d
      BY <2>2 DEF MaxHeader
    <3>3. size <= 2 + overhead + FragOver + copy
      BY <1>6, <1>a, <2>1, <2>2, <3>2
    <3>4. bytes + size <= MaxPayload
      BY <1>6, <1>a, <2>2, <3>1, <3>3
    <3> QED BY <3>4 DEF Current
  <2>4. Put(Current, size, size, TRUE, overhead > 0, busy, id)
    BY <1>1, <2>2 DEF d
  <2>5. ~(overhead > 0) => stream = busy /\ ackId = id
    BY <1>2, <1>4 DEF ClusterInv, Queues, Follows, MaxAckId
  <2> HIDE DEF size
  <2>6. PICK field \in BOOLEAN : field = (overhead > 0)
    <3>1. (overhead > 0) \in BOOLEAN
      OBVIOUS
    <3> QED BY <3>1, Zenon
  <2>7. Put(Current, size, size, TRUE, field, busy, id) /\ size \in Nat
    BY <2>2, <2>4, <2>6
  <2>8. /\ stream' = (IF field THEN busy ELSE Current.stream)
        /\ ackId' = (IF TRUE THEN id + 1 ELSE ackId)
        /\ TRUE /\ ~field => Current.stream = busy /\ ackId = id /\ busy # NoStream
    BY <1>1, <1>2, <2>3, <2>5, <2>6
  <2>9. Laid /\ busy \in Streams \union {NoStream} /\ id \in Nat
    BY <1>4 DEF ClusterInv
  <2> HIDE DEF id
  <2> QED BY <2>3, <2>7, <2>8, <2>9, PutKeeps
<1>8. NodeAfter(total) \in Node /\ PieceOf(total) \in Piece /\ SentAfter(total) \in SentNode
  <2>1. VersionOf(total) \in Nat /\ (FragOver > 0) \in BOOLEAN
    BY <1>5 DEF VersionOf
  <2>2. copy \in Nat /\ n.done + copy \in Nat /\ n.count + (IF Cut THEN 1 ELSE 0) \in Nat
        /\ total \in Nat /\ Cut \in BOOLEAN /\ written[busy] \in Nat /\ id \in Nat
    BY <1>3, <1>4, <1>5, <1>6, SMTT(40) DEF Node
  <2>3. NodeAfter(total) \in Node
    BY <2>1, <2>2, Zenon DEF NodeAfter, Node
  <2>4. PieceOf(total) \in Piece
    BY <1>5, <2>1, <2>2, Zenon DEF PieceOf, Piece
  <2>5. SentAfter(total) \in SentNode
    <3>1. (IF Cut THEN copy ELSE total) \in Nat
      BY <2>2
    <3> QED BY <2>1, <2>2, <3>1, Zenon DEF SentAfter, SentNode
  <2> QED BY <2>3, <2>4, <2>5
<1>9. left - copy \in Nat /\ (MoreToSend(left - copy) <=> copy < left)
  BY <1>3 DEF MoreToSend
<1>10. PICK next \in Node :
         /\ node' = [node EXCEPT ![busy] = next]
         /\ IF copy < left THEN next = NodeAfter(total) /\ busy' = busy
                           ELSE next = NoNode /\ busy' = NoStream
  <2>1. NoNode \in Node
    BY DEF NoNode, Node
  <2> QED BY <1>1, <1>8, <1>9, <2>1
<1>11. HeadOK(next) /\ (busy' # NoStream => next # NoNode)
  <2>1. CASE copy < left
    <3>1. next = NodeAfter(total) /\ Cut
      BY <1>3, <1>10, <2>1
    <3>2. next.done < next.size /\ next.frag /\ next.size = total /\ next.version = VersionOf(total)
      BY <1>3, <1>5, <2>1, <3>1 DEF NodeAfter
    <3>3. VersionOf(total) > 0 => total \in CompressedSizes
      BY <1>3, <1>5 DEF VersionOf
    <3>4. next # NoNode
      BY <3>2 DEF NoNode
    <3> QED BY <3>2, <3>3, <3>4 DEF HeadOK
  <2>2. CASE ~(copy < left)
    BY <1>10, <2>2 DEF HeadOK
  <2> QED BY <2>1, <2>2
<1>12. Whole(Append(pieces[busy], PieceOf(total)))
         /\ EndsWith(Append(pieces[busy], PieceOf(total)), next, written[busy])
  <2> DEFINE p == PieceOf(total)
  <2>1. /\ p.msg = written[busy] /\ p.from = n.done /\ p.size = copy /\ p.total = total
        /\ p.frag = Cut /\ p.version = VersionOf(total)
    BY DEF PieceOf
  <2> HIDE DEF p
  <2>2. /\ p.size > 0 /\ p.from + p.size <= p.total
        /\ ~p.frag => p.from = 0 /\ p.size = p.total
    BY <1>3, <1>5, <1>a, <1>b, <2>1
  <2>3. n.done > 0 => p.frag /\ p.version = n.version /\ p.total = n.size
    BY <1>3, <1>5, <2>1 DEF VersionOf, Cut
  <2>4. Whole(pieces[busy]) /\ EndsWith(pieces[busy], n, written[busy])
    BY <1>4 DEF ClusterInv, Queues, Ends
  <2>5. \/ next = NoNode /\ p.from + p.size = p.total
        \/ /\ next.done = p.from + p.size /\ next.frag /\ p.frag
           /\ next.version = p.version /\ next.size = p.total
    <3>1. CASE copy < left
      BY <1>3, <1>10, <2>1, <3>1 DEF NodeAfter
    <3>2. CASE ~(copy < left)
      BY <1>3, <1>5, <1>10, <2>1, <3>2
    <3> QED BY <3>1, <3>2
  <2>6. p \in Piece
    BY <1>8 DEF p
  <2>7. Whole(Append(pieces[busy], p)) /\ EndsWith(Append(pieces[busy], p), next, written[busy])
    BY <1>4, <1>5, <2>1, <2>2, <2>3, <2>4, <2>5, <2>6, PieceAppended
  <2> QED BY <2>7 DEF p
<1>13. /\ node' \in [Streams -> Node] /\ pieces' \in [Streams -> Seq(Piece)]
       /\ written' \in [Streams -> Nat] /\ Ends'
       /\ \A t \in Streams : HeadOK(node'[t])
  <2> DEFINE P == Append(pieces[busy], PieceOf(total))
             w == written[busy]
  <2>1. P \in Seq(Piece) /\ w \in Nat
    BY <1>4, <1>8
  <2>2. pieces' = [pieces EXCEPT ![busy] = P] /\ written' = [written EXCEPT ![busy] = w]
    BY <1>1, <1>2 DEF ClusterInv, Queues
  <2> HIDE DEF P, w
  <2>3. HeadOK(next) /\ Whole(P) /\ EndsWith(P, next, w) /\ Queues
    BY <1>11, <1>12 DEF P, w, ClusterInv
  <2> QED BY <1>4, <1>10, <2>1, <2>2, <2>3, StreamFrame
<1>14. sentNodes' \in [Streams -> SUBSET SentNode] /\ Resendable'
  <2> DEFINE S == OthersOf(sentNodes[busy], Cut, n, id) \union {SentAfter(total)}
             m0 == SentAfter(total)
  <2>1. OthersOf(sentNodes[busy], Cut, n, id) \subseteq sentNodes[busy]
    BY DEF OthersOf
  <2>2. m0.size + (IF m0.first THEN FragHeader ELSE 0) + MaxHeader + MaxAckId <= MaxPayload
    <3>1. m0.size = copy /\ (m0.first => FragOver = FragHeader) /\ (~m0.first => FragOver = 0)
      <4>1. m0.size = (IF Cut THEN copy ELSE total) /\ m0.first = (FragOver > 0)
        BY DEF SentAfter
      <4>2. m0.size = copy
        BY <1>b, <4>1
      <4> HIDE DEF m0
      <4>3. FragOver > 0 \/ FragOver = 0
        BY <1>6
      <4>4. FragOver > 0 => FragOver = FragHeader
        BY <1>6
      <4> QED BY <4>1, <4>2, <4>3, <4>4, Zenon
    <3> HIDE DEF m0
    <3> QED BY <1>6, <1>a, <3>1 DEF MaxHeader, MaxAckId
  <2>3. sentNodes' = [sentNodes EXCEPT ![busy] = S] /\ S \subseteq SentNode
    BY <1>1, <1>4, <1>8, <2>1
  <2>4. \A s \in Streams : \A m \in sentNodes'[s] : m \in sentNodes[s] \/ m = m0
    BY <1>4, <2>1, <2>3 DEF ClusterInv, Queues
  <2>5. sentNodes' \in [Streams -> SUBSET SentNode]
    BY <2>3 DEF ClusterInv, Queues
  <2> HIDE DEF m0
  <2> QED BY <2>2, <2>4, <2>5 DEF ClusterInv, Queues, Resendable
<1>15. Heads'
  <2>1. busy' # NoStream => busy' = busy /\ node'[busy] = next
    BY <1>4, <1>10 DEF ClusterInv, Queues
  <2> QED BY <1>11, <1>13, <2>1 DEF Heads
<1>16. Follows' /\ nextId' \in [Streams -> Nat]
  <2>1. nextId' \in [Streams -> Nat] /\ nextId'[busy] = id + 1
    BY <1>1, <1>4 DEF ClusterInv, Queues
  <2>2. stream' = busy
    BY <1>1, <1>2, <1>4 DEF ClusterInv, Queues, Follows, MaxAckId
  <2>3. busy' # NoStream => busy' = busy
    BY <1>10
  <2> QED BY <1>1, <2>1, <2>2, <2>3 DEF Follows
<1>17. busy' \in Streams \union {NoStream} /\ overhead' \in 0 .. MaxAckId
  BY <1>2, <1>4, <1>10 DEF MaxAckId
<1> QED BY <1>7, <1>13, <1>14, <1>15, <1>16, <1>17 DEF ClusterInv, Queues

LEMMA WriteKeeps ==
  ASSUME ClusterInv, NEW data \in UnreliableSizes, WriteUnreliable(data)
  PROVE  ClusterInv'
<1> DEFINE size == HeaderBytes(data) + data
           c == IF bytes + size > MaxPayload THEN Emptied ELSE Current
<1>1. data \in Nat /\ MaxPayload \in Nat /\ bytes \in Nat
  BY ClusterAssumption DEF ClusterAssumption, ClusterInv, Laid
<1>2. size \in Nat /\ size <= MaxPayload
  BY <1>1 DEF WriteUnreliable, HeaderBytes, MaxHeader
<1>3. Put(c, size, size, FALSE, FALSE, NoStream, 0) /\ stream' = c.stream /\ ackId' = ackId
  BY DEF WriteUnreliable
<1>4. c.bytes + size <= MaxPayload /\ (c = Current \/ c = Emptied)
  <2> HIDE DEF size
  <2> QED BY <1>1, <1>2 DEF Current, Emptied
<1>5. Laid'
  <2> HIDE DEF size, c
  <2>1. /\ stream' = (IF FALSE THEN NoStream ELSE c.stream)
        /\ ackId' = (IF FALSE THEN 0 + 1 ELSE ackId)
    BY <1>3
  <2> QED BY <1>2, <1>3, <1>4, <2>1, PutKeeps DEF ClusterInv
<1>6. Queues'
  BY DEF ClusterInv, Queues, Heads, Follows, Resendable, Ends, WriteUnreliable
<1> QED BY <1>5, <1>6 DEF ClusterInv

LEMMA BeginKeeps ==
  ASSUME ClusterInv, NEW s \in Streams, NEW size \in Sizes, WriteReliable(s, size)
  PROVE  ClusterInv'
<1> DEFINE n == [NoNode EXCEPT !.size = size]
           w == written[s] + 1
<1>1. /\ size \in Nat \ {0} /\ written[s] \in Nat /\ pieces[s] \in Seq(Piece)
      /\ EndsWith(pieces[s], NoNode, written[s]) /\ Whole(pieces[s])
  BY ClusterAssumption DEF ClusterAssumption, ClusterInv, Queues, Ends, WriteReliable
<1>2. n \in Node /\ n.done = 0 /\ n.size = size /\ ~n.frag /\ n.version = 0
  BY <1>1 DEF NoNode, Node
<1>3. node' = [node EXCEPT ![s] = n] /\ pieces' = [pieces EXCEPT ![s] = pieces[s]]
        /\ written' = [written EXCEPT ![s] = w]
  BY DEF WriteReliable, ClusterInv, Queues
<1> HIDE DEF n
<1>4. HeadOK(n)
  BY <1>1, <1>2 DEF HeadOK
<1>5. EndsWith(pieces[s], n, w)
  <2>1. DOMAIN pieces[s] = 1 .. Len(pieces[s])
    BY <1>1
  <2>2. pieces[s] # <<>> => Len(pieces[s]) \in DOMAIN pieces[s]
    BY <1>1
  <2>3. \A k \in DOMAIN pieces[s] : pieces[s][k].msg \in Nat
    <3>1. \A k \in DOMAIN pieces[s] : pieces[s][k] \in Piece
      BY <1>1
    <3>2. \A p \in Piece : p.msg \in Nat
      BY DEF Piece
    <3> QED BY <3>1, <3>2, Zenon
  <2>4. NoNode.done = 0
    BY DEF NoNode
  <2>5. \A k \in DOMAIN pieces[s] : pieces[s][k].msg <= written[s]
    BY <1>1 DEF EndsWith
  <2>6. \A k \in DOMAIN pieces[s] : pieces[s][k].msg < w
    BY <1>1, <2>3, <2>5
  <2>7. \A k \in DOMAIN pieces[s] : pieces[s][k].msg <= w
    BY <1>1, <2>3, <2>6
  <2>8. pieces[s] # <<>> => LET q == pieces[s][Len(pieces[s])] IN q.from + q.size = q.total
    BY <1>1, <2>4 DEF EndsWith
  <2> QED BY <1>2, <2>2, <2>6, <2>7, <2>8 DEF EndsWith
<1>6. /\ node' \in [Streams -> Node] /\ pieces' \in [Streams -> Seq(Piece)]
      /\ written' \in [Streams -> Nat] /\ Ends'
      /\ \A t \in Streams : HeadOK(node'[t])
  <2>1. w \in Nat /\ Queues
    BY <1>1 DEF ClusterInv
  <2> HIDE DEF w
  <2> QED BY <1>1, <1>2, <1>3, <1>4, <1>5, <2>1, StreamFrame
<1>7. Laid'
  BY DEF ClusterInv, Laid, WriteReliable, clusterVars
<1>8. Queues'
  BY <1>6 DEF WriteReliable, ClusterInv, Queues, Heads, Follows, Resendable
<1> QED BY <1>7, <1>8 DEF ClusterInv

LEMMA TakeKeeps ==
  ASSUME ClusterInv, NEW s \in Streams, WriteSendQueueNode(s)
  PROVE  ClusterInv'
<1>1. Laid'
  BY DEF ClusterInv, Laid, WriteSendQueueNode, clusterVars
<1>2. overhead' \in 0 .. MaxAckId /\ (overhead' = 0 => stream = s /\ ackId = nextId[s])
  BY ClusterAssumption DEF ClusterAssumption, WriteSendQueueNode, AckIdOverhead, MaxAckId
<1>3. Queues'
  BY <1>2 DEF ClusterInv, Queues, Heads, Follows, Resendable, Ends, WriteSendQueueNode, clusterVars
<1> QED BY <1>1, <1>3 DEF ClusterInv

LEMMA SendKeeps ==
  ASSUME ClusterInv, QueueWriteDatagram \/ FlushWrites
  PROVE  ClusterInv'
<1>1. Laid'
  BY ClearKeeps DEF ClusterInv, QueueWriteDatagram, FlushWrites
<1>2. CASE QueueWriteDatagram
  <2>1. overhead' \in 0 .. MaxAckId /\ (busy' # NoStream => overhead' # 0 /\ busy' = busy)
    <3>1. AckBytes \subseteq 1 .. 3
      BY ClusterAssumption DEF ClusterAssumption, MaxAckId
    <3>2. (overhead' \in AckBytes /\ busy' = busy) \/ (busy' = NoStream /\ overhead' = 0)
      BY <1>2 DEF QueueWriteDatagram
    <3>3. CASE overhead' \in AckBytes /\ busy' = busy
      BY <3>1, <3>3 DEF MaxAckId
    <3>4. CASE busy' = NoStream /\ overhead' = 0
      BY <3>4 DEF MaxAckId
    <3> QED BY <3>2, <3>3, <3>4
  <2>2. busy' \in Streams \union {NoStream}
    BY <1>2 DEF QueueWriteDatagram, ClusterInv, Queues
  <2> QED BY <1>1, <1>2, <2>1, <2>2 DEF ClusterInv, Queues, Heads, Follows, Resendable, Ends, QueueWriteDatagram
<1>3. CASE FlushWrites
  BY <1>1, <1>3 DEF ClusterInv, Queues, Heads, Follows, Resendable, Ends, FlushWrites
<1> QED BY <1>2, <1>3

LEMMA RetransmitKeeps ==
  ASSUME ClusterSizes, ClusterInv, NEW s \in Streams, NEW m \in sentNodes[s], Retransmit(s, m)
  PROVE  ClusterInv'
<1> DEFINE data   == m.size + (IF m.first THEN FragHeader ELSE 0)
           over   == IF stream = s /\ ackId = m.id THEN 0 ELSE MaxAckId
           needed == HeaderBytes(data) + over + data
           full   == bytes + needed > MaxPayload
           c      == IF full THEN Emptied ELSE Current
           size   == IF full THEN needed + MaxAckId - over ELSE needed
           field  == full \/ over > 0
           cut    == IF data <= BloMask THEN 1 ELSE 0
<1>1. /\ busy = NoStream /\ m.size \in ResentSizes
      /\ Put(c, size, size - cut, TRUE, field, s, m.id)
      /\ stream' = IF field THEN s ELSE stream
      /\ ackId' = m.id + 1
      /\ UNCHANGED <<nextId, node, sentNodes, busy, overhead, written, pieces>>
  BY DEF Retransmit
<1>2. m \in SentNode /\ m.size \in Nat /\ m.id \in Nat /\ m.first \in BOOLEAN /\ s # NoStream
  BY ClusterAssumption DEF ClusterAssumption, ClusterInv, Queues, SentNode
<1>3. /\ bytes \in Nat /\ bytes <= MaxPayload /\ MaxPayload \in Nat /\ FragHeader \in Nat /\ BloMask \in Nat
  BY ClusterAssumption DEF ClusterAssumption, ClusterInv, Laid
<1>4. data \in Nat /\ data > BloMask /\ data + 5 <= MaxPayload
  <2>1. m.size > BloMask
    BY <1>1 DEF ClusterSizes
  <2>2. m.size + (IF m.first THEN FragHeader ELSE 0) + 2 + 3 <= MaxPayload
    BY DEF ClusterInv, Queues, Resendable, MaxHeader, MaxAckId
  <2> QED BY <1>2, <1>3, <2>1, <2>2
<1> HIDE DEF data
<1>5. over \in {0, 3} /\ cut = 0 /\ HeaderBytes(data) = 2
  BY <1>3, <1>4 DEF MaxAckId, HeaderBytes, MaxHeader
<1> HIDE DEF over, cut
<1>6. needed \in Nat /\ needed = 2 + over + data
  BY <1>4, <1>5
<1> HIDE DEF needed
<1>7. size \in Nat /\ size - cut = size /\ c.bytes + size <= MaxPayload
  <2>1. CASE full
    BY <1>3, <1>4, <1>5, <1>6, <2>1 DEF Emptied, MaxAckId
  <2>2. CASE ~full
    BY <1>3, <1>4, <1>5, <1>6, <2>2 DEF Current
  <2> QED BY <2>1, <2>2
<1>8. PICK f \in BOOLEAN : f = field
  <2>1. field \in BOOLEAN
    OBVIOUS
  <2> QED BY <2>1, Zenon
<1>9. ~f => c.stream = s /\ ackId = m.id /\ s # NoStream
  <2> SUFFICES ASSUME ~f PROVE c.stream = s /\ ackId = m.id /\ s # NoStream
    OBVIOUS
  <2>1. ~full /\ ~(over > 0)
    BY <1>8
  <2>2. over = 0
    BY <1>5, <2>1
  <2>3. stream = s /\ ackId = m.id
    BY <2>2 DEF over, MaxAckId
  <2>4. c.stream = stream
    BY <2>1 DEF Current
  <2> QED BY <1>2, <2>3, <2>4
<1>10. stream' = IF f THEN s ELSE c.stream
  BY <1>1, <1>8 DEF Current
<1>11. c = Current \/ c = Emptied
  OBVIOUS
<1>12. Put(c, size, size, TRUE, f, s, m.id)
  BY <1>1, <1>7, <1>8
<1>13. Laid'
  <2> HIDE DEF c, size, field, full
  <2>1. /\ ackId' = (IF TRUE THEN m.id + 1 ELSE ackId)
        /\ TRUE /\ ~f => c.stream = s /\ ackId = m.id /\ s # NoStream
        /\ Laid /\ s \in Streams \union {NoStream}
    BY <1>1, <1>9 DEF ClusterInv
  <2> QED BY <1>2, <1>7, <1>8, <1>10, <1>11, <1>12, <2>1, PutKeeps
<1>14. Queues'
  BY <1>1 DEF ClusterInv, Queues, Heads, Follows, Resendable, Ends
<1> QED BY <1>13, <1>14 DEF ClusterInv

LEMMA FreeKeeps ==
  ASSUME ClusterInv, NEW s \in Streams, NEW m \in sentNodes[s], FreeSentNode(s, m)
  PROVE  ClusterInv'
<1>1. Laid'
  BY DEF ClusterInv, Laid, FreeSentNode, clusterVars
<1> DEFINE n == node[s]
<1>2. PICK x \in Node : /\ node' = [node EXCEPT ![s] = x]
                        /\ x.size = n.size /\ x.done = n.done /\ x.frag = n.frag
                        /\ x.version = n.version /\ (x = NoNode <=> n = NoNode)
  <2>1. n \in Node
    BY DEF ClusterInv, Queues
  <2>2. CASE node' = node
    BY <2>1, <2>2 DEF ClusterInv, Queues
  <2>3. CASE node' = [node EXCEPT ![s].count = @ - 1] /\ n.count > 0
    <3> DEFINE y == [n EXCEPT !.count = n.count - 1]
    <3>1. y \in Node /\ y.size = n.size /\ y.done = n.done /\ y.frag = n.frag
            /\ y.version = n.version
      BY <2>1, <2>3 DEF Node
    <3>2. n # NoNode
      BY <2>3 DEF NoNode
    <3>3. HeadOK(n)
      BY DEF ClusterInv, Queues, Heads
    <3>4. n.done < n.size /\ NoNode.size = 0 /\ n.done \in Nat /\ n.size \in Nat
      BY <2>1, <3>2, <3>3 DEF HeadOK, NoNode, Node
    <3>5. node' = [node EXCEPT ![s] = y]
      BY <2>3 DEF ClusterInv, Queues
    <3> HIDE DEF y
    <3>6. y # NoNode
      BY <3>1, <3>4
    <3> QED BY <3>1, <3>2, <3>5, <3>6
  <2> QED BY <2>2, <2>3 DEF FreeSentNode
<1>3. HeadOK(x) /\ Whole(pieces[s]) /\ EndsWith(pieces[s], x, written[s])
  <2>1. HeadOK(n) /\ Whole(pieces[s]) /\ EndsWith(pieces[s], n, written[s])
    BY DEF ClusterInv, Queues, Heads, Ends
  <2> HIDE DEF n
  <2> QED BY <1>2, <2>1 DEF HeadOK, EndsWith
<1>4. /\ node' \in [Streams -> Node] /\ pieces' \in [Streams -> Seq(Piece)]
      /\ written' \in [Streams -> Nat] /\ Ends'
      /\ \A t \in Streams : HeadOK(node'[t])
  <2>1. /\ pieces' = [pieces EXCEPT ![s] = pieces[s]] /\ pieces[s] \in Seq(Piece)
        /\ written' = [written EXCEPT ![s] = written[s]] /\ written[s] \in Nat /\ Queues
    BY DEF FreeSentNode, ClusterInv, Queues
  <2> QED BY <1>2, <1>3, <2>1, StreamFrame
<1>5. sentNodes' \in [Streams -> SUBSET SentNode] /\ Resendable'
  <2>1. \A t \in Streams : sentNodes'[t] \subseteq sentNodes[t]
    BY DEF FreeSentNode, ClusterInv, Queues
  <2>2. sentNodes' \in [Streams -> SUBSET SentNode]
    BY DEF FreeSentNode, ClusterInv, Queues
  <2> QED BY <2>1, <2>2 DEF ClusterInv, Queues, Resendable
<1>6. Queues'
  BY <1>4, <1>5 DEF FreeSentNode, ClusterInv, Queues, Heads, Follows
<1> QED BY <1>1, <1>6 DEF ClusterInv

LEMMA ClusterInvariant ==
  ASSUME ClusterSizes
  PROVE  ClusterSpec => []ClusterInv
<1>1. ClusterInit => ClusterInv
  <2> SUFFICES ASSUME ClusterInit PROVE ClusterInv
    OBVIOUS
  <2>1. Laid
    BY EmptyLaid, ClusterAssumption DEF ClusterInit, Laid, ClusterAssumption
  <2>2. NoNode \in Node /\ NoNode.done = 0 /\ <<>> \in Seq(Piece)
    BY DEF NoNode, Node
  <2>3. Whole(<<>>) /\ EndsWith(<<>>, NoNode, 0)
    BY <2>2 DEF Whole, EndsWith
  <2>4. HeadOK(NoNode)
    BY DEF HeadOK
  <2>5. /\ nextId \in [Streams -> Nat] /\ written \in [Streams -> Nat]
        /\ busy = NoStream /\ overhead \in 0 .. MaxAckId
        /\ node \in [Streams -> Node] /\ sentNodes \in [Streams -> SUBSET SentNode]
        /\ pieces \in [Streams -> Seq(Piece)]
    BY <2>2 DEF ClusterInit, MaxAckId
  <2>6. Heads /\ Follows /\ Resendable /\ Ends
    BY <2>3, <2>4 DEF ClusterInit, Heads, Follows, Resendable, Ends
  <2> QED BY <2>1, <2>5, <2>6 DEF ClusterInv, Queues
<1>2. ClusterInv /\ [ClusterNext]_sendVars => ClusterInv'
  <2> SUFFICES ASSUME ClusterInv, [ClusterNext]_sendVars PROVE ClusterInv'
    OBVIOUS
  <2>1. CASE UNCHANGED sendVars
    BY <2>1 DEF sendVars, clusterVars, ClusterInv, Laid, Queues, Heads, Follows, Resendable, Ends
  <2> QED BY <2>1, WriteKeeps, BeginKeeps, TakeKeeps, SendKeeps, AppendKeeps, RetransmitKeeps,
             FreeKeeps DEF ClusterNext
<1> QED BY <1>1, <1>2, PTL DEF ClusterSpec

(* What the writer packed the reader takes apart again, within one datagram,
   for any streams, sizes, header lengths and payload limit. *)
THEOREM ClusterCorrect ==
  ASSUME ClusterSizes
  PROVE  ClusterSpec => []Framing
<1>1. ClusterInv => Framing
  <2> SUFFICES ASSUME ClusterInv PROVE Framing
    OBVIOUS
  <2>1. ClusterTypeOK
    BY DEF ClusterInv, Laid, Queues, Heads, HeadOK, ClusterTypeOK
  <2>2. ClusterParses
    BY DEF ClusterInv, Laid, ParsesTo, ClusterParses
  <2>3. IdsParse
    BY DEF ClusterInv, Laid, IdsOK, CountedFrom, After, IdsParse
  <2>4. FitsDatagram
    BY DEF ClusterInv, Laid, FitsDatagram
  <2> QED BY <2>1, <2>2, <2>3, <2>4 DEF Framing
<1> QED BY <1>1, ClusterInvariant, PTL

(* A message goes out whole: in one piece, or in fragments that lie end to end
   and are cut from the same bytes, whenever the bandwidth runs out and
   whichever fragments are acknowledged meanwhile. *)
THEOREM PiecesCorrect ==
  ASSUME ClusterSizes
  PROVE  ClusterSpec => []PiecesWhole
<1>1. ClusterInv => PiecesWhole
  BY DEF ClusterInv, Queues, Ends, Whole, PiecesWhole
<1> QED BY <1>1, ClusterInvariant, PTL


-----------------------------------------------------------------------------
(* Delivery *)

Entry == [stream : FragStreams, msg : Nat, frag : BOOLEAN, buf : Int]
Handed == [stream : FragStreams, msg : Nat, frag : BOOLEAN, live : BOOLEAN]
Coming == [msg : Nat, total : Nat, left : Nat, zip : BOOLEAN]
Fragment == [buffer : Nat, length : Nat, offset : Nat]

DeliveryTypes ==
  /\ batch \in BOOLEAN /\ allocs \in Nat
  /\ coming \in [FragStreams -> Coming] /\ frag \in [FragStreams -> Fragment]
  /\ queue \in Seq(Entry) /\ Len(queue) < Depth /\ handed \in Seq(Handed)
  /\ free \subseteq 1 .. allocs /\ heap \subseteq 1 .. allocs
  /\ count \in [FragStreams -> 0 .. MaxMessages] /\ failed \subseteq FragStreams
  /\ ~batch => queue = <<>>

(* What was handed over and, after it, what is queued. *)
Logged == Len(handed) + Len(queue)
StreamAt(k) == IF k <= Len(handed) THEN handed[k].stream ELSE queue[k - Len(handed)].stream
MsgAt(k) == IF k <= Len(handed) THEN handed[k].msg ELSE queue[k - Len(handed)].msg

(* It is in order, and where no message was given up also without repetition;
   the message that is coming in is the last of its stream. *)
InTurn ==
  /\ \A s \in FragStreams : coming[s] # NoMsg =>
       coming[s].msg = count[s] /\ coming[s].left \in 1 .. coming[s].total
  /\ \A k \in 1 .. Logged :
       /\ MsgAt(k) <= count[StreamAt(k)]
       /\ StreamAt(k) \notin failed /\ coming[StreamAt(k)] # NoMsg
            => MsgAt(k) < count[StreamAt(k)]
  /\ \A j, k \in 1 .. Logged : j < k /\ StreamAt(j) = StreamAt(k) =>
       /\ MsgAt(j) <= MsgAt(k)
       /\ StreamAt(j) \notin failed => MsgAt(j) < MsgAt(k)
  /\ \A m \in whole : m.stream \notin failed =>
       \E k \in 1 .. Logged : StreamAt(k) = m.stream /\ MsgAt(k) = m.msg

(* _fragments of a stream where no message was given up is what came in. *)
Reassembled(s) ==
    LET c == coming[s] f == frag[s] IN
    IF c = NoMsg \/ c.left = c.total
      THEN f.length = 0 /\ f.buffer = None /\ (c # NoMsg => f.offset = 0)
      ELSE f.length = c.total /\ f.offset = c.total - c.left

Reassembles == \A s \in FragStreams \ failed : Reassembled(s)

(* A buffer belongs to one stream, or is on the free list until the messages in
   it are handed over. *)
Buffers ==
  /\ \A s \in FragStreams : /\ frag[s].buffer \in 0 .. allocs
                            /\ frag[s].length > 0 => frag[s].buffer \in heap \ free
                            /\ frag[s].offset = 0 => frag[s].length = 0
  /\ \A s, t \in FragStreams :
       frag[s].buffer = frag[t].buffer /\ frag[s].buffer # None => s = t
  /\ \A k \in 1 .. Len(queue) : queue[k].frag =>
       /\ queue[k].buf \in heap
       /\ \A s \in FragStreams : frag[s].buffer # queue[k].buf
  /\ \A k \in 1 .. Len(handed) : handed[k].frag => handed[k].live

(* Where no message was given up, nothing else is allocated, and every queued
   message puts at most two buffers on the free list. *)
Accounted ==
  failed = {} =>
    /\ Cardinality(free) <= 2 * Len(queue)
    /\ \A b \in heap \ free : \E s \in FragStreams : frag[s].buffer = b

DeliveryInv == DeliveryTypes /\ InTurn /\ Reassembles /\ Buffers /\ Accounted

-----------------------------------------------------------------------------
(* OnMessages adds the queue to what was handed over. *)
LEMMA OnMessagesGrows ==
  ASSUME handed \in Seq(Handed), NEW q \in Seq(Entry), NEW live
  PROVE  /\ OnMessages(q, live) \in Seq(Handed)
         /\ Len(OnMessages(q, live)) = Len(handed) + Len(q)
         /\ \A k \in 1 .. Len(handed) : OnMessages(q, live)[k] = handed[k]
         /\ \A k \in 1 .. Len(q) :
              /\ OnMessages(q, live)[Len(handed) + k].stream = q[k].stream
              /\ OnMessages(q, live)[Len(handed) + k].msg = q[k].msg
              /\ OnMessages(q, live)[Len(handed) + k].frag = q[k].frag
              /\ q[k].buf \in live => OnMessages(q, live)[Len(handed) + k].live
<1> DEFINE r(k) == [stream |-> q[k].stream, msg |-> q[k].msg, frag |-> q[k].frag,
                    live |-> q[k].buf = Datagram \/ q[k].buf \in live]
           t == [k \in DOMAIN q |-> r(k)]
<1>1. \A k \in 1 .. Len(q) : r(k) \in Handed
  <2> SUFFICES ASSUME NEW k \in 1 .. Len(q) PROVE r(k) \in Handed
    OBVIOUS
  <2>1. q[k] \in Entry
    OBVIOUS
  <2>2. (q[k].buf = Datagram \/ q[k].buf \in live) \in BOOLEAN
    OBVIOUS
  <2> QED BY <2>1, <2>2 DEF Entry, Handed
<1>2. Len(q) \in Nat /\ DOMAIN q = 1 .. Len(q)
  OBVIOUS
<1>3. t \in Seq(Handed) /\ Len(t) = Len(q) /\ \A k \in 1 .. Len(q) : t[k] = r(k)
  <2> HIDE DEF r
  <2>1. t \in [1 .. Len(q) -> Handed]
    BY <1>1, <1>2
  <2>2. t \in Seq(Handed) /\ Len(t) = Len(q)
    BY <1>2, <2>1, SeqDef, LenProperties
  <2> QED BY <1>2, <2>2
<1>4. OnMessages(q, live) = handed \o t
  BY DEF OnMessages
<1>5. \A k \in 1 .. Len(q) : /\ r(k).stream = q[k].stream /\ r(k).msg = q[k].msg
                             /\ r(k).frag = q[k].frag /\ (q[k].buf \in live => r(k).live)
  OBVIOUS
<1> HIDE DEF t, r
<1>6. /\ handed \o t \in Seq(Handed) /\ Len(handed \o t) = Len(handed) + Len(t)
      /\ \A k \in 1 .. Len(handed) : (handed \o t)[k] = handed[k]
      /\ \A k \in 1 .. Len(t) : (handed \o t)[Len(handed) + k] = t[k]
  <2> DEFINE u == handed \o t
  <2>1. /\ u \in Seq(Handed) /\ Len(u) = Len(handed) + Len(t)
        /\ \A i \in 1 .. Len(handed) + Len(t) :
             u[i] = IF i <= Len(handed) THEN handed[i] ELSE t[i - Len(handed)]
    BY <1>3, ConcatProperties
  <2>2. Len(handed) \in Nat /\ Len(t) \in Nat
    BY <1>3
  <2> HIDE DEF u
  <2>3. \A k \in 1 .. Len(handed) : u[k] = handed[k]
    BY <2>1, <2>2
  <2>4. ASSUME NEW k \in 1 .. Len(t) PROVE u[Len(handed) + k] = t[k]
    <3>1. /\ Len(handed) + k \in 1 .. Len(handed) + Len(t) /\ ~(Len(handed) + k <= Len(handed))
          /\ (Len(handed) + k) - Len(handed) = k
      BY <2>2
    <3> QED BY <2>1, <3>1
  <2> QED BY <2>1, <2>3, <2>4 DEF u
<1> QED BY <1>3, <1>4, <1>5, <1>6

(* Log: a message that is queued comes at its end, whether or not the queue is
   handed over then. *)
LEMMA LogGrows ==
  ASSUME DeliveryTypes, NEW e \in Entry, NEW fr, NEW live, QueueDelivery(e, fr, live),
         NEW N, N = Logged
  PROVE  /\ queue' \in Seq(Entry) /\ Len(queue') < Depth /\ handed' \in Seq(Handed)
         /\ N \in Nat /\ Logged' = N + 1
         /\ \A k \in 1 .. N : StreamAt(k)' = StreamAt(k) /\ MsgAt(k)' = MsgAt(k)
         /\ StreamAt(N + 1)' = e.stream /\ MsgAt(N + 1)' = e.msg
<1> DEFINE q == Append(queue, e)
           H == Len(handed)
           Q == Len(queue)
<1>1. /\ handed \in Seq(Handed) /\ queue \in Seq(Entry) /\ H \in Nat /\ Q \in Nat /\ N = H + Q
      /\ q \in Seq(Entry) /\ Len(q) = Q + 1 /\ q[Q + 1] = e
      /\ \A k \in 1 .. Q : q[k] = queue[k]
  BY DEF DeliveryTypes, Logged
<1>d. Depth \in Nat \ {0}
  BY DeliveryAssumption DEF DeliveryAssumption
<1> HIDE DEF q
<1>2. CASE Q + 1 < Depth
  <2>1. queue' = q /\ handed' = handed
    BY <1>2 DEF QueueDelivery, q
  <2>2. Len(handed') = H /\ Len(queue') = Q + 1 /\ Logged' = N + 1
    <3>1. Len(handed') = H /\ Len(queue') = Q + 1
      BY <1>1, <2>1
    <3> HIDE DEF H, Q
    <3>2. Logged' = H + (Q + 1)
      BY <3>1 DEF Logged
    <3> QED BY <1>1, <3>1, <3>2
  <2> HIDE DEF H, Q
  <2>3. \A k \in 1 .. N : StreamAt(k)' = StreamAt(k) /\ MsgAt(k)' = MsgAt(k)
    <3> SUFFICES ASSUME NEW k \in 1 .. N
                 PROVE  StreamAt(k)' = StreamAt(k) /\ MsgAt(k)' = MsgAt(k)
      OBVIOUS
    <3>1. CASE k <= H
      BY <2>1, <3>1 DEF StreamAt, MsgAt, H
    <3>2. CASE ~(k <= H)
      <4>1. k - H \in 1 .. Q
        BY <1>1, <3>2
      <4>2. q[k - H] = queue[k - H]
        BY <1>1, <4>1
      <4> QED BY <2>1, <3>2, <4>2 DEF StreamAt, MsgAt, H
    <3> QED BY <3>1, <3>2
  <2>4. StreamAt(N + 1)' = e.stream /\ MsgAt(N + 1)' = e.msg
    <3>1. ~(N + 1 <= H) /\ (N + 1) - H = Q + 1
      BY <1>1
    <3>2. q[(N + 1) - H] = e
      BY <1>1, <3>1
    <3> QED BY <2>1, <3>1, <3>2 DEF StreamAt, MsgAt, H
  <2> QED BY <1>1, <1>2, <2>1, <2>2, <2>3, <2>4
<1>3. CASE ~(Q + 1 < Depth)
  <2>1. queue' = <<>> /\ handed' = OnMessages(q, live \union {e.buf})
    BY <1>3 DEF QueueDelivery, HandOver, q
  <2>2. /\ handed' \in Seq(Handed) /\ Len(handed') = H + (Q + 1)
        /\ \A k \in 1 .. H : handed'[k] = handed[k]
        /\ \A k \in 1 .. Q + 1 : handed'[H + k].stream = q[k].stream /\ handed'[H + k].msg = q[k].msg
    BY <1>1, <2>1, OnMessagesGrows
  <2>3. queue' \in Seq(Entry) /\ Len(queue') = 0 /\ 0 < Depth
    BY <1>d, <2>1
  <2>4. Logged' = N + 1 /\ Len(handed') = N + 1
    BY <1>1, <2>2, <2>3 DEF Logged
  <2> HIDE DEF H, Q
  <2>5. \A k \in 1 .. N : StreamAt(k)' = StreamAt(k) /\ MsgAt(k)' = MsgAt(k)
    <3> SUFFICES ASSUME NEW k \in 1 .. N
                 PROVE  StreamAt(k)' = StreamAt(k) /\ MsgAt(k)' = MsgAt(k)
      OBVIOUS
    <3>0. k <= Len(handed')
      BY <1>1, <2>4
    <3>1. CASE k <= H
      <4>1. handed'[k] = handed[k]
        BY <1>1, <2>2, <3>1
      <4> QED BY <3>0, <3>1, <4>1 DEF StreamAt, MsgAt, H
    <3>2. CASE ~(k <= H)
      <4>1. k - H \in 1 .. Q /\ k - H \in 1 .. Q + 1 /\ H + (k - H) = k
        BY <1>1, <3>2
      <4>2. q[k - H] = queue[k - H] /\ handed'[k].stream = q[k - H].stream
              /\ handed'[k].msg = q[k - H].msg
        BY <1>1, <2>2, <4>1
      <4> QED BY <3>0, <3>2, <4>2 DEF StreamAt, MsgAt, H
    <3> QED BY <3>1, <3>2
  <2>6. StreamAt(N + 1)' = e.stream /\ MsgAt(N + 1)' = e.msg
    <3>1. N + 1 <= Len(handed') /\ Q + 1 \in 1 .. Q + 1 /\ N + 1 = H + (Q + 1)
      BY <1>1, <2>4
    <3>2. handed'[N + 1].stream = e.stream /\ handed'[N + 1].msg = e.msg
      BY <1>1, <2>2, <3>1
    <3> QED BY <3>1, <3>2 DEF StreamAt, MsgAt
  <2> QED BY <1>1, <2>2, <2>3, <2>4, <2>5, <2>6
<1> QED BY <1>2, <1>3

(* The end of a batch moves what is queued and changes nothing else. *)
LEMMA LogMoves ==
  ASSUME DeliveryTypes, DeliverQueued, NEW N, N = Logged
  PROVE  /\ queue' = <<>> /\ handed' \in Seq(Handed) /\ Logged' = N
         /\ \A k \in 1 .. N : StreamAt(k)' = StreamAt(k) /\ MsgAt(k)' = MsgAt(k)
<1> DEFINE H == Len(handed)
           Q == Len(queue)
<1>1. /\ handed \in Seq(Handed) /\ queue \in Seq(Entry) /\ H \in Nat /\ Q \in Nat /\ N = H + Q
  BY DEF DeliveryTypes, Logged
<1>2. CASE queue = <<>>
  BY <1>1, <1>2 DEF DeliverQueued, Logged, StreamAt, MsgAt
<1>3. CASE queue # <<>>
  <2>1. queue' = <<>> /\ handed' = OnMessages(queue, heap)
    BY <1>3 DEF DeliverQueued
  <2>2. /\ handed' \in Seq(Handed) /\ Len(handed') = H + Q
        /\ \A k \in 1 .. H : handed'[k] = handed[k]
        /\ \A k \in 1 .. Q : handed'[H + k].stream = queue[k].stream /\ handed'[H + k].msg = queue[k].msg
    BY <1>1, <2>1, OnMessagesGrows
  <2>3. Logged' = N /\ Len(handed') = N
    BY <1>1, <2>1, <2>2 DEF Logged
  <2> HIDE DEF H, Q
  <2>5. \A k \in 1 .. N : StreamAt(k)' = StreamAt(k) /\ MsgAt(k)' = MsgAt(k)
    <3> SUFFICES ASSUME NEW k \in 1 .. N
                 PROVE  StreamAt(k)' = StreamAt(k) /\ MsgAt(k)' = MsgAt(k)
      OBVIOUS
    <3>0. k <= Len(handed')
      BY <1>1, <2>3
    <3>1. CASE k <= H
      <4>1. handed'[k] = handed[k]
        BY <1>1, <2>2, <3>1
      <4> QED BY <3>0, <3>1, <4>1 DEF StreamAt, MsgAt, H
    <3>2. CASE ~(k <= H)
      <4>1. k - H \in 1 .. Q /\ H + (k - H) = k
        BY <1>1, <3>2
      <4>2. handed'[k].stream = queue[k - H].stream /\ handed'[k].msg = queue[k - H].msg
        BY <1>1, <2>2, <4>1
      <4> QED BY <3>0, <3>2, <4>2 DEF StreamAt, MsgAt, H
    <3> QED BY <3>1, <3>2
  <2> QED BY <2>1, <2>2, <2>3, <2>5
<1> QED BY <1>2, <1>3

-----------------------------------------------------------------------------
(* The order of delivery *)

(* Steps that queue nothing. *)
LEMMA TurnKept ==
  ASSUME InTurn, NEW N, N = Logged, N \in Nat, Logged' = N,
         \A k \in 1 .. N : StreamAt(k)' = StreamAt(k) /\ MsgAt(k)' = MsgAt(k),
         \A k \in 1 .. N : StreamAt(k) \in FragStreams /\ MsgAt(k) \in Nat,
         \A s \in FragStreams : count[s] \in Nat /\ count'[s] \in Nat /\ count[s] <= count'[s],
         failed \subseteq failed',
         \A s \in FragStreams : coming'[s] # NoMsg =>
            coming'[s].msg = count'[s] /\ coming'[s].left \in 1 .. coming'[s].total,
         \A s \in FragStreams : s \notin failed' /\ coming'[s] # NoMsg =>
            coming[s] # NoMsg \/ count[s] < count'[s],
         \A m \in whole' : m \in whole \/ m.stream \in failed'
  PROVE  InTurn'
<1>1. ASSUME NEW k \in 1 .. N
      PROVE  /\ MsgAt(k) <= count'[StreamAt(k)]
             /\ StreamAt(k) \notin failed' /\ coming'[StreamAt(k)] # NoMsg
                  => MsgAt(k) < count'[StreamAt(k)]
  <2>1. /\ MsgAt(k) <= count[StreamAt(k)]
        /\ StreamAt(k) \notin failed /\ coming[StreamAt(k)] # NoMsg
             => MsgAt(k) < count[StreamAt(k)]
    BY DEF InTurn
  <2> QED BY <2>1
<1>2. \A j, k \in 1 .. N : j < k /\ StreamAt(j) = StreamAt(k) =>
        /\ MsgAt(j) <= MsgAt(k)
        /\ StreamAt(j) \notin failed' => MsgAt(j) < MsgAt(k)
  BY DEF InTurn
<1>3. \A m \in whole' : m.stream \notin failed' =>
        \E k \in 1 .. N : StreamAt(k) = m.stream /\ MsgAt(k) = m.msg
  BY DEF InTurn
<1> QED BY <1>1, <1>2, <1>3 DEF InTurn

(* Steps that queue message msg of stream s. *)
LEMMA TurnTaken ==
  ASSUME InTurn, NEW N, N = Logged, N \in Nat, Logged' = N + 1,
         NEW s \in FragStreams, NEW msg \in Nat,
         \A k \in 1 .. N : StreamAt(k)' = StreamAt(k) /\ MsgAt(k)' = MsgAt(k),
         StreamAt(N + 1)' = s, MsgAt(N + 1)' = msg,
         \A k \in 1 .. N : StreamAt(k) \in FragStreams /\ MsgAt(k) \in Nat,
         \A t \in FragStreams : count[t] \in Nat /\ count'[t] \in Nat /\ count[t] <= count'[t],
         failed' = failed,
         \A t \in FragStreams : coming'[t] # NoMsg =>
            coming'[t].msg = count'[t] /\ coming'[t].left \in 1 .. coming'[t].total,
         \A t \in FragStreams : t \notin failed /\ coming'[t] # NoMsg => coming[t] # NoMsg /\ t # s,
         count[s] <= msg, msg <= count'[s],
         s \notin failed => count[s] < msg \/ coming[s] # NoMsg,
         \A m \in whole' : m \in whole \/ (m.stream = s /\ m.msg = msg)
  PROVE  InTurn'
<1>1. \A k \in 1 .. N :
        /\ MsgAt(k) <= count[StreamAt(k)]
        /\ StreamAt(k) \notin failed /\ coming[StreamAt(k)] # NoMsg
             => MsgAt(k) < count[StreamAt(k)]
  BY DEF InTurn
<1>2. ASSUME NEW k \in 1 .. N + 1
      PROVE  /\ MsgAt(k)' <= count'[StreamAt(k)']
             /\ StreamAt(k)' \notin failed' /\ coming'[StreamAt(k)'] # NoMsg
                  => MsgAt(k)' < count'[StreamAt(k)']
  <2>1. CASE k = N + 1
    BY <2>1
  <2>2. CASE k \in 1 .. N
    BY <1>1, <2>2
  <2> QED BY <2>1, <2>2
<1>3. ASSUME NEW j \in 1 .. N + 1, NEW k \in 1 .. N + 1, j < k, StreamAt(j)' = StreamAt(k)'
      PROVE  /\ MsgAt(j)' <= MsgAt(k)'
             /\ StreamAt(j)' \notin failed' => MsgAt(j)' < MsgAt(k)'
  <2>0. j \in 1 .. N
    BY <1>3
  <2>1. CASE k = N + 1
    <3>1. StreamAt(j) = s /\ MsgAt(j) <= count[s] /\ MsgAt(j) \in Nat
      BY <1>1, <1>3, <2>0, <2>1
    <3>2. s \notin failed => MsgAt(j) < msg
      BY <1>1, <2>0, <3>1
    <3> QED BY <2>0, <2>1, <3>1, <3>2
  <2>2. CASE k \in 1 .. N
    BY <1>3, <2>0, <2>2 DEF InTurn
  <2> QED BY <2>1, <2>2
<1>4. ASSUME NEW m \in whole', m.stream \notin failed'
      PROVE  \E k \in 1 .. N + 1 : StreamAt(k)' = m.stream /\ MsgAt(k)' = m.msg
  <2>1. CASE m.stream = s /\ m.msg = msg
    BY <2>1
  <2>2. CASE m \in whole
    <3>1. PICK k \in 1 .. N : StreamAt(k) = m.stream /\ MsgAt(k) = m.msg
      BY <1>4, <2>2 DEF InTurn
    <3> QED BY <3>1
  <2> QED BY <2>1, <2>2
<1> QED BY <1>2, <1>3, <1>4 DEF InTurn

LEMMA LogTypes ==
  ASSUME DeliveryTypes
  PROVE  /\ Logged \in Nat
         /\ \A k \in 1 .. Logged : StreamAt(k) \in FragStreams /\ MsgAt(k) \in Nat
<1>1. handed \in Seq(Handed) /\ queue \in Seq(Entry) /\ Len(handed) \in Nat /\ Len(queue) \in Nat
  BY DEF DeliveryTypes
<1>2. ASSUME NEW k \in 1 .. Logged PROVE StreamAt(k) \in FragStreams /\ MsgAt(k) \in Nat
  <2>1. CASE k <= Len(handed)
    <3>1. handed[k] \in Handed
      BY <1>1, <2>1 DEF Logged
    <3> QED BY <2>1, <3>1 DEF StreamAt, MsgAt, Handed
  <2>2. CASE ~(k <= Len(handed))
    <3>1. k - Len(handed) \in 1 .. Len(queue)
      BY <1>1, <2>2 DEF Logged
    <3>2. queue[k - Len(handed)] \in Entry
      BY <1>1, <3>1
    <3> QED BY <2>2, <3>2 DEF StreamAt, MsgAt, Entry
  <2> QED BY <2>1, <2>2
<1> QED BY <1>1, <1>2 DEF Logged

-----------------------------------------------------------------------------
(* The buffers *)

LEMMA QueueBuffers ==
  ASSUME DeliveryTypes, Buffers, NEW e \in Entry, NEW fr, NEW live, QueueDelivery(e, fr, live),
         heap \subseteq live, e.frag => e.buf \in live
  PROVE  /\ \A k \in 1 .. Len(handed') : handed'[k].frag => handed'[k].live
         /\ \A k \in 1 .. Len(queue') : queue'[k].frag =>
              /\ queue'[k].buf \in heap'
              /\ \/ \E j \in 1 .. Len(queue) : queue[j].frag /\ queue[j].buf = queue'[k].buf
                 \/ e.frag /\ queue'[k].buf = e.buf
         /\ \/ free' = fr /\ heap' = live /\ Len(queue') = Len(queue) + 1
            \/ free' = {} /\ heap' = live \ fr /\ Len(queue') = 0
<1> DEFINE q == Append(queue, e)
<1>1. /\ handed \in Seq(Handed) /\ queue \in Seq(Entry)
      /\ Len(handed) \in Nat /\ Len(queue) \in Nat
      /\ q \in Seq(Entry) /\ Len(q) = Len(queue) + 1 /\ q[Len(queue) + 1] = e
      /\ \A k \in 1 .. Len(queue) : q[k] = queue[k]
  BY DEF DeliveryTypes
<1>2. /\ \A k \in 1 .. Len(queue) : queue[k].frag => queue[k].buf \in heap
      /\ \A k \in 1 .. Len(handed) : handed[k].frag => handed[k].live
  BY DEF Buffers
<1> HIDE DEF q
<1>3. \A k \in 1 .. Len(q) : q[k].frag =>
        /\ q[k].buf \in live
        /\ \/ \E j \in 1 .. Len(queue) : queue[j].frag /\ queue[j].buf = q[k].buf
           \/ e.frag /\ q[k].buf = e.buf
  <2> SUFFICES ASSUME NEW k \in 1 .. Len(queue) + 1, q[k].frag
               PROVE  /\ q[k].buf \in live
                      /\ \/ \E j \in 1 .. Len(queue) : queue[j].frag /\ queue[j].buf = q[k].buf
                         \/ e.frag /\ q[k].buf = e.buf
    BY <1>1
  <2>1. CASE k = Len(queue) + 1
    BY <1>1, <2>1
  <2>2. CASE k \in 1 .. Len(queue)
    BY <1>1, <1>2, <2>2
  <2> QED BY <1>1, <2>1, <2>2
<1>4. CASE Len(queue) + 1 < Depth
  <2>1. queue' = q /\ handed' = handed /\ free' = fr /\ heap' = live
    BY <1>4 DEF QueueDelivery, q
  <2> QED BY <1>1, <1>2, <1>3, <2>1
<1>5. CASE ~(Len(queue) + 1 < Depth)
  <2>1. queue' = <<>> /\ handed' = OnMessages(q, live \union {e.buf})
          /\ free' = {} /\ heap' = live \ fr
    BY <1>5 DEF QueueDelivery, HandOver, q
  <2> DEFINE H == Len(handed)
             Q == Len(queue)
  <2>2. /\ Len(handed') = H + (Q + 1)
        /\ \A k \in 1 .. H : handed'[k] = handed[k]
        /\ \A k \in 1 .. Q + 1 :
             /\ handed'[H + k].frag = q[k].frag
             /\ q[k].buf \in live \union {e.buf} => handed'[H + k].live
    <3>1. handed \in Seq(Handed) /\ q \in Seq(Entry)
      BY <1>1
    <3>2. PICK lv : lv = live \union {e.buf}
      OBVIOUS
    <3>3. /\ Len(OnMessages(q, lv)) = Len(handed) + Len(q)
          /\ \A k \in 1 .. Len(handed) : OnMessages(q, lv)[k] = handed[k]
          /\ \A k \in 1 .. Len(q) :
               /\ OnMessages(q, lv)[Len(handed) + k].frag = q[k].frag
               /\ q[k].buf \in lv => OnMessages(q, lv)[Len(handed) + k].live
      BY <3>1, OnMessagesGrows
    <3>4. handed' = OnMessages(q, lv) /\ Len(q) = Q + 1
      BY <1>1, <2>1, <3>2
    <3> QED BY <3>2, <3>3, <3>4
  <2>3. H \in Nat /\ Q \in Nat /\ Len(q) = Q + 1
    BY <1>1
  <2> HIDE DEF H, Q
  <2>4. ASSUME NEW k \in 1 .. H + (Q + 1), handed'[k].frag PROVE handed'[k].live
    <3>1. CASE k <= H
      <4>1. handed'[k] = handed[k] /\ k \in 1 .. H
        BY <2>2, <2>3, <3>1
      <4> QED BY <1>2, <2>4, <4>1 DEF H
    <3>2. CASE ~(k <= H)
      <4>1. PICK j : j = k - H
        OBVIOUS
      <4>2. j \in 1 .. Q + 1 /\ H + j = k
        BY <2>3, <3>2, <4>1
      <4>3. handed'[k].frag = q[j].frag /\ (q[j].buf \in live \union {e.buf} => handed'[k].live)
        BY <2>2, <4>2
      <4>4. q[j].frag => q[j].buf \in live
        BY <1>3, <2>3, <4>2
      <4> QED BY <2>4, <4>3, <4>4
    <3> QED BY <3>1, <3>2
  <2>5. Len(queue') = 0
    BY <2>1
  <2>6. \A k \in 1 .. Len(handed') : handed'[k].frag => handed'[k].live
    BY <2>2, <2>4
  <2>7. \A k \in 1 .. Len(queue') : FALSE
    BY <2>5
  <2> QED BY <2>1, <2>5, <2>6, <2>7
<1> QED BY <1>4, <1>5

(* The fragment that comes in goes to a fresh buffer or to the stream's own. *)
LEMMA BegunFacts ==
  ASSUME DeliveryInv, NEW s \in FragStreams, coming[s] # NoMsg, NEW f \in Begun(s),
         NEW A, A = Allocated(s)
  PROVE  /\ f \in Fragment /\ f.buffer \in 0 .. A /\ A \in Nat /\ allocs <= A
         /\ LiveThen(s) \subseteq 1 .. A /\ heap \subseteq LiveThen(s)
         /\ f.length > 0 => f.buffer \in LiveThen(s) \ free
         /\ f.buffer # None => \A t \in FragStreams \ {s} : frag[t].buffer # f.buffer
         /\ \A k \in 1 .. Len(queue) : queue[k].frag => queue[k].buf # f.buffer
         /\ \A b \in LiveThen(s) \ heap : b = f.buffer
         /\ s \notin failed =>
              /\ f.length = coming[s].total /\ f.offset = coming[s].total - coming[s].left
              /\ f.length > 0
              /\ frag[s].buffer = None \/ frag[s].buffer = f.buffer
<1>1. /\ allocs \in Nat /\ frag[s] \in Fragment /\ coming[s] \in Coming
      /\ heap \subseteq 1 .. allocs /\ free \subseteq 1 .. allocs
  BY DEF DeliveryInv, DeliveryTypes
<1>2. coming[s].left \in 1 .. coming[s].total /\ coming[s].total \in Nat \ {0}
  BY <1>1 DEF DeliveryInv, InTurn, Coming
<1>3. /\ \A t \in FragStreams : frag[t].buffer \in 0 .. allocs
      /\ frag[s].length > 0 => frag[s].buffer \in heap \ free
      /\ \A t \in FragStreams : frag[s].buffer = frag[t].buffer /\ frag[s].buffer # None => s = t
      /\ \A k \in 1 .. Len(queue) : queue[k].frag =>
           queue[k].buf \in heap /\ frag[s].buffer # queue[k].buf
  BY DEF DeliveryInv, Buffers
<1>4. s \notin failed =>
        IF coming[s].left = coming[s].total
          THEN frag[s].length = 0 /\ frag[s].buffer = None /\ frag[s].offset = 0
          ELSE frag[s].length = coming[s].total /\ frag[s].offset = coming[s].total - coming[s].left
  BY DEF DeliveryInv, Reassembles, Reassembled
<1>5. CASE Starting(s)
  <2>1. /\ A = allocs + 1 /\ LiveThen(s) = heap \union {allocs + 1}
        /\ f.buffer = allocs + 1 /\ f.length \in HeaderLength(s) /\ f.offset = 0
        /\ f = [buffer |-> allocs + 1, length |-> f.length, offset |-> 0]
    BY <1>5 DEF Allocated, LiveThen, Begun
  <2>2. f.length \in Nat \ {0}
    BY <1>2, <2>1, DeliveryAssumption DEF DeliveryAssumption, HeaderLength
  <2>3. f \in Fragment
    BY <1>1, <2>1, <2>2 DEF Fragment
  <2>4. s \notin failed => coming[s].left = coming[s].total
    BY <1>1, <1>2, <1>4, <1>5 DEF Starting, Coming, Fragment
  <2>5. s \notin failed => f.length = coming[s].total /\ frag[s].buffer = None
    BY <1>4, <2>1, <2>4 DEF HeaderLength
  <2>6. A \in Nat /\ allocs + 1 \in 1 .. A /\ allocs + 1 \notin heap /\ allocs + 1 \notin free
          /\ heap \subseteq 1 .. A /\ allocs <= A
    BY <1>1, <2>1
  <2>7. \A t \in FragStreams : frag[t].buffer # allocs + 1
    BY <1>1, <1>3
  <2>8. \A k \in 1 .. Len(queue) : queue[k].frag => queue[k].buf # f.buffer
    BY <1>3, <2>1, <2>6
  <2>9. s \notin failed => f.offset = coming[s].total - coming[s].left
    BY <1>2, <2>1, <2>4
  <2> QED BY <2>1, <2>2, <2>3, <2>5, <2>6, <2>7, <2>8, <2>9
<1>6. CASE ~Starting(s)
  <2>1. f = frag[s] /\ A = allocs /\ LiveThen(s) = heap
    BY <1>6, <1>1 DEF Begun, Allocated, LiveThen
  <2>2. s \notin failed => coming[s].left # coming[s].total
    BY <1>4, <1>6 DEF Starting
  <2> QED BY <1>1, <1>2, <1>3, <1>4, <2>1, <2>2
<1> QED BY <1>5, <1>6

(* The buffers stay apart when a stream's own is set to g. *)
LEMMA Apart ==
  ASSUME DeliveryTypes, Buffers, NEW s \in FragStreams, NEW g \in Fragment,
         frag' = [frag EXCEPT ![s] = g],
         g.buffer # None => \A t \in FragStreams \ {s} : frag[t].buffer # g.buffer
  PROVE  /\ frag' \in [FragStreams -> Fragment] /\ frag'[s] = g
         /\ \A t \in FragStreams \ {s} : frag'[t] = frag[t]
         /\ \A u, t \in FragStreams :
              frag'[u].buffer = frag'[t].buffer /\ frag'[u].buffer # None => u = t
<1>1. /\ frag' \in [FragStreams -> Fragment] /\ frag'[s] = g
      /\ \A t \in FragStreams \ {s} : frag'[t] = frag[t]
  BY DEF DeliveryTypes
<1>2. \A u, t \in FragStreams :
        frag[u].buffer = frag[t].buffer /\ frag[u].buffer # None => u = t
  BY DEF Buffers
<1> QED BY <1>1, <1>2

(* The streams other than s are as they were. *)
LEMMA Others ==
  ASSUME Reassembles, NEW s \in FragStreams,
         \A t \in FragStreams \ {s} : coming'[t] = coming[t] /\ frag'[t] = frag[t],
         failed \subseteq failed', s \notin failed' => Reassembled(s)'
  PROVE  Reassembles'
<1> SUFFICES ASSUME NEW t \in FragStreams, t \notin failed' PROVE Reassembled(t)'
  BY DEF Reassembles
<1>1. CASE t = s
  BY <1>1
<1>2. CASE t # s
  <2>1. Reassembled(t) /\ coming'[t] = coming[t] /\ frag'[t] = frag[t]
    BY <1>2 DEF Reassembles
  <2> QED BY <2>1 DEF Reassembled
<1> QED BY <1>1, <1>2

(* The sender's side of a fragment that comes in. *)
LEMMA TakenFacts ==
  ASSUME DeliveryInv, NEW s \in FragStreams, FragmentTaken(s)
  PROVE  /\ coming' \in [FragStreams -> Coming] /\ count' = count /\ batch' = batch /\ batch
         /\ coming[s] \in Coming /\ coming[s] # NoMsg /\ coming[s].msg = count[s]
         /\ coming[s].left \in 1 .. coming[s].total
         /\ \A t \in FragStreams \ {s} : coming'[t] = coming[t]
         /\ coming[s].left = 1 => coming'[s] = NoMsg
         /\ coming[s].left # 1 => /\ coming'[s] # NoMsg /\ coming'[s].total = coming[s].total
                                 /\ coming'[s].left = coming[s].left - 1
         /\ \A t \in FragStreams : coming'[t] # NoMsg =>
              /\ coming[t] # NoMsg
              /\ coming'[t].msg = count'[t] /\ coming'[t].left \in 1 .. coming'[t].total
         /\ \A m \in whole' : \/ m \in whole
                              \/ coming[s].left = 1 /\ m.stream = s /\ m.msg = coming[s].msg
<1>1. coming \in [FragStreams -> Coming] /\ coming[s] \in Coming /\ coming[s] # NoMsg
  BY DEF DeliveryInv, DeliveryTypes, FragmentTaken
<1>2. /\ coming[s].msg = count[s] /\ coming[s].left \in 1 .. coming[s].total
      /\ \A t \in FragStreams : coming[t] # NoMsg =>
           coming[t].msg = count[t] /\ coming[t].left \in 1 .. coming[t].total
  BY <1>1 DEF DeliveryInv, InTurn
<1>3. count' = count /\ batch' = batch /\ batch
  BY DEF FragmentTaken
<1>n. NoMsg \in Coming /\ NoMsg.left = 0
  BY DEF NoMsg, Coming
<1>t. coming[s].msg \in Nat /\ coming[s].total \in Nat /\ coming[s].left \in Nat /\ coming[s].zip \in BOOLEAN
  BY <1>1 DEF Coming
<1>4. /\ coming'[s] = IF coming[s].left = 1 THEN NoMsg ELSE [coming[s] EXCEPT !.left = @ - 1]
      /\ \A t \in FragStreams \ {s} : coming'[t] = coming[t]
      /\ coming' \in [FragStreams -> Coming \union {coming'[s]}]
  BY <1>1 DEF FragmentTaken
<1>5. /\ coming[s].left # 1 => /\ coming'[s].total = coming[s].total
                              /\ coming'[s].left = coming[s].left - 1
                              /\ coming'[s].msg = coming[s].msg
      /\ coming'[s] \in Coming
  <2>1. CASE coming[s].left = 1
    BY <1>4, <1>n, <2>1
  <2>2. CASE coming[s].left # 1
    <3>1. coming'[s] = [coming[s] EXCEPT !.left = @ - 1]
      BY <1>4, <2>2
    <3>2. coming[s].left - 1 \in Nat
      BY <1>t, <1>2, <2>2
    <3>3. coming'[s] \in Coming
      BY <1>1, <3>1, <3>2 DEF Coming
    <3> QED BY <1>1, <2>2, <3>1, <3>3 DEF Coming
  <2> QED BY <2>1, <2>2
<1>6. /\ coming' \in [FragStreams -> Coming]
      /\ \A t \in FragStreams \ {s} : coming'[t] = coming[t]
  BY <1>4, <1>5
<1>7. coming[s].left # 1 => coming'[s] # NoMsg /\ coming'[s].left \in 1 .. coming'[s].total
  <2> SUFFICES ASSUME coming[s].left # 1
               PROVE  coming'[s] # NoMsg /\ coming'[s].left \in 1 .. coming'[s].total
    OBVIOUS
  <2>1. coming'[s].left \in 1 .. coming'[s].total
    BY <1>2, <1>5, <1>t
  <2> QED BY <1>n, <2>1
<1>8. ASSUME NEW t \in FragStreams, coming'[t] # NoMsg
      PROVE  /\ coming[t] # NoMsg
             /\ coming'[t].msg = count'[t] /\ coming'[t].left \in 1 .. coming'[t].total
  <2>1. CASE t = s
    <3>1. coming[s].left # 1
      BY <1>4, <1>8, <2>1
    <3> QED BY <1>1, <1>2, <1>3, <1>5, <1>7, <2>1, <3>1
  <2>2. CASE t # s
    BY <1>2, <1>3, <1>6, <1>8, <2>2
  <2> QED BY <2>1, <2>2
<1>9. \A m \in whole' : \/ m \in whole
                        \/ coming[s].left = 1 /\ m.stream = s /\ m.msg = coming[s].msg
  <2>1. whole' = IF coming[s].left = 1
                 THEN whole \union {[stream |-> s, msg |-> coming[s].msg,
                                     total |-> coming[s].total]}
                 ELSE whole
    BY Zenon DEF FragmentTaken
  <2>2. ASSUME NEW m \in whole', m \notin whole
        PROVE  coming[s].left = 1 /\ m.stream = s /\ m.msg = coming[s].msg
    <3>1. coming[s].left = 1
      BY <2>1, <2>2, Zenon
    <3>2. m = [stream |-> s, msg |-> coming[s].msg, total |-> coming[s].total]
      BY <2>1, <2>2, <3>1, Zenon
    <3> QED BY <3>1, <3>2
  <2> QED BY <2>2
<1> QED BY <1>1, <1>2, <1>3, <1>4, <1>5, <1>6, <1>7, <1>8, <1>9

-----------------------------------------------------------------------------
(* One lemma per action *)

LEMMA FreeFinite ==
  ASSUME DeliveryTypes
  PROVE  IsFiniteSet(free) /\ Cardinality(free) \in Nat
<1>1. allocs \in Int /\ 1 \in Int /\ free \subseteq 1 .. allocs
  BY DEF DeliveryTypes
<1>2. IsFiniteSet(1 .. allocs)
  BY <1>1, FS_Interval
<1>3. IsFiniteSet(free)
  BY <1>1, <1>2, FS_Subset
<1> QED BY <1>3, FS_CardinalityType

LEMMA CardinalityGrows ==
  ASSUME NEW S, IsFiniteSet(S), NEW x
  PROVE  /\ IsFiniteSet(S \union {x}) /\ Cardinality(S) \in Nat
         /\ Cardinality(S \union {x}) \in Nat /\ Cardinality(S \union {x}) <= Cardinality(S) + 1
<1>1. IsFiniteSet(S \union {x}) /\ Cardinality(S) \in Nat
  BY FS_AddElement, FS_CardinalityType
<1>2. CASE x \in S
  <2>1. S \union {x} = S
    BY <1>2
  <2> QED BY <1>1, <2>1
<1>3. CASE x \notin S
  BY <1>1, <1>3, FS_AddElement
<1> QED BY <1>2, <1>3

(* An uncut message: its buffer is no concern of the free list. *)
LEMMA QueuedKeepsInv ==
  ASSUME DeliveryInv, NEW s \in FragStreams, batch, coming[s] = NoMsg, count[s] < MaxMessages,
         count' = [count EXCEPT ![s] = @ + 1], NEW b \in Int,
         QueueDelivery([stream |-> s, msg |-> count'[s], frag |-> FALSE, buf |-> b], free, heap),
         allocs' \in Nat, allocs <= allocs',
         UNCHANGED <<batch, coming, frag, whole, failed>>
  PROVE  DeliveryInv'
<1> DEFINE e == [stream |-> s, msg |-> count'[s], frag |-> FALSE, buf |-> b]
<1>t. DeliveryTypes /\ InTurn /\ Reassembles /\ Buffers /\ Accounted
  BY DEF DeliveryInv
<1>a. MaxMessages \in Nat /\ Depth \in Nat \ {0}
  BY DeliveryAssumption DEF DeliveryAssumption
<1>1. /\ count \in [FragStreams -> 0 .. MaxMessages] /\ count[s] \in Nat
      /\ count' \in [FragStreams -> 0 .. MaxMessages] /\ count'[s] = count[s] + 1
      /\ \A t \in FragStreams \ {s} : count'[t] = count[t]
  BY <1>a, <1>t DEF DeliveryTypes
<1>2. e \in Entry /\ e.stream = s /\ e.msg = count[s] + 1 /\ e.frag = FALSE /\ QueueDelivery(e, free, heap)
  BY <1>1 DEF Entry
<1> HIDE DEF e
<1>3. PICK N : N = Logged
  OBVIOUS
<1>4. /\ queue' \in Seq(Entry) /\ Len(queue') < Depth /\ handed' \in Seq(Handed)
      /\ N \in Nat /\ Logged' = N + 1
      /\ \A k \in 1 .. N : StreamAt(k)' = StreamAt(k) /\ MsgAt(k)' = MsgAt(k)
      /\ StreamAt(N + 1)' = e.stream /\ MsgAt(N + 1)' = e.msg
  BY <1>t, <1>2, <1>3, LogGrows
<1>5. /\ \A k \in 1 .. Len(handed') : handed'[k].frag => handed'[k].live
      /\ \A k \in 1 .. Len(queue') : queue'[k].frag =>
           /\ queue'[k].buf \in heap'
           /\ \E j \in 1 .. Len(queue) : queue[j].frag /\ queue[j].buf = queue'[k].buf
      /\ \/ free' = free /\ heap' = heap /\ Len(queue') = Len(queue) + 1
         \/ free' = {} /\ heap' = heap \ free /\ Len(queue') = 0
  BY <1>t, <1>2, QueueBuffers
<1>6. /\ batch' = batch /\ coming' = coming /\ frag' = frag /\ whole' = whole /\ failed' = failed
  OBVIOUS
<1>7. DeliveryTypes'
  <2>1. /\ free \subseteq 1 .. allocs /\ heap \subseteq 1 .. allocs /\ allocs \in Nat
        /\ coming \in [FragStreams -> Coming] /\ frag \in [FragStreams -> Fragment]
        /\ batch \in BOOLEAN /\ failed \subseteq FragStreams
    BY <1>t DEF DeliveryTypes
  <2>2. free' \subseteq 1 .. allocs' /\ heap' \subseteq 1 .. allocs'
    <3>1. 1 .. allocs \subseteq 1 .. allocs'
      BY <2>1
    <3>2. free' \subseteq free /\ heap' \subseteq heap
      BY <1>5
    <3> QED BY <2>1, <3>1, <3>2, Zenon
  <2> QED BY <1>1, <1>4, <1>6, <2>1, <2>2 DEF DeliveryTypes
<1>8. InTurn'
  <2>1. \A k \in 1 .. N : StreamAt(k) \in FragStreams /\ MsgAt(k) \in Nat
    BY <1>t, <1>3, LogTypes
  <2>2. \A t \in FragStreams : count[t] \in Nat /\ count'[t] \in Nat /\ count[t] <= count'[t]
    BY <1>1
  <2>3. \A t \in FragStreams : coming'[t] # NoMsg =>
          /\ coming[t] # NoMsg /\ t # s
          /\ coming'[t].msg = count'[t] /\ coming'[t].left \in 1 .. coming'[t].total
    BY <1>1, <1>6, <1>t DEF InTurn
  <2>4. count[s] + 1 \in Nat /\ count[s] <= count[s] + 1 /\ count[s] + 1 <= count'[s] /\ count[s] < count[s] + 1
    BY <1>1
  <2>5. PICK msg \in Nat : msg = count[s] + 1
    BY <2>4
  <2>6. /\ \A k \in 1 .. N : StreamAt(k)' = StreamAt(k) /\ MsgAt(k)' = MsgAt(k)
        /\ StreamAt(N + 1)' = s /\ MsgAt(N + 1)' = msg
    BY <1>2, <1>4, <2>5
  <2>7. /\ InTurn /\ N = Logged /\ N \in Nat /\ Logged' = N + 1
        /\ failed' = failed /\ whole' = whole
    BY <1>t, <1>3, <1>4, <1>6
  <2>8. count[s] <= msg /\ msg <= count'[s] /\ count[s] < msg
    BY <2>4, <2>5
  <2> QED BY <2>1, <2>2, <2>3, <2>6, <2>7, <2>8, TurnTaken
<1>9. Reassembles'
  BY <1>6, <1>t DEF Reassembles, Reassembled
<1>10. Buffers'
  <2>1. \A t \in FragStreams : /\ frag'[t].buffer \in 0 .. allocs'
                               /\ frag'[t].length > 0 => frag'[t].buffer \in heap' \ free'
                               /\ frag'[t].offset = 0 => frag'[t].length = 0
    <3> SUFFICES ASSUME NEW t \in FragStreams
                 PROVE  /\ frag[t].buffer \in 0 .. allocs'
                        /\ frag[t].length > 0 => frag[t].buffer \in heap' \ free'
                        /\ frag[t].offset = 0 => frag[t].length = 0
      BY <1>6
    <3>1. /\ frag[t].buffer \in 0 .. allocs /\ allocs \in Nat
          /\ frag[t].length > 0 => frag[t].buffer \in heap \ free
          /\ frag[t].offset = 0 => frag[t].length = 0
      BY <1>t DEF Buffers, DeliveryTypes
    <3> QED BY <1>5, <3>1
  <2>2. \A k \in 1 .. Len(queue) : queue[k].frag => \A t \in FragStreams : frag[t].buffer # queue[k].buf
    BY <1>t DEF Buffers
  <2>3. \A u, t \in FragStreams :
          frag'[u].buffer = frag'[t].buffer /\ frag'[u].buffer # None => u = t
    BY <1>6, <1>t DEF Buffers
  <2>4. \A k \in 1 .. Len(queue') : queue'[k].frag =>
          queue'[k].buf \in heap' /\ \A t \in FragStreams : frag'[t].buffer # queue'[k].buf
    BY <1>5, <1>6, <2>2
  <2> QED BY <1>5, <2>1, <2>3, <2>4 DEF Buffers
<1>11. Accounted'
  <2> SUFFICES ASSUME failed = {}
               PROVE  /\ Cardinality(free') <= 2 * Len(queue')
                      /\ \A c \in heap' \ free' : \E t \in FragStreams : frag'[t].buffer = c
    BY <1>6 DEF Accounted
  <2>1. /\ Cardinality(free) <= 2 * Len(queue)
        /\ \A c \in heap \ free : \E t \in FragStreams : frag[t].buffer = c
    BY <1>t DEF Accounted
  <2>2. Len(queue) \in Nat /\ Cardinality(free) \in Nat /\ Cardinality({}) = 0
    <3>1. IsFiniteSet(free)
      BY <1>t, FreeFinite
    <3> QED BY <1>t, <3>1, FS_CardinalityType, FS_EmptySet DEF DeliveryTypes
  <2>3. Cardinality(free') <= 2 * Len(queue')
    <3>1. CASE free' = free /\ Len(queue') = Len(queue) + 1
      <4>1. Cardinality(free') = Cardinality(free)
        BY <3>1
      <4> QED BY <2>1, <2>2, <3>1, <4>1
    <3>2. CASE free' = {} /\ Len(queue') = 0
      <4>1. Cardinality(free') = 0
        BY <2>2, <3>2
      <4> QED BY <3>2, <4>1
    <3> QED BY <1>5, <3>1, <3>2
  <2> QED BY <1>5, <1>6, <2>1, <2>3
<1> QED BY <1>7, <1>8, <1>9, <1>10, <1>11 DEF DeliveryInv

LEMMA ProcessInOrderKeepsInv ==
  ASSUME DeliveryInv, NEW s \in FragStreams, ProcessInOrder(s)
  PROVE  DeliveryInv'
<1>1. allocs \in Nat
  BY DEF DeliveryInv, DeliveryTypes
<1>2. /\ batch /\ coming[s] = NoMsg /\ count[s] < MaxMessages
      /\ count' = [count EXCEPT ![s] = @ + 1]
      /\ QueueDelivery([stream |-> s, msg |-> count'[s], frag |-> FALSE, buf |-> Datagram], free, heap)
      /\ UNCHANGED <<batch, coming, frag, whole, failed>> /\ allocs' = allocs
  BY DEF ProcessInOrder
<1>3. Datagram \in Int /\ allocs' \in Nat /\ allocs <= allocs'
  BY <1>1, <1>2 DEF Datagram
<1> QED BY <1>2, <1>3, QueuedKeepsInv

LEMMA WaitingKeepsInv ==
  ASSUME DeliveryInv, NEW s \in FragStreams, RunReliableReceiveQueue(s)
  PROVE  DeliveryInv'
<1>1. allocs \in Nat
  BY DEF DeliveryInv, DeliveryTypes
<1>2. /\ batch /\ coming[s] = NoMsg /\ count[s] < MaxMessages
      /\ count' = [count EXCEPT ![s] = @ + 1]
      /\ QueueDelivery([stream |-> s, msg |-> count'[s], frag |-> FALSE, buf |-> allocs + 1], free, heap)
      /\ UNCHANGED <<batch, coming, frag, whole, failed>> /\ allocs' = allocs + 1
  BY DEF RunReliableReceiveQueue
<1>3. allocs + 1 \in Int /\ allocs' \in Nat /\ allocs <= allocs'
  BY <1>1, <1>2
<1>4. PICK b \in Int : b = allocs + 1
  BY <1>3
<1>5. QueueDelivery([stream |-> s, msg |-> count'[s], frag |-> FALSE, buf |-> b], free, heap)
  BY <1>2, <1>4
<1> QED BY <1>2, <1>3, <1>5, QueuedKeepsInv

LEMMA FragmentedKeepsInv ==
  ASSUME DeliveryInv, ~Reuse, NEW s \in FragStreams, NEW n \in Lengths, NEW zip \in Zipped,
         FragmentedMessage(s, n, zip)
  PROVE  DeliveryInv'
<1>t. DeliveryTypes /\ InTurn /\ Reassembles /\ Buffers /\ Accounted
  BY DEF DeliveryInv
<1>a. MaxMessages \in Nat /\ n \in Nat \ {0} /\ zip \in BOOLEAN
  BY DeliveryAssumption DEF DeliveryAssumption
<1>1. /\ count \in [FragStreams -> 0 .. MaxMessages] /\ count[s] \in Nat
      /\ count' \in [FragStreams -> 0 .. MaxMessages] /\ count'[s] = count[s] + 1
      /\ \A t \in FragStreams \ {s} : count'[t] = count[t]
  BY <1>a, <1>t DEF DeliveryTypes, FragmentedMessage
<1>2. /\ coming' \in [FragStreams -> Coming]
      /\ coming'[s] = [msg |-> count'[s], total |-> n, left |-> n, zip |-> zip]
      /\ \A t \in FragStreams \ {s} : coming'[t] = coming[t]
  <2> DEFINE c == [msg |-> count'[s], total |-> n, left |-> n, zip |-> zip]
  <2>1. c \in Coming
    BY <1>a, <1>1 DEF Coming
  <2>2. coming' = [coming EXCEPT ![s] = c] /\ coming \in [FragStreams -> Coming]
    BY <1>t DEF FragmentedMessage, DeliveryTypes
  <2> HIDE DEF c
  <2>3. coming' \in [FragStreams -> Coming] /\ coming'[s] = c
          /\ \A t \in FragStreams \ {s} : coming'[t] = coming[t]
    BY <2>1, <2>2
  <2> QED BY <2>3 DEF c
<1>3. coming'[s].msg = count[s] + 1 /\ coming'[s].total = n /\ coming'[s].left = n
  BY <1>1, <1>2
<1>4. /\ batch' = batch /\ frag' = frag /\ queue' = queue /\ free' = free /\ heap' = heap
      /\ allocs' = allocs /\ whole' = whole /\ failed' = failed /\ handed' = handed
      /\ coming[s] = NoMsg /\ frag[s].offset = 0
  BY DEF FragmentedMessage, Starting
<1>5. DeliveryTypes'
  BY <1>1, <1>2, <1>4, <1>t DEF DeliveryTypes
<1>6. InTurn'
  <2>1. PICK N : N = Logged
    OBVIOUS
  <2>2. /\ N \in Nat /\ \A k \in 1 .. N : StreamAt(k) \in FragStreams /\ MsgAt(k) \in Nat
    BY <1>t, <2>1, LogTypes
  <2>3. Logged' = N /\ \A k \in 1 .. N : StreamAt(k)' = StreamAt(k) /\ MsgAt(k)' = MsgAt(k)
    BY <1>4, <2>1 DEF Logged, StreamAt, MsgAt
  <2>4. \A t \in FragStreams : count[t] \in Nat /\ count'[t] \in Nat /\ count[t] <= count'[t]
    BY <1>1
  <2>5. \A t \in FragStreams : coming'[t] # NoMsg =>
          coming'[t].msg = count'[t] /\ coming'[t].left \in 1 .. coming'[t].total
    <3> SUFFICES ASSUME NEW t \in FragStreams, coming'[t] # NoMsg
                 PROVE  coming'[t].msg = count'[t] /\ coming'[t].left \in 1 .. coming'[t].total
      OBVIOUS
    <3>1. CASE t = s
      BY <1>a, <1>1, <1>3, <3>1
    <3>2. CASE t # s
      BY <1>1, <1>2, <1>t, <3>2 DEF InTurn
    <3> QED BY <3>1, <3>2
  <2>6. \A t \in FragStreams : t \notin failed' /\ coming'[t] # NoMsg =>
          coming[t] # NoMsg \/ count[t] < count'[t]
    BY <1>1, <1>2
  <2> QED BY <1>t, <1>4, <2>1, <2>2, <2>3, <2>4, <2>5, <2>6, TurnKept
<1>7. Reassembles'
  <2>1. s \notin failed' => Reassembled(s)'
    BY <1>t, <1>3, <1>4 DEF Reassembles, Reassembled
  <2> QED BY <1>t, <1>2, <1>4, <2>1, Others
<1>8. Buffers' /\ Accounted'
  BY <1>t, <1>4 DEF Buffers, Accounted
<1> QED BY <1>5, <1>6, <1>7, <1>8 DEF DeliveryInv

LEMMA BatchKeepsInv ==
  ASSUME DeliveryInv, OnTransportDatagrams
  PROVE  DeliveryInv'
<1>t. DeliveryTypes /\ InTurn /\ Reassembles /\ Buffers /\ Accounted
  BY DEF DeliveryInv
<1>1. /\ queue = <<>> /\ queue' = queue /\ free' = {} /\ batch' = TRUE
      /\ coming' = coming /\ frag' = frag /\ heap' = heap /\ allocs' = allocs
      /\ count' = count /\ whole' = whole /\ failed' = failed /\ handed' = handed
  BY <1>t DEF OnTransportDatagrams, DeliveryTypes
<1>2. DeliveryTypes'
  BY <1>1, <1>t DEF DeliveryTypes
<1>3. InTurn'
  BY <1>1, <1>t DEF InTurn, Logged, StreamAt, MsgAt
<1>4. Reassembles'
  BY <1>1, <1>t DEF Reassembles, Reassembled
<1>5. Buffers'
  BY <1>1, <1>t DEF Buffers
<1>6. Accounted'
  <2> SUFFICES ASSUME failed = {}
               PROVE  /\ Cardinality({}) <= 2 * Len(queue)
                      /\ \A b \in heap : \E t \in FragStreams : frag[t].buffer = b
    BY <1>1 DEF Accounted
  <2>1. /\ Cardinality(free) <= 2 * Len(queue)
        /\ \A b \in heap \ free : \E t \in FragStreams : frag[t].buffer = b
    BY <1>t DEF Accounted
  <2>2. Len(queue) = 0
    BY <1>1
  <2>3. IsFiniteSet(free) /\ Cardinality(free) \in Nat
    BY <1>t, FreeFinite
  <2>4. free = {} /\ Cardinality({}) = 0
    BY <2>1, <2>2, <2>3, FS_EmptySet
  <2> QED BY <2>1, <2>2, <2>4
<1> QED BY <1>2, <1>3, <1>4, <1>5, <1>6 DEF DeliveryInv

LEMMA DeliverKeepsInv ==
  ASSUME DeliveryInv, DeliverQueued
  PROVE  DeliveryInv'
<1>t. DeliveryTypes /\ InTurn /\ Reassembles /\ Buffers /\ Accounted
  BY DEF DeliveryInv
<1>1. /\ batch' = FALSE /\ coming' = coming /\ frag' = frag /\ allocs' = allocs
      /\ count' = count /\ whole' = whole /\ failed' = failed
  BY DEF DeliverQueued
<1>2. PICK N : N = Logged
  OBVIOUS
<1>3. /\ queue' = <<>> /\ handed' \in Seq(Handed) /\ Logged' = N
      /\ \A k \in 1 .. N : StreamAt(k)' = StreamAt(k) /\ MsgAt(k)' = MsgAt(k)
  BY <1>t, <1>2, LogMoves
<1>4. \/ free' = free /\ heap' = heap /\ queue = <<>> /\ handed' = handed
      \/ free' = {} /\ heap' = heap \ free /\ handed' = OnMessages(queue, heap)
  BY DEF DeliverQueued
<1>5. DeliveryTypes'
  <2>1. free' \subseteq free /\ heap' \subseteq heap
    BY <1>4
  <2>2. Depth \in Nat \ {0}
    BY DeliveryAssumption DEF DeliveryAssumption
  <2>3. queue' \in Seq(Entry) /\ Len(queue') < Depth
    BY <1>3, <2>2
  <2> QED BY <1>1, <1>3, <1>t, <2>1, <2>3 DEF DeliveryTypes
<1>6. InTurn'
  <2>1. N \in Nat /\ \A k \in 1 .. N : StreamAt(k) \in FragStreams /\ MsgAt(k) \in Nat
    BY <1>t, <1>2, LogTypes
  <2>2. \A t \in FragStreams : count[t] \in Nat /\ count'[t] \in Nat /\ count[t] <= count'[t]
    BY <1>1, <1>t DEF DeliveryTypes
  <2>3. \A t \in FragStreams : coming'[t] # NoMsg =>
          /\ coming[t] # NoMsg
          /\ coming'[t].msg = count'[t] /\ coming'[t].left \in 1 .. coming'[t].total
    BY <1>1, <1>t DEF InTurn
  <2> QED BY <1>t, <1>1, <1>2, <1>3, <2>1, <2>2, <2>3, TurnKept
<1>7. Reassembles'
  BY <1>1, <1>t DEF Reassembles, Reassembled
<1>8. Buffers'
  <2>1. \A t \in FragStreams : /\ frag'[t].buffer \in 0 .. allocs'
                               /\ frag'[t].length > 0 => frag'[t].buffer \in heap' \ free'
                               /\ frag'[t].offset = 0 => frag'[t].length = 0
    BY <1>1, <1>4, <1>t DEF Buffers
  <2>2. \A u, t \in FragStreams :
          frag'[u].buffer = frag'[t].buffer /\ frag'[u].buffer # None => u = t
    BY <1>1, <1>t DEF Buffers
  <2>3. Len(queue') = 0
    BY <1>3
  <2>4. \A k \in 1 .. Len(queue') : FALSE
    BY <2>3
  <2>5. \A k \in 1 .. Len(handed') : handed'[k].frag => handed'[k].live
    <3>1. CASE handed' = handed
      BY <1>t, <3>1 DEF Buffers
    <3>2. CASE handed' = OnMessages(queue, heap)
      <4> DEFINE H == Len(handed)
                 Q == Len(queue)
      <4>1. handed \in Seq(Handed) /\ queue \in Seq(Entry) /\ H \in Nat /\ Q \in Nat
        BY <1>t DEF DeliveryTypes
      <4>2. /\ Len(handed') = H + Q
            /\ \A k \in 1 .. H : handed'[k] = handed[k]
            /\ \A k \in 1 .. Q :
                 /\ handed'[H + k].frag = queue[k].frag
                 /\ queue[k].buf \in heap => handed'[H + k].live
        BY <3>2, <4>1, OnMessagesGrows
      <4>3. /\ \A k \in 1 .. Q : queue[k].frag => queue[k].buf \in heap
            /\ \A k \in 1 .. H : handed[k].frag => handed[k].live
        BY <1>t DEF Buffers
      <4> HIDE DEF H, Q
      <4>4. ASSUME NEW k \in 1 .. H + Q, handed'[k].frag PROVE handed'[k].live
        <5>1. CASE k <= H
          BY <4>1, <4>2, <4>3, <4>4, <5>1
        <5>2. CASE ~(k <= H)
          <6>1. k - H \in 1 .. Q /\ H + (k - H) = k
            BY <4>1, <5>2
          <6> QED BY <4>2, <4>3, <4>4, <6>1
        <5> QED BY <5>1, <5>2
      <4> QED BY <4>2, <4>4
    <3> QED BY <1>4, <3>1, <3>2
  <2> QED BY <2>1, <2>2, <2>4, <2>5 DEF Buffers
<1>9. Accounted'
  <2> SUFFICES ASSUME failed = {}
               PROVE  /\ Cardinality(free') <= 2 * Len(queue')
                      /\ \A b \in heap' \ free' : \E t \in FragStreams : frag[t].buffer = b
    BY <1>1 DEF Accounted
  <2>1. /\ Cardinality(free) <= 2 * Len(queue)
        /\ \A b \in heap \ free : \E t \in FragStreams : frag[t].buffer = b
    BY <1>t DEF Accounted
  <2>2. Cardinality({}) = 0 /\ Len(queue') = 0
    BY <1>3, FS_EmptySet
  <2>3. Cardinality(free') <= 2 * Len(queue')
    <3>1. CASE free' = {}
      BY <2>2, <3>1
    <3>2. CASE free' = free /\ queue = <<>>
      BY <2>1, <1>3, <3>2
    <3> QED BY <1>4, <3>1, <3>2
  <2> QED BY <1>4, <2>1, <2>3
<1> QED BY <1>5, <1>6, <1>7, <1>8, <1>9 DEF DeliveryInv

(* What OnFragment does to _fragments[s] leaves the buffers apart, when the
   queue is left alone. *)
LEMMA BuffersKept ==
  ASSUME DeliveryTypes, Buffers, NEW s \in FragStreams, NEW g \in Fragment,
         frag' = [frag EXCEPT ![s] = g], allocs' \in Nat, allocs <= allocs',
         g.buffer \in 0 .. allocs',
         g.length > 0 => g.buffer \in heap' \ free', g.offset = 0 => g.length = 0,
         g.buffer # None => \A t \in FragStreams \ {s} : frag[t].buffer # g.buffer,
         \A t \in FragStreams \ {s} : frag[t].length > 0 => frag[t].buffer \in heap' \ free',
         \A k \in 1 .. Len(queue') : queue'[k].frag =>
           /\ queue'[k].buf \in heap' /\ queue'[k].buf # g.buffer
           /\ \A t \in FragStreams \ {s} : frag[t].buffer # queue'[k].buf,
         \A k \in 1 .. Len(handed') : handed'[k].frag => handed'[k].live
  PROVE  Buffers' /\ frag' \in [FragStreams -> Fragment] /\ frag'[s] = g
         /\ \A t \in FragStreams \ {s} : frag'[t] = frag[t]
<1>1. /\ frag' \in [FragStreams -> Fragment] /\ frag'[s] = g
      /\ \A t \in FragStreams \ {s} : frag'[t] = frag[t]
      /\ \A u, t \in FragStreams :
           frag'[u].buffer = frag'[t].buffer /\ frag'[u].buffer # None => u = t
  BY Apart
<1>2. \A t \in FragStreams : /\ frag'[t].buffer \in 0 .. allocs'
                             /\ frag'[t].length > 0 => frag'[t].buffer \in heap' \ free'
                             /\ frag'[t].offset = 0 => frag'[t].length = 0
  <2> SUFFICES ASSUME NEW t \in FragStreams
               PROVE  /\ frag'[t].buffer \in 0 .. allocs'
                      /\ frag'[t].length > 0 => frag'[t].buffer \in heap' \ free'
                      /\ frag'[t].offset = 0 => frag'[t].length = 0
    OBVIOUS
  <2>1. CASE t = s
    BY <1>1, <2>1
  <2>2. CASE t # s
    <3>1. /\ frag[t].buffer \in 0 .. allocs /\ allocs \in Nat
          /\ frag[t].offset = 0 => frag[t].length = 0
      BY DEF Buffers, DeliveryTypes
    <3> QED BY <1>1, <2>2, <3>1
  <2> QED BY <2>1, <2>2
<1>3. \A k \in 1 .. Len(queue') : queue'[k].frag =>
        queue'[k].buf \in heap' /\ \A t \in FragStreams : frag'[t].buffer # queue'[k].buf
  BY <1>1
<1> QED BY <1>1, <1>2, <1>3 DEF Buffers

(* A complete message has as many fragments as its header says. *)
LEMMA LastFragment ==
  ASSUME DeliveryInv, NEW s \in FragStreams, s \notin failed, coming[s] # NoMsg, NEW f \in Begun(s)
  PROVE  Completes(f) <=> coming[s].left = 1
<1>1. PICK A : A = Allocated(s)
  OBVIOUS
<1>2. f.length = coming[s].total /\ f.offset = coming[s].total - coming[s].left
  BY <1>1, BegunFacts
<1>3. coming[s] \in Coming /\ coming[s].left \in 1 .. coming[s].total
  BY DEF DeliveryInv, DeliveryTypes, InTurn
<1>4. coming[s].total \in Nat /\ coming[s].left \in Nat
  BY <1>3 DEF Coming
<1> QED BY <1>2, <1>3, <1>4 DEF Completes

(* The order of delivery, when a fragment queues nothing. *)
LEMMA FragmentTurn ==
  ASSUME DeliveryInv, NEW s \in FragStreams, FragmentTaken(s), queue' = queue, handed' = handed,
         failed \subseteq failed', s \notin failed' => coming[s].left # 1
  PROVE  InTurn'
<1>t. DeliveryTypes /\ InTurn
  BY DEF DeliveryInv
<1>1. /\ count' = count
      /\ \A t \in FragStreams : coming'[t] # NoMsg =>
           /\ coming[t] # NoMsg
           /\ coming'[t].msg = count'[t] /\ coming'[t].left \in 1 .. coming'[t].total
      /\ \A m \in whole' : m \in whole \/ (coming[s].left = 1 /\ m.stream = s)
  BY TakenFacts
<1>2. PICK N : N = Logged
  OBVIOUS
<1>3. N \in Nat /\ \A k \in 1 .. N : StreamAt(k) \in FragStreams /\ MsgAt(k) \in Nat
  BY <1>t, <1>2, LogTypes
<1>4. Logged' = N /\ \A k \in 1 .. N : StreamAt(k)' = StreamAt(k) /\ MsgAt(k)' = MsgAt(k)
  BY <1>2 DEF Logged, StreamAt, MsgAt
<1>5. \A t \in FragStreams : count[t] \in Nat /\ count'[t] \in Nat /\ count[t] <= count'[t]
  BY <1>1, <1>t DEF DeliveryTypes
<1>6. \A m \in whole' : m \in whole \/ m.stream \in failed'
  BY <1>1
<1> QED BY <1>t, <1>1, <1>2, <1>3, <1>4, <1>5, <1>6, TurnKept

LEMMA CopyKeepsInv ==
  ASSUME DeliveryInv, NEW s \in FragStreams, OnFragmentCopy(s)
  PROVE  DeliveryInv'
<1>t. DeliveryTypes /\ InTurn /\ Reassembles /\ Buffers /\ Accounted
  BY DEF DeliveryInv
<1>1. /\ FragmentTaken(s) /\ heap' = LiveThen(s) /\ queue' = queue /\ free' = free
      /\ failed' = failed /\ handed' = handed
  BY DEF OnFragmentCopy
<1>2. PICK f \in Begun(s) : ~Completes(f) /\ frag' = [frag EXCEPT ![s] = [f EXCEPT !.offset = @ + 1]]
  BY DEF OnFragmentCopy
<1>3. PICK A : A = Allocated(s) /\ allocs' = A
  BY DEF OnFragmentCopy
<1>4. /\ coming' \in [FragStreams -> Coming] /\ count' = count /\ batch' = batch /\ batch
      /\ coming[s] \in Coming /\ coming[s] # NoMsg
      /\ coming[s].left \in 1 .. coming[s].total
      /\ \A t \in FragStreams \ {s} : coming'[t] = coming[t]
      /\ coming[s].left # 1 => /\ coming'[s] # NoMsg /\ coming'[s].total = coming[s].total
                               /\ coming'[s].left = coming[s].left - 1
  BY <1>1, TakenFacts
<1>5. /\ f \in Fragment /\ f.buffer \in 0 .. A /\ A \in Nat /\ allocs <= A
      /\ LiveThen(s) \subseteq 1 .. A /\ heap \subseteq LiveThen(s)
      /\ f.length > 0 => f.buffer \in LiveThen(s) \ free
      /\ f.buffer # None => \A t \in FragStreams \ {s} : frag[t].buffer # f.buffer
      /\ \A k \in 1 .. Len(queue) : queue[k].frag => queue[k].buf # f.buffer
      /\ \A b \in LiveThen(s) \ heap : b = f.buffer
      /\ s \notin failed =>
           /\ f.length = coming[s].total /\ f.offset = coming[s].total - coming[s].left
           /\ frag[s].buffer = None \/ frag[s].buffer = f.buffer
  BY <1>3, <1>4, BegunFacts
<1>6. s \notin failed => coming[s].left # 1
  BY <1>2, <1>4, LastFragment
<1>7. PICK g \in Fragment : /\ frag' = [frag EXCEPT ![s] = g] /\ g.buffer = f.buffer
                            /\ g.length = f.length /\ g.offset = f.offset + 1
  <2> DEFINE h == [f EXCEPT !.offset = @ + 1]
  <2>1. h \in Fragment /\ h.buffer = f.buffer /\ h.length = f.length /\ h.offset = f.offset + 1
    BY <1>5 DEF Fragment
  <2>2. frag' = [frag EXCEPT ![s] = h]
    BY <1>2
  <2> HIDE DEF h
  <2> QED BY <2>1, <2>2
<1>8. g.offset # 0
  BY <1>5, <1>7 DEF Fragment
<1>9. /\ Buffers' /\ frag' \in [FragStreams -> Fragment] /\ frag'[s] = g
      /\ \A t \in FragStreams \ {s} : frag'[t] = frag[t]
  <2>1. \A t \in FragStreams \ {s} : frag[t].length > 0 => frag[t].buffer \in heap' \ free'
    BY <1>t, <1>1, <1>5 DEF Buffers
  <2>2. \A k \in 1 .. Len(queue') : queue'[k].frag =>
           /\ queue'[k].buf \in heap' /\ queue'[k].buf # g.buffer
           /\ \A t \in FragStreams \ {s} : frag[t].buffer # queue'[k].buf
    BY <1>t, <1>1, <1>5, <1>7 DEF Buffers
  <2>3. \A k \in 1 .. Len(handed') : handed'[k].frag => handed'[k].live
    BY <1>t, <1>1 DEF Buffers
  <2>4. allocs' \in Nat /\ allocs <= allocs' /\ g.buffer \in 0 .. allocs'
    BY <1>3, <1>5, <1>7
  <2>5. /\ g.length > 0 => g.buffer \in heap' \ free'
        /\ g.offset = 0 => g.length = 0
        /\ g.buffer # None => \A t \in FragStreams \ {s} : frag[t].buffer # g.buffer
    BY <1>1, <1>5, <1>7, <1>8
  <2> QED BY <1>t, <1>7, <2>1, <2>2, <2>3, <2>4, <2>5, BuffersKept
<1>10. InTurn'
  BY <1>1, <1>6, FragmentTurn
<1>11. Reassembles'
  <2>1. ASSUME s \notin failed PROVE Reassembled(s)'
    <3>1. coming[s].left \in Nat /\ coming[s].total \in Nat
      BY <1>4 DEF Coming
    <3>2. /\ coming'[s] # NoMsg /\ coming'[s].left # coming'[s].total
          /\ g.length = coming'[s].total /\ g.offset = coming'[s].total - coming'[s].left
      BY <1>4, <1>5, <1>6, <1>7, <2>1, <3>1
    <3> QED BY <1>9, <3>2 DEF Reassembled
  <2> QED BY <1>t, <1>1, <1>4, <1>9, <2>1, Others
<1>12. DeliveryTypes'
  <2>1. free' \subseteq 1 .. allocs'
    BY <1>t, <1>1, <1>3, <1>5 DEF DeliveryTypes
  <2> QED BY <1>t, <1>1, <1>3, <1>4, <1>5, <1>9, <2>1 DEF DeliveryTypes
<1>13. Accounted'
  <2> SUFFICES ASSUME failed = {}, NEW b \in heap' \ free'
               PROVE  \E t \in FragStreams : frag'[t].buffer = b
    BY <1>t, <1>1 DEF Accounted
  <2>1. CASE b \in heap
    <3>1. PICK t \in FragStreams : frag[t].buffer = b
      BY <1>t, <1>1, <2>1 DEF Accounted
    <3>2. b # None
      BY <1>t, <2>1 DEF DeliveryTypes, None
    <3>3. CASE t = s
      BY <1>5, <1>7, <1>9, <3>1, <3>2, <3>3
    <3>4. CASE t # s
      BY <1>9, <3>1, <3>4
    <3> QED BY <3>3, <3>4
  <2>2. CASE b \notin heap
    BY <1>1, <1>5, <1>7, <1>9, <2>2
  <2> QED BY <2>1, <2>2
<1> QED BY <1>9, <1>10, <1>11, <1>12, <1>13 DEF DeliveryInv

LEMMA FailsKeepsInv ==
  ASSUME DeliveryInv, NEW s \in FragStreams, OnFragmentFails(s)
  PROVE  DeliveryInv'
<1>t. DeliveryTypes /\ InTurn /\ Reassembles /\ Buffers /\ Accounted
  BY DEF DeliveryInv
<1>1. FragmentTaken(s) /\ queue' = queue /\ failed' = failed \union {s} /\ handed' = handed
  BY DEF OnFragmentFails
<1>2. PICK f \in Begun(s), dest \in {{}, {Allocated(s) + 1}} :
        /\ Completes(f) /\ frag' = [frag EXCEPT ![s] = [f EXCEPT !.length = 0]]
        /\ allocs' = Allocated(s) + Cardinality(dest)
        /\ free' = free \union ({f.buffer} \union dest)
        /\ heap' = LiveThen(s) \union dest
  BY DEF OnFragmentFails, QueueFragFree
<1>3. PICK A : A = Allocated(s)
  OBVIOUS
<1>4. /\ coming' \in [FragStreams -> Coming] /\ count' = count /\ batch' = batch /\ batch
      /\ coming[s] # NoMsg
      /\ \A t \in FragStreams \ {s} : coming'[t] = coming[t]
  BY <1>1, TakenFacts
<1>5. /\ f \in Fragment /\ f.buffer \in 0 .. A /\ A \in Nat /\ allocs <= A
      /\ LiveThen(s) \subseteq 1 .. A /\ heap \subseteq LiveThen(s)
      /\ f.length > 0 => f.buffer \in LiveThen(s) \ free
      /\ f.buffer # None => \A t \in FragStreams \ {s} : frag[t].buffer # f.buffer
      /\ \A k \in 1 .. Len(queue) : queue[k].frag => queue[k].buf # f.buffer
  BY <1>3, <1>4, BegunFacts
<1>6. f.length > 0 /\ f.buffer \in 1 .. A
  <2>1. f.length > 0
    BY <1>2, <1>5 DEF Completes, Fragment
  <2> QED BY <1>5, <2>1
<1>7. PICK g \in Fragment : /\ frag' = [frag EXCEPT ![s] = g] /\ g.buffer = f.buffer /\ g.length = 0
  <2> DEFINE h == [f EXCEPT !.length = 0]
  <2>1. h \in Fragment /\ h.buffer = f.buffer /\ h.length = 0
    BY <1>5 DEF Fragment
  <2>2. frag' = [frag EXCEPT ![s] = h]
    BY <1>2
  <2> HIDE DEF h
  <2> QED BY <2>1, <2>2
<1>8. allocs' \in Nat /\ A <= allocs' /\ dest \subseteq 1 .. allocs' /\ \A b \in dest : b = A + 1
  <2>1. CASE dest = {}
    BY <1>2, <1>3, <1>5, <2>1, FS_EmptySet
  <2>2. CASE dest = {A + 1}
    <3>1. Cardinality(dest) = 1
      BY <2>2, FS_Singleton
    <3> QED BY <1>2, <1>3, <1>5, <2>2, <3>1
  <2> QED BY <1>2, <1>3, <2>1, <2>2
<1>9. /\ Buffers' /\ frag' \in [FragStreams -> Fragment] /\ frag'[s] = g
      /\ \A t \in FragStreams \ {s} : frag'[t] = frag[t]
  <2>1. ASSUME NEW t \in FragStreams \ {s}, frag[t].length > 0
        PROVE  frag[t].buffer \in heap' \ free'
    <3>1. frag[t].buffer \in heap \ free /\ frag[t].buffer \in 0 .. allocs /\ allocs \in Nat
      BY <1>t, <2>1 DEF Buffers, DeliveryTypes
    <3>2. frag[t].buffer # A + 1
      BY <1>5, <3>1
    <3>3. frag[t].buffer \in heap' /\ frag[t].buffer \notin dest
      BY <1>2, <1>5, <1>8, <3>1, <3>2
    <3>4. frag[t].buffer # f.buffer
      BY <1>5, <1>6 DEF None
    <3> QED BY <1>2, <3>1, <3>3, <3>4
  <2>2. \A k \in 1 .. Len(queue') : queue'[k].frag =>
           /\ queue'[k].buf \in heap' /\ queue'[k].buf # g.buffer
           /\ \A t \in FragStreams \ {s} : frag[t].buffer # queue'[k].buf
    BY <1>t, <1>1, <1>2, <1>5, <1>7 DEF Buffers
  <2>3. \A k \in 1 .. Len(handed') : handed'[k].frag => handed'[k].live
    BY <1>t, <1>1 DEF Buffers
  <2>4. g.buffer \in 0 .. allocs' /\ allocs <= allocs' /\ ~(g.length > 0)
    BY <1>5, <1>7, <1>8, <1>t DEF DeliveryTypes
  <2>5. g.buffer # None => \A t \in FragStreams \ {s} : frag[t].buffer # g.buffer
    BY <1>5, <1>7
  <2> QED BY <1>t, <1>7, <1>8, <2>1, <2>2, <2>3, <2>4, <2>5, BuffersKept
<1>10. InTurn'
  BY <1>1, FragmentTurn
<1>11. Reassembles'
  BY <1>t, <1>1, <1>4, <1>9, Others
<1>12. DeliveryTypes'
  <2>1. 1 .. A \subseteq 1 .. allocs' /\ 1 .. allocs \subseteq 1 .. A
    BY <1>5, <1>8, <1>t DEF DeliveryTypes
  <2>2. free \subseteq 1 .. allocs
    BY <1>t DEF DeliveryTypes
  <2>3. free' \subseteq 1 .. allocs' /\ heap' \subseteq 1 .. allocs'
    BY <1>2, <1>5, <1>6, <1>8, <2>1, <2>2, Zenon
  <2> QED BY <1>t, <1>1, <1>4, <1>8, <1>9, <2>3 DEF DeliveryTypes
<1>13. Accounted'
  BY <1>1 DEF Accounted
<1> QED BY <1>9, <1>10, <1>11, <1>12, <1>13 DEF DeliveryInv

LEMMA NoBufferKeepsInv ==
  ASSUME DeliveryInv, NEW s \in FragStreams, OnFragmentNoBuffer(s)
  PROVE  DeliveryInv'
<1>t. DeliveryTypes /\ InTurn /\ Reassembles /\ Buffers /\ Accounted
  BY DEF DeliveryInv
<1>1. /\ FragmentTaken(s) /\ queue' = queue /\ failed' = failed \union {s} /\ handed' = handed
      /\ free' = free /\ heap' = heap /\ allocs' = allocs /\ frag[s].offset = 0
  BY DEF OnFragmentNoBuffer, Starting
<1>2. /\ coming' \in [FragStreams -> Coming] /\ count' = count /\ batch' = batch /\ batch
      /\ \A t \in FragStreams \ {s} : coming'[t] = coming[t]
  BY <1>1, TakenFacts
<1>3. frag[s] \in Fragment /\ frag[s].length = 0
  BY <1>t, <1>1 DEF DeliveryTypes, Buffers
<1>4. PICK g \in Fragment : frag' = [frag EXCEPT ![s] = g] /\ g.buffer = 0 /\ g.length = 0
  <2> DEFINE h == [frag[s] EXCEPT !.buffer = None]
  <2>1. h \in Fragment /\ h.buffer = 0 /\ h.length = 0
    BY <1>3 DEF Fragment, None
  <2>2. frag' = [frag EXCEPT ![s] = h]
    BY <1>t DEF OnFragmentNoBuffer, DeliveryTypes
  <2> HIDE DEF h
  <2> QED BY <2>1, <2>2
<1>5. /\ Buffers' /\ frag' \in [FragStreams -> Fragment] /\ frag'[s] = g
      /\ \A t \in FragStreams \ {s} : frag'[t] = frag[t]
  <2>1. \A t \in FragStreams \ {s} : frag[t].length > 0 => frag[t].buffer \in heap' \ free'
    BY <1>t, <1>1 DEF Buffers
  <2>2. \A k \in 1 .. Len(queue') : queue'[k].frag =>
           /\ queue'[k].buf \in heap' /\ queue'[k].buf # g.buffer
           /\ \A t \in FragStreams \ {s} : frag[t].buffer # queue'[k].buf
    BY <1>t, <1>1, <1>4 DEF Buffers, DeliveryTypes
  <2>3. \A k \in 1 .. Len(handed') : handed'[k].frag => handed'[k].live
    BY <1>t, <1>1 DEF Buffers
  <2>4. allocs' \in Nat /\ allocs <= allocs' /\ g.buffer \in 0 .. allocs' /\ ~(g.length > 0)
    BY <1>t, <1>1, <1>4 DEF DeliveryTypes
  <2> QED BY <1>t, <1>4, <2>1, <2>2, <2>3, <2>4, BuffersKept DEF None
<1>6. InTurn'
  BY <1>1, FragmentTurn
<1>7. Reassembles'
  BY <1>t, <1>1, <1>2, <1>5, Others
<1>8. DeliveryTypes'
  BY <1>t, <1>1, <1>2, <1>5 DEF DeliveryTypes
<1>9. Accounted'
  BY <1>1 DEF Accounted
<1> QED BY <1>5, <1>6, <1>7, <1>8, <1>9 DEF DeliveryInv

LEMMA AbortKeepsInv ==
  ASSUME DeliveryInv, NEW s \in FragStreams, OnFragmentAbort(s)
  PROVE  DeliveryInv'
<1>t. DeliveryTypes /\ InTurn /\ Reassembles /\ Buffers /\ Accounted
  BY DEF DeliveryInv
<1>1. /\ coming' = [coming EXCEPT ![s] = NoMsg] /\ heap' = heap \ {frag[s].buffer}
      /\ queue' = queue /\ failed' = failed \union {s} /\ handed' = handed /\ count' = count
      /\ free' = free /\ allocs' = allocs /\ batch' = batch /\ whole' = whole /\ batch
  BY DEF OnFragmentAbort
<1>2. /\ coming' \in [FragStreams -> Coming] /\ coming'[s] = NoMsg
      /\ \A t \in FragStreams \ {s} : coming'[t] = coming[t]
  <2>1. NoMsg \in Coming /\ coming \in [FragStreams -> Coming]
    BY <1>t DEF NoMsg, Coming, DeliveryTypes
  <2> QED BY <1>1, <2>1
<1>3. frag[s] \in Fragment
  BY <1>t DEF DeliveryTypes
<1>4. PICK g \in Fragment : /\ frag' = [frag EXCEPT ![s] = g] /\ g.buffer = frag[s].buffer
                            /\ g.length = 0
  <2> DEFINE h == [frag[s] EXCEPT !.length = 0]
  <2>1. h \in Fragment /\ h.buffer = frag[s].buffer /\ h.length = 0
    BY <1>3 DEF Fragment
  <2>2. frag' = [frag EXCEPT ![s] = h]
    BY <1>t DEF OnFragmentAbort, DeliveryTypes
  <2> HIDE DEF h
  <2> QED BY <2>1, <2>2
<1>5. /\ Buffers' /\ frag' \in [FragStreams -> Fragment] /\ frag'[s] = g
      /\ \A t \in FragStreams \ {s} : frag'[t] = frag[t]
  <2>0. \A t \in FragStreams \ {s} : frag[s].buffer # None => frag[t].buffer # frag[s].buffer
    BY <1>t DEF Buffers
  <2>1. ASSUME NEW t \in FragStreams \ {s}, frag[t].length > 0
        PROVE  frag[t].buffer \in heap' \ free'
    <3>1. frag[t].buffer \in heap \ free /\ frag[t].buffer # None
      BY <1>t, <2>1 DEF Buffers, DeliveryTypes, None
    <3> QED BY <1>1, <2>0, <3>1
  <2>2. \A k \in 1 .. Len(queue') : queue'[k].frag =>
           /\ queue'[k].buf \in heap' /\ queue'[k].buf # g.buffer
           /\ \A t \in FragStreams \ {s} : frag[t].buffer # queue'[k].buf
    BY <1>t, <1>1, <1>4 DEF Buffers
  <2>3. \A k \in 1 .. Len(handed') : handed'[k].frag => handed'[k].live
    BY <1>t, <1>1 DEF Buffers
  <2>4. allocs' \in Nat /\ allocs <= allocs' /\ g.buffer \in 0 .. allocs' /\ ~(g.length > 0)
    BY <1>t, <1>1, <1>4 DEF DeliveryTypes, Buffers
  <2>5. g.buffer # None => \A t \in FragStreams \ {s} : frag[t].buffer # g.buffer
    BY <1>4, <2>0
  <2> QED BY <1>t, <1>4, <2>1, <2>2, <2>3, <2>4, <2>5, BuffersKept
<1>6. InTurn'
  <2>1. PICK N : N = Logged
    OBVIOUS
  <2>2. N \in Nat /\ \A k \in 1 .. N : StreamAt(k) \in FragStreams /\ MsgAt(k) \in Nat
    BY <1>t, <2>1, LogTypes
  <2>3. Logged' = N /\ \A k \in 1 .. N : StreamAt(k)' = StreamAt(k) /\ MsgAt(k)' = MsgAt(k)
    BY <1>1, <2>1 DEF Logged, StreamAt, MsgAt
  <2>4. \A t \in FragStreams : count[t] \in Nat /\ count'[t] \in Nat /\ count[t] <= count'[t]
    BY <1>1, <1>t DEF DeliveryTypes
  <2>5. \A t \in FragStreams : coming'[t] # NoMsg =>
          /\ coming[t] # NoMsg
          /\ coming'[t].msg = count'[t] /\ coming'[t].left \in 1 .. coming'[t].total
    BY <1>1, <1>2, <1>t DEF InTurn
  <2> QED BY <1>t, <1>1, <2>1, <2>2, <2>3, <2>4, <2>5, TurnKept
<1>7. Reassembles'
  BY <1>t, <1>1, <1>2, <1>5, Others
<1>8. DeliveryTypes'
  BY <1>t, <1>1, <1>2, <1>5 DEF DeliveryTypes
<1>9. Accounted'
  BY <1>1 DEF Accounted
<1> QED BY <1>5, <1>6, <1>7, <1>8, <1>9 DEF DeliveryInv

LEMMA CompleteKeepsInv ==
  ASSUME DeliveryInv, NEW s \in FragStreams, OnFragmentComplete(s)
  PROVE  DeliveryInv'
<1>t. DeliveryTypes /\ InTurn /\ Reassembles /\ Buffers /\ Accounted
  BY DEF DeliveryInv
<1>1. FragmentTaken(s) /\ failed' = failed
  BY DEF OnFragmentComplete
<1>2. PICK A : A = Allocated(s)
  OBVIOUS
<1>3. PICK f \in Begun(s) :
        /\ Completes(f) /\ frag' = [frag EXCEPT ![s] = Finished(f)]
        /\ LET dest == A + 1
               zip  == coming[s].zip
               bufs == {f.buffer} \union (IF zip THEN {dest} ELSE {})
           IN  /\ allocs' = A + (IF zip THEN 1 ELSE 0)
               /\ QueueDelivery([stream |-> s, msg |-> coming[s].msg, frag |-> TRUE,
                                 buf |-> IF zip THEN dest ELSE f.buffer],
                                QueueFragFree(bufs), LiveThen(s) \union bufs)
  BY <1>2 DEF OnFragmentComplete
<1>4. /\ coming' \in [FragStreams -> Coming] /\ count' = count /\ batch' = batch /\ batch
      /\ coming[s] \in Coming /\ coming[s] # NoMsg /\ coming[s].msg = count[s]
      /\ \A t \in FragStreams \ {s} : coming'[t] = coming[t]
      /\ coming[s].left = 1 => coming'[s] = NoMsg
      /\ \A t \in FragStreams : coming'[t] # NoMsg =>
           /\ coming[t] # NoMsg
           /\ coming'[t].msg = count'[t] /\ coming'[t].left \in 1 .. coming'[t].total
      /\ \A m \in whole' : m \in whole \/ (m.stream = s /\ m.msg = coming[s].msg)
  BY <1>1, TakenFacts
<1>5. /\ f \in Fragment /\ f.buffer \in 0 .. A /\ A \in Nat /\ allocs <= A
      /\ LiveThen(s) \subseteq 1 .. A /\ heap \subseteq LiveThen(s)
      /\ f.length > 0 => f.buffer \in LiveThen(s) \ free
      /\ f.buffer # None => \A t \in FragStreams \ {s} : frag[t].buffer # f.buffer
      /\ \A k \in 1 .. Len(queue) : queue[k].frag => queue[k].buf # f.buffer
      /\ \A b \in LiveThen(s) \ heap : b = f.buffer
      /\ s \notin failed => frag[s].buffer = None \/ frag[s].buffer = f.buffer
  BY <1>2, <1>4, BegunFacts
<1>6. f.length > 0 /\ f.buffer \in 1 .. A /\ f.buffer \in LiveThen(s)
  <2>1. f.length > 0
    BY <1>3, <1>5 DEF Completes, Fragment
  <2> QED BY <1>5, <2>1
<1>7. s \notin failed => coming'[s] = NoMsg
  BY <1>3, <1>4, LastFragment
(* The buffers: the message's own and, if it was compressed, another. *)
<1>8. PICK B, e :
        /\ B \subseteq 1 .. allocs' /\ f.buffer \in B /\ (\A b \in B : b = f.buffer \/ b = A + 1)
        /\ B = {f.buffer} \/ B = {f.buffer} \union {A + 1}
        /\ allocs' \in Nat /\ A <= allocs'
        /\ e \in Entry /\ e.stream = s /\ e.msg = coming[s].msg /\ e.buf \in B
        /\ QueueDelivery(e, free \union B, LiveThen(s) \union B)
  <2>1. coming[s].msg \in Nat /\ coming[s].zip \in BOOLEAN
    BY <1>4 DEF Coming
  <2>2. CASE coming[s].zip
    <3> DEFINE B == {f.buffer} \union {A + 1}
               e == [stream |-> s, msg |-> coming[s].msg, frag |-> TRUE, buf |-> A + 1]
    <3>1. allocs' = A + 1 /\ QueueDelivery(e, free \union B, LiveThen(s) \union B)
      BY <1>3, <2>2 DEF QueueFragFree
    <3>2. e \in Entry /\ e.stream = s /\ e.msg = coming[s].msg /\ e.buf \in B
      BY <1>5, <2>1 DEF Entry
    <3>3. allocs' \in Nat /\ A <= allocs' /\ B \subseteq 1 .. allocs'
      BY <1>5, <1>6, <3>1
    <3> HIDE DEF e
    <3>4. f.buffer \in B /\ (\A b \in B : b = f.buffer \/ b = A + 1)
      OBVIOUS
    <3> QED BY <3>1, <3>2, <3>3, <3>4
  <2>3. CASE ~coming[s].zip
    <3> DEFINE B == {f.buffer}
               e == [stream |-> s, msg |-> coming[s].msg, frag |-> TRUE, buf |-> f.buffer]
    <3>0. {f.buffer} \union {} = B
      OBVIOUS
    <3>1. allocs' = A + 0 /\ QueueDelivery(e, free \union B, LiveThen(s) \union B)
      BY <1>3, <2>3, <3>0 DEF QueueFragFree
    <3>2. e \in Entry /\ e.stream = s /\ e.msg = coming[s].msg /\ e.buf \in B
      BY <1>5, <2>1 DEF Entry, Fragment
    <3>3. allocs' \in Nat /\ A <= allocs' /\ B \subseteq 1 .. allocs'
      BY <1>5, <1>6, <3>1
    <3> HIDE DEF e
    <3>4. f.buffer \in B /\ (\A b \in B : b = f.buffer \/ b = A + 1)
      OBVIOUS
    <3> QED BY <3>1, <3>2, <3>3, <3>4
  <2> QED BY <2>2, <2>3
<1>9. PICK g \in Fragment : /\ frag' = [frag EXCEPT ![s] = g] /\ g.buffer = 0 /\ g.length = 0
  <2>1. Finished(f) \in Fragment /\ Finished(f).buffer = 0 /\ Finished(f).length = 0
    BY <1>5 DEF Fragment, Finished, None
  <2> QED BY <1>3, <2>1
<1>10. PICK N : N = Logged
  OBVIOUS
<1>11. /\ queue' \in Seq(Entry) /\ Len(queue') < Depth /\ handed' \in Seq(Handed)
       /\ N \in Nat /\ Logged' = N + 1
       /\ \A k \in 1 .. N : StreamAt(k)' = StreamAt(k) /\ MsgAt(k)' = MsgAt(k)
       /\ StreamAt(N + 1)' = s /\ MsgAt(N + 1)' = coming[s].msg
  BY <1>t, <1>8, <1>10, LogGrows
<1>12. PICK live : live = LiveThen(s) \union B
  OBVIOUS
<1>13. /\ \A k \in 1 .. Len(handed') : handed'[k].frag => handed'[k].live
       /\ \A k \in 1 .. Len(queue') : queue'[k].frag =>
            /\ queue'[k].buf \in heap'
            /\ \/ \E j \in 1 .. Len(queue) : queue[j].frag /\ queue[j].buf = queue'[k].buf
               \/ queue'[k].buf = e.buf
       /\ \/ free' = free \union B /\ heap' = live /\ Len(queue') = Len(queue) + 1
          \/ free' = {} /\ heap' = live \ (free \union B) /\ Len(queue') = 0
  <2>1. heap \subseteq live /\ e.buf \in live /\ QueueDelivery(e, free \union B, live)
    BY <1>5, <1>8, <1>12
  <2> QED BY <1>t, <1>8, <2>1, QueueBuffers
(* No other stream owns one of them. *)
<1>14. \A t \in FragStreams \ {s} : frag[t].buffer \notin B
  <2> SUFFICES ASSUME NEW t \in FragStreams \ {s} PROVE frag[t].buffer \notin B
    OBVIOUS
  <2>1. frag[t].buffer \in 0 .. allocs /\ allocs \in Nat
    BY <1>t DEF Buffers, DeliveryTypes
  <2>2. frag[t].buffer # A + 1
    BY <1>5, <2>1
  <2>3. frag[t].buffer # f.buffer
    BY <1>5, <1>6 DEF None
  <2> QED BY <1>8, <2>2, <2>3
<1>15. /\ Buffers' /\ frag' \in [FragStreams -> Fragment] /\ frag'[s] = g
       /\ \A t \in FragStreams \ {s} : frag'[t] = frag[t]
  <2>1. ASSUME NEW t \in FragStreams \ {s}, frag[t].length > 0
        PROVE  frag[t].buffer \in heap' \ free'
    <3>1. frag[t].buffer \in heap \ free
      BY <1>t, <2>1 DEF Buffers
    <3> QED BY <1>5, <1>12, <1>13, <1>14, <3>1
  <2>2. ASSUME NEW k \in 1 .. Len(queue'), queue'[k].frag
        PROVE  /\ queue'[k].buf \in heap' /\ queue'[k].buf # g.buffer
               /\ \A t \in FragStreams \ {s} : frag[t].buffer # queue'[k].buf
    <3>1. queue'[k].buf \in heap'
      BY <1>13, <2>2
    <3>2. 0 \notin heap'
      BY <1>5, <1>8, <1>12, <1>13
    <3>3. CASE queue'[k].buf = e.buf
      BY <1>8, <1>9, <1>14, <3>1, <3>2, <3>3
    <3>4. CASE \E j \in 1 .. Len(queue) : queue[j].frag /\ queue[j].buf = queue'[k].buf
      BY <1>t, <1>9, <3>1, <3>2, <3>4 DEF Buffers
    <3> QED BY <1>13, <2>2, <3>3, <3>4
  <2>4. allocs <= allocs' /\ g.buffer \in 0 .. allocs' /\ ~(g.length > 0)
    BY <1>t, <1>5, <1>8, <1>9 DEF DeliveryTypes
  <2> QED BY <1>t, <1>8, <1>9, <1>13, <2>1, <2>2, <2>4, BuffersKept DEF None
<1>16. InTurn'
  <2>1. \A k \in 1 .. N : StreamAt(k) \in FragStreams /\ MsgAt(k) \in Nat
    BY <1>t, <1>10, LogTypes
  <2>2. \A t \in FragStreams : count[t] \in Nat /\ count'[t] \in Nat /\ count[t] <= count'[t]
    BY <1>4, <1>t DEF DeliveryTypes
  <2>3. coming[s].msg \in Nat /\ count[s] <= coming[s].msg /\ coming[s].msg <= count'[s]
    BY <1>4, <2>2
  <2>4. \A t \in FragStreams : t \notin failed /\ coming'[t] # NoMsg => coming[t] # NoMsg /\ t # s
    BY <1>4, <1>7
  <2> QED BY <1>t, <1>1, <1>4, <1>10, <1>11, <2>1, <2>2, <2>3, <2>4, TurnTaken
<1>17. Reassembles'
  <2>1. s \notin failed' => Reassembled(s)'
    BY <1>1, <1>7, <1>9, <1>15 DEF Reassembled, None
  <2> QED BY <1>t, <1>1, <1>4, <1>15, <2>1, Others
<1>18. DeliveryTypes'
  <2>1. 1 .. A \subseteq 1 .. allocs' /\ 1 .. allocs \subseteq 1 .. A
    BY <1>5, <1>8, <1>t DEF DeliveryTypes
  <2>2. free \subseteq 1 .. allocs
    BY <1>t DEF DeliveryTypes
  <2>3. free \union B \subseteq 1 .. allocs' /\ live \subseteq 1 .. allocs'
    BY <1>5, <1>8, <1>12, <2>1, <2>2, Zenon
  <2>4. free' \subseteq 1 .. allocs' /\ heap' \subseteq 1 .. allocs'
    BY <1>13, <2>3
  <2> QED BY <1>t, <1>1, <1>4, <1>8, <1>11, <1>15, <2>4 DEF DeliveryTypes
<1>19. Accounted'
  <2> SUFFICES ASSUME failed = {}
               PROVE  /\ Cardinality(free') <= 2 * Len(queue')
                      /\ \A b \in heap' \ free' : \E t \in FragStreams : frag'[t].buffer = b
    BY <1>1 DEF Accounted
  <2>1. Cardinality(free') <= 2 * Len(queue')
    <3>1. Cardinality(free) <= 2 * Len(queue) /\ Len(queue) \in Nat
      BY <1>t DEF Accounted, DeliveryTypes
    <3>2. IsFiniteSet(free) /\ Cardinality(free) \in Nat
      BY <1>t, FreeFinite
    <3>3. IsFiniteSet(free \union {f.buffer}) /\ Cardinality(free \union {f.buffer}) \in Nat
            /\ Cardinality(free \union {f.buffer}) <= Cardinality(free) + 1
      BY <3>2, CardinalityGrows
    <3>4. Cardinality((free \union {f.buffer}) \union {A + 1}) \in Nat
            /\ Cardinality((free \union {f.buffer}) \union {A + 1}) <= Cardinality(free) + 2
      <4>1. PICK S : S = free \union {f.buffer}
        OBVIOUS
      <4>2. /\ Cardinality(S \union {A + 1}) \in Nat /\ Cardinality(S) \in Nat
            /\ Cardinality(S \union {A + 1}) <= Cardinality(S) + 1
        BY <3>3, <4>1, CardinalityGrows
      <4>3. Cardinality(S) <= Cardinality(free) + 1
        BY <3>3, <4>1
      <4>4. Cardinality(S \union {A + 1}) <= Cardinality(free) + 2
        BY <3>2, <4>2, <4>3
      <4> QED BY <4>1, <4>2, <4>4
    <3>5. \/ free \union B = free \union {f.buffer}
          \/ free \union B = (free \union {f.buffer}) \union {A + 1}
      BY <1>8
    <3>6. Cardinality(free \union B) <= Cardinality(free) + 2
      <4>1. CASE free \union B = free \union {f.buffer}
        <5>1. Cardinality(free \union B) = Cardinality(free \union {f.buffer})
          BY <4>1
        <5> QED BY <3>2, <3>3, <5>1
      <4>2. CASE free \union B = (free \union {f.buffer}) \union {A + 1}
        <5>1. Cardinality(free \union B) = Cardinality((free \union {f.buffer}) \union {A + 1})
          BY <4>2
        <5> QED BY <3>2, <3>4, <5>1
      <4> QED BY <3>5, <4>1, <4>2
    <3>8. Cardinality(free \union B) \in Nat
      <4>1. CASE free \union B = free \union {f.buffer}
        BY <3>3, <4>1
      <4>2. CASE free \union B = (free \union {f.buffer}) \union {A + 1}
        BY <3>4, <4>2
      <4> QED BY <3>5, <4>1, <4>2
    <3>9. CASE free' = free \union B /\ Len(queue') = Len(queue) + 1
      <4>1. Cardinality(free') = Cardinality(free \union B)
        BY <3>9
      <4> QED BY <3>1, <3>2, <3>6, <3>8, <3>9, <4>1
    <3>10. CASE free' = {} /\ Len(queue') = 0
      <4>1. Cardinality(free') = 0
        BY <3>10, FS_EmptySet
      <4> QED BY <3>10, <4>1
    <3> QED BY <1>13, <3>9, <3>10
  <2>2. ASSUME NEW b \in heap' \ free' PROVE \E t \in FragStreams : frag'[t].buffer = b
    <3>1. b \in live /\ b \notin free /\ b \notin B
      BY <1>12, <1>13
    <3>2. b \in heap /\ b # 0
      BY <1>5, <1>8, <1>12, <3>1
    <3>3. PICK t \in FragStreams : frag[t].buffer = b
      BY <1>t, <3>1, <3>2 DEF Accounted
    <3>4. t # s
      BY <1>5, <1>8, <3>1, <3>2, <3>3 DEF None
    <3> QED BY <1>15, <3>3, <3>4
  <2> QED BY <2>1, <2>2
<1> QED BY <1>15, <1>16, <1>17, <1>18, <1>19 DEF DeliveryInv

-----------------------------------------------------------------------------
LEMMA DeliveryStep ==
  ASSUME ~Reuse, DeliveryInv, [DeliveryNext]_deliveryVars
  PROVE  DeliveryInv'
<1>1. CASE UNCHANGED deliveryVars
  BY <1>1 DEF deliveryVars, DeliveryInv, DeliveryTypes, InTurn, Reassembles, Reassembled,
              Buffers, Accounted, Logged, StreamAt, MsgAt
<1>2. CASE OnTransportDatagrams
  BY <1>2, BatchKeepsInv
<1>3. CASE DeliverQueued
  BY <1>3, DeliverKeepsInv
<1>4. ASSUME NEW s \in FragStreams,
             \/ ProcessInOrder(s)
             \/ RunReliableReceiveQueue(s)
             \/ \E n \in Lengths, zip \in Zipped : FragmentedMessage(s, n, zip)
             \/ OnFragmentCopy(s)
             \/ OnFragmentComplete(s)
             \/ OnFragmentFails(s)
             \/ OnFragmentNoBuffer(s)
             \/ OnFragmentAbort(s)
      PROVE  DeliveryInv'
  BY <1>4, ProcessInOrderKeepsInv, WaitingKeepsInv, FragmentedKeepsInv, CopyKeepsInv,
     CompleteKeepsInv, FailsKeepsInv, NoBufferKeepsInv, AbortKeepsInv
<1> QED BY <1>1, <1>2, <1>3, <1>4 DEF DeliveryNext

LEMMA DeliveryBegins ==
  ASSUME DeliveryInit
  PROVE  DeliveryInv
<1>1. MaxMessages \in Nat /\ Depth \in Nat \ {0}
  BY DeliveryAssumption DEF DeliveryAssumption
<1>2. NoMsg \in Coming /\ NoFrag \in Fragment
  BY DEF NoMsg, Coming, NoFrag, Fragment, None
<1>3. Len(queue) = 0 /\ Len(handed) = 0 /\ queue \in Seq(Entry) /\ handed \in Seq(Handed)
  BY DEF DeliveryInit
<1>4. /\ \A s \in FragStreams : coming[s] = NoMsg /\ frag[s].length = 0 /\ frag[s].buffer = None
      /\ free = {} /\ heap = {} /\ whole = {} /\ allocs = 0
  BY DEF DeliveryInit, NoFrag
<1>5. DeliveryTypes
  <2>1. coming \in [FragStreams -> Coming] /\ frag \in [FragStreams -> Fragment]
    BY <1>2 DEF DeliveryInit
  <2>2. 0 \in 0 .. MaxMessages
    BY <1>1
  <2>3. count \in [FragStreams -> 0 .. MaxMessages]
    BY <2>2, Zenon DEF DeliveryInit
  <2>4. batch \in BOOLEAN /\ failed \subseteq FragStreams /\ queue = <<>>
    BY Zenon DEF DeliveryInit
  <2> QED BY <1>1, <1>3, <1>4, <2>1, <2>3, <2>4 DEF DeliveryTypes
<1>6. InTurn
  <2>1. \A k \in 1 .. Logged : FALSE
    BY <1>3 DEF Logged
  <2> QED BY <1>4, <2>1 DEF InTurn
<1>7. Reassembles
  BY <1>4 DEF Reassembles, Reassembled
<1>8. Buffers
  <2>1. (\A k \in 1 .. Len(queue) : FALSE) /\ (\A k \in 1 .. Len(handed) : FALSE)
    BY <1>3
  <2> QED BY <1>4, <2>1 DEF Buffers, None
<1>9. Accounted
  BY <1>3, <1>4, FS_EmptySet DEF Accounted
<1> QED BY <1>5, <1>6, <1>7, <1>8, <1>9 DEF DeliveryInv

(* A place of the log lies in what was handed over or in the queue. *)
LEMMA OncePerMessage ==
  ASSUME DeliveryInv, NEW s \in FragStreams, s \notin failed, NEW m,
         NEW k \in 1 .. Logged, StreamAt(k) = s, MsgAt(k) = m
  PROVE  Cardinality({j \in DOMAIN handed : handed[j].stream = s /\ handed[j].msg = m})
          + Cardinality({j \in DOMAIN queue : queue[j].stream = s /\ queue[j].msg = m}) = 1
<1> DEFINE H == Len(handed)
           Q == Len(queue)
           InHanded == {j \in DOMAIN handed : handed[j].stream = s /\ handed[j].msg = m}
           InQueue == {j \in DOMAIN queue : queue[j].stream = s /\ queue[j].msg = m}
<1>1. /\ handed \in Seq(Handed) /\ queue \in Seq(Entry) /\ H \in Nat /\ Q \in Nat
      /\ DOMAIN handed = 1 .. H /\ DOMAIN queue = 1 .. Q /\ Logged = H + Q
  BY DEF DeliveryInv, DeliveryTypes, Logged
<1>2. \A j \in 1 .. Logged : StreamAt(j) = s /\ MsgAt(j) = m => j = k
  <2> SUFFICES ASSUME NEW j \in 1 .. Logged, StreamAt(j) = s, MsgAt(j) = m, j # k PROVE FALSE
    OBVIOUS
  <2>1. MsgAt(j) \in Nat /\ MsgAt(k) \in Nat
    BY LogTypes DEF DeliveryInv
  <2>2. j \in Int /\ k \in Int
    BY <1>1
  <2>3. CASE j < k
    BY <2>1, <2>3 DEF DeliveryInv, InTurn
  <2>4. CASE k < j
    BY <2>1, <2>4 DEF DeliveryInv, InTurn
  <2> QED BY <2>2, <2>3, <2>4
<1>3. \A j \in InHanded : j \in 1 .. H /\ j = k
  <2> SUFFICES ASSUME NEW j \in InHanded PROVE j \in 1 .. H /\ j = k
    OBVIOUS
  <2>1. j \in 1 .. H /\ j \in 1 .. Logged /\ j <= H
    BY <1>1
  <2>2. StreamAt(j) = s /\ MsgAt(j) = m
    BY <2>1 DEF StreamAt, MsgAt
  <2> QED BY <1>2, <2>1, <2>2
<1>4. \A j \in InQueue : j \in 1 .. Q /\ H + j = k
  <2> SUFFICES ASSUME NEW j \in InQueue PROVE j \in 1 .. Q /\ H + j = k
    OBVIOUS
  <2>1. j \in 1 .. Q /\ H + j \in 1 .. Logged /\ ~(H + j <= H) /\ (H + j) - H = j
    BY <1>1
  <2>2. StreamAt(H + j) = s /\ MsgAt(H + j) = m
    BY <2>1 DEF StreamAt, MsgAt
  <2> QED BY <1>2, <2>1, <2>2
<1>5. CASE k <= H
  <2>1. k \in InHanded
    BY <1>1, <1>5 DEF StreamAt, MsgAt
  <2>2. \A j \in InQueue : FALSE
    <3> HIDE DEF InQueue
    <3> QED BY <1>1, <1>4, <1>5
  <2> HIDE DEF InHanded, InQueue
  <2>3. InHanded = {k} /\ InQueue = {}
    BY <1>3, <2>1, <2>2
  <2>4. Cardinality(InHanded) = 1 /\ Cardinality(InQueue) = 0
    BY <2>3, FS_EmptySet, FS_Singleton
  <2>5. Cardinality(InHanded) + Cardinality(InQueue) = 1
    BY <2>4
  <2> QED BY <2>5 DEF InHanded, InQueue
<1>6. CASE ~(k <= H)
  <2>0. k - H \in 1 .. Q /\ H + (k - H) = k
    BY <1>1, <1>6
  <2>1. k - H \in InQueue
    BY <1>1, <1>6, <2>0 DEF StreamAt, MsgAt
  <2>2. \A j \in InHanded : FALSE
    <3> HIDE DEF InHanded
    <3> QED BY <1>1, <1>3, <1>6
  <2>3. PICK i : i = k - H
    OBVIOUS
  <2> HIDE DEF InHanded, InQueue
  <2>4. \A j \in InQueue : j = i
    BY <1>1, <1>4, <2>3
  <2>5. InQueue = {i} /\ InHanded = {}
    BY <2>1, <2>2, <2>3, <2>4
  <2>6. Cardinality(InHanded) = 0 /\ Cardinality(InQueue) = 1
    BY <2>5, FS_EmptySet, FS_Singleton
  <2>7. Cardinality(InHanded) + Cardinality(InQueue) = 1
    BY <2>6
  <2> QED BY <2>7 DEF InHanded, InQueue
<1> QED BY <1>5, <1>6

LEMMA InvDeliveryRight ==
  ASSUME DeliveryInv
  PROVE  DeliveryRight
<1>t. DeliveryTypes /\ InTurn /\ Reassembles /\ Buffers /\ Accounted
  BY DEF DeliveryInv
<1>d. /\ handed \in Seq(Handed) /\ queue \in Seq(Entry) /\ Len(handed) \in Nat /\ Len(queue) \in Nat
      /\ DOMAIN handed = 1 .. Len(handed)
  BY <1>t DEF DeliveryTypes
<1>1. DeliveryTypeOK
  BY <1>t DEF DeliveryTypes, DeliveryTypeOK, Coming, Fragment
<1>2. ReassembledDelivered
  <2> SUFFICES ASSUME NEW m \in whole, m.stream \notin failed
               PROVE  Cardinality({k \in DOMAIN handed :
                               handed[k].stream = m.stream /\ handed[k].msg = m.msg})
                        + Cardinality({k \in DOMAIN queue :
                               queue[k].stream = m.stream /\ queue[k].msg = m.msg}) = 1
    BY DEF ReassembledDelivered
  <2>1. PICK k \in 1 .. Logged : StreamAt(k) = m.stream /\ MsgAt(k) = m.msg
    BY <1>t DEF InTurn
  <2>2. m.stream \in FragStreams
    BY <1>t, <2>1, LogTypes
  <2> QED BY <2>1, <2>2, OncePerMessage
<1>3. HandedInOrder
  <2> SUFFICES ASSUME NEW j \in 1 .. Len(handed), NEW k \in 1 .. Len(handed), j < k,
                      handed[j].stream = handed[k].stream
               PROVE  handed[j].msg <= handed[k].msg
    BY <1>d DEF HandedInOrder
  <2>1. j \in 1 .. Logged /\ k \in 1 .. Logged /\ j <= Len(handed) /\ k <= Len(handed)
    BY <1>d DEF Logged
  <2>2. /\ StreamAt(j) = handed[j].stream /\ StreamAt(k) = handed[k].stream
        /\ MsgAt(j) = handed[j].msg /\ MsgAt(k) = handed[k].msg
    BY <2>1 DEF StreamAt, MsgAt
  <2>3. j < k /\ StreamAt(j) = StreamAt(k)
    BY <2>2
  <2>4. MsgAt(j) <= MsgAt(k)
    BY <1>t, <2>1, <2>3 DEF InTurn
  <2> QED BY <2>2, <2>4
<1>4. ReassembledLive
  BY <1>t, <1>d DEF ReassembledLive, Buffers
<1>5. FragmentBufferLive
  <2> SUFFICES ASSUME NEW s \in FragStreams, s \notin failed
               PROVE  frag[s].buffer \in heap \union {None}
    BY DEF FragmentBufferLive
  <2>1. coming[s] \in Coming
    BY <1>t DEF DeliveryTypes
  <2>2. CASE coming[s] = NoMsg \/ coming[s].left = coming[s].total
    BY <1>t, <2>2 DEF Reassembles, Reassembled
  <2>3. CASE ~(coming[s] = NoMsg \/ coming[s].left = coming[s].total)
    <3>1. frag[s].length = coming[s].total
      BY <1>t, <2>3 DEF Reassembles, Reassembled
    <3>2. coming[s].left \in 1 .. coming[s].total /\ coming[s].total \in Nat
      BY <1>t, <2>1, <2>3 DEF InTurn, Coming
    <3>3. frag[s].length > 0
      BY <3>1, <3>2
    <3> QED BY <1>t, <3>3 DEF Buffers
  <2> QED BY <2>2, <2>3
<1>6. FreeListBound
  <2> SUFFICES ASSUME failed = {} PROVE Cardinality(free) <= 2 * Depth
    BY DEF FreeListBound
  <2>1. Cardinality(free) <= 2 * Len(queue) /\ Len(queue) < Depth
    BY <1>t DEF Accounted, DeliveryTypes
  <2>2. Cardinality(free) \in Nat /\ Depth \in Nat
    BY <1>t, FreeFinite, DeliveryAssumption DEF DeliveryAssumption
  <2> QED BY <1>d, <2>1, <2>2
<1>7. NothingLeaked
  <2> SUFFICES ASSUME ~batch, failed = {}
               PROVE  \A b \in heap : \E s \in FragStreams : frag[s].buffer = b
    BY DEF NothingLeaked
  <2>1. /\ Cardinality(free) <= 2 * Len(queue)
        /\ \A b \in heap \ free : \E t \in FragStreams : frag[t].buffer = b
    BY <1>t DEF Accounted
  <2>2. queue = <<>>
    BY <1>t DEF DeliveryTypes
  <2>3. Len(queue) = 0
    BY <2>2
  <2>4. IsFiniteSet(free) /\ Cardinality(free) \in Nat
    BY <1>t, FreeFinite
  <2>5. free = {}
    BY <2>1, <2>3, <2>4, FS_EmptySet
  <2> QED BY <2>1, <2>5
<1> QED BY <1>1, <1>2, <1>3, <1>4, <1>5, <1>6, <1>7
        DEF DeliveryRight, HandedRight, BuffersSafe

(* For every number of streams and messages, every depth of the delivery queue
   and all lengths, through batches, failures and aborted messages: on streams
   that carry one fragmented message at a time from a fresh _fragments entry,
   every message that arrived whole is handed over exactly once and in its turn
   (OnFragment, QueueDelivery, DeliverQueued), its buffer outlives OnMessages,
   the free list never overflows and nothing leaks.  ~Reuse leaves out the
   second fragmented message of a stream, which the stale offset breaks. *)
THEOREM DeliveryCorrect ==
  ASSUME ~Reuse
  PROVE  DeliverySpec => []DeliveryRight
<1>1. DeliveryInit => DeliveryInv
  BY DeliveryBegins
<1>2. DeliveryInv /\ [DeliveryNext]_deliveryVars => DeliveryInv'
  BY DeliveryStep
<1>3. DeliveryInv => DeliveryRight
  BY InvDeliveryRight
<1> QED BY <1>1, <1>2, <1>3, PTL DEF DeliverySpec

-----------------------------------------------------------------------------
(* The Collexion: a table, its collision flags and the lists through it *)

(* A set of naturals has a least member. *)
LEMMA LeastExists ==
  ASSUME NEW S, S \subseteq Nat, S # {}
  PROVE  \E x \in S : \A y \in S : x <= y
<1> DEFINE R == OpToRel(<, Nat)
<1>1. IsWellFoundedOn(R, Nat)
  BY NatLessThanWellFounded
<1>2. PICK x \in S : \A y \in S : ~(<<y, x>> \in R)
  <2> HIDE DEF R
  <2> QED BY <1>1, WFMin
<1>3. \A y \in S : y < x => <<y, x>> \in R
  BY DEF OpToRel
<1>4. \A y \in S : ~(y < x)
  BY <1>2, <1>3
<1> QED BY <1>4

(* What division and remainder are. *)
LEMMA DivMod ==
  ASSUME NEW x \in Int, NEW m \in Nat \ {0}
  PROVE  x \div m \in Int /\ (x % m) \in 0 .. m - 1 /\ x = m * (x \div m) + (x % m)
BY SMT

(* Multiples of m are m apart. *)
LEMMA ProductLarger ==
  ASSUME NEW m \in Nat \ {0}, NEW a \in Int, NEW b \in Int, a < b
  PROVE  m * a \in Int /\ m * b \in Int /\ m * a + m <= m * b
BY SMT

(* A remainder is known by its range and by what it leaves. *)
LEMMA RemainderIs ==
  ASSUME NEW m \in Nat \ {0}, NEW a \in Int, NEW r \in 0 .. m - 1, NEW x \in Int, x = m * a + r
  PROVE  (x % m) = r
<1>1. PICK q : q = x \div m
  OBVIOUS
<1>2. PICK s : s = (x % m)
  OBVIOUS
<1>3. q \in Int /\ s \in 0 .. m - 1 /\ x = m * q + s
  BY <1>1, <1>2, DivMod
<1>4. a = q
  <2>1. PICK ma : ma = m * a
    OBVIOUS
  <2>2. PICK mq : mq = m * q
    OBVIOUS
  <2>3. ma \in Int /\ mq \in Int
    BY <1>3, <2>1, <2>2
  <2>4. ma + r = mq + s
    BY <1>3, <2>1, <2>2
  <2>5. ASSUME a < q PROVE FALSE
    <3>1. ma + m <= mq
      BY <1>3, <2>1, <2>2, <2>5, ProductLarger
    <3> QED BY <1>3, <2>3, <2>4, <3>1
  <2>6. ASSUME q < a PROVE FALSE
    <3>1. mq + m <= ma
      BY <1>3, <2>1, <2>2, <2>6, ProductLarger
    <3> QED BY <1>3, <2>3, <2>4, <3>1
  <2> QED BY <1>3, <2>5, <2>6
<1>5. PICK ma : ma = m * a
  OBVIOUS
<1>6. ma \in Int /\ x = ma + r /\ x = ma + s
  BY <1>3, <1>4, <1>5
<1> QED BY <1>2, <1>3, <1>6

(* Factors that change places. *)
LEMMA ProductsMove ==
  ASSUME NEW a \in Int, NEW b \in Int, NEW c \in Int
  PROVE  /\ a * b \in Int /\ a * b = b * a /\ a * (b * c) = (a * b) * c
         /\ a * (b + c) = a * b + a * c /\ a * (b - c) = a * b - a * c
BY SMT

(* Going back and forward again. *)
LEMMA BackForward ==
  ASSUME NEW k \in Keys
  PROVE  Forward(k) \in Keys /\ Backward(k) \in Keys /\ Forward(Backward(k)) = k
<1>1. PICK N : N = TableSize
  OBVIOUS
<1>2. PICK M : M = Multiplier
  OBVIOUS
<1>3. PICK I : I = MultInverse
  OBVIOUS
<1>4. PICK c : c = Incrementer
  OBVIOUS
<1>5. N \in Nat \ {0} /\ M \in Nat /\ I \in Nat /\ c \in Nat /\ ((M * I) % N) = 1
  BY <1>1, <1>2, <1>3, <1>4, CollexionAssumption
<1>6. k \in 0 .. N - 1
  BY <1>1 DEF Keys
<1>7. PICK y : y = k - c
  OBVIOUS
<1>8. y \in Int /\ k = y + c
  BY <1>5, <1>6, <1>7
<1>9. PICK x : x = y * I
  OBVIOUS
<1>10. x \in Int
  BY <1>5, <1>8, <1>9, ProductsMove
<1>11. PICK b : b = (x % N)
  OBVIOUS
<1>12. PICK q : q = x \div N
  OBVIOUS
<1>13. q \in Int /\ b \in 0 .. N - 1 /\ x = N * q + b
  BY <1>5, <1>10, <1>11, <1>12, DivMod
<1>14. Backward(k) = b
  BY <1>1, <1>3, <1>4, <1>7, <1>9, <1>11 DEF Backward
<1>15. PICK s : s = (M * I) \div N
  OBVIOUS
<1>16. M * I \in Int
  BY <1>5, ProductsMove
<1>17. s \in Int /\ M * I = N * s + 1
  BY <1>5, <1>15, <1>16, DivMod
<1>18. x * M = N * (y * s) + y
  <2>1. x * M = y * (I * M) /\ I * M = M * I
    BY <1>5, <1>8, <1>9, ProductsMove
  <2>2. y * (N * s + 1) = y * (N * s) + y /\ N * s \in Int
    <3>1. N * s \in Int
      BY <1>5, <1>17, ProductsMove
    <3> QED BY <1>8, <3>1, ProductsMove
  <2>3. y * (N * s) = N * (y * s)
    BY <1>5, <1>8, <1>17, ProductsMove
  <2> QED BY <1>17, <2>1, <2>2, <2>3
<1>19. x * M = N * (q * M) + b * M
  <2>1. N * q \in Int /\ (N * q) * M = N * (q * M)
    BY <1>5, <1>13, ProductsMove
  <2>2. x * M = M * x /\ M * (N * q + b) = M * (N * q) + M * b /\ M * (N * q) = (N * q) * M /\ M * b = b * M
    BY <1>5, <1>10, <1>13, <2>1, ProductsMove
  <2> QED BY <1>13, <2>1, <2>2
<1>20. PICK w : w = y * s - q * M
  OBVIOUS
<1>21. w \in Int /\ N * w = N * (y * s) - N * (q * M)
  <2>1. y * s \in Int /\ q * M \in Int
    BY <1>5, <1>8, <1>13, <1>17, ProductsMove
  <2> QED BY <1>5, <1>20, <2>1, ProductsMove
<1>22. b * M + c = N * w + k /\ b * M + c \in Int
  <2>1. N * (y * s) \in Int /\ N * (q * M) \in Int /\ b * M \in Int
    <3>1. y * s \in Int /\ q * M \in Int
      BY <1>5, <1>8, <1>13, <1>17, ProductsMove
    <3> QED BY <1>5, <1>13, <3>1, ProductsMove
  <2>2. PICK d : d = N * (y * s)
    OBVIOUS
  <2>3. PICK e : e = N * (q * M)
    OBVIOUS
  <2>4. PICK g : g = b * M
    OBVIOUS
  <2>5. PICK nw : nw = N * w
    OBVIOUS
  <2>6. d \in Int /\ e \in Int /\ g \in Int /\ d + y = e + g /\ nw = d - e
    BY <1>18, <1>19, <1>21, <2>1, <2>2, <2>3, <2>4, <2>5
  <2>7. g + c = nw + k /\ g + c \in Int
    BY <1>5, <1>8, <2>6
  <2> QED BY <2>4, <2>5, <2>7
<1>23. ((b * M + c) % N) = k
  BY <1>5, <1>6, <1>21, <1>22, RemainderIs
<1>24. Forward(b) = k
  BY <1>1, <1>2, <1>4, <1>23 DEF Forward
<1>25. Forward(k) \in Keys
  <2>1. k * M + c \in Int
    <3>1. k * M \in Int
      BY <1>5, <1>6, ProductsMove
    <3> QED BY <1>5, <3>1
  <2>2. ((k * M + c) % N) \in 0 .. N - 1
    BY <1>5, <2>1, DivMod
  <2> QED BY <1>1, <1>2, <1>4, <2>2 DEF Forward, Keys
<1> QED BY <1>1, <1>13, <1>14, <1>24, <1>25 DEF Keys

(* Steps is a function: it is there up to any number of them. *)
StepsTo(f, k, p, n) == p = [i \in 0 .. n |-> IF i = 0 THEN k ELSE f[p[i - 1]]]
LEMMA StepsExist ==
  ASSUME NEW f, NEW k, NEW n \in Nat
  PROVE  \E p : StepsTo(f, k, p, n)
<1> DEFINE bad == {m \in 0 .. n : ~\E p : StepsTo(f, k, p, m)}
<1>1. bad = {}
  <2> SUFFICES ASSUME bad # {} PROVE FALSE
    OBVIOUS
  <2>1. PICK m \in bad : \A j \in bad : m <= j
    <3>1. bad \subseteq Nat
      OBVIOUS
    <3> HIDE DEF bad
    <3> QED BY <3>1, LeastExists
  <2>2. m \in 0 .. n /\ ~\E p : StepsTo(f, k, p, m)
    BY <2>1
  <2>3. CASE m = 0
    <3>1. PICK g : g = [j \in 0 .. 0 |-> k]
      OBVIOUS
    <3>2. ASSUME NEW j \in 0 .. 0 PROVE k = IF j = 0 THEN k ELSE f[g[j - 1]]
      OBVIOUS
    <3>3. StepsTo(f, k, g, 0)
      BY <3>1, <3>2 DEF StepsTo
    <3> QED BY <2>2, <2>3, <3>3
  <2>4. CASE m # 0
    <3>1. m - 1 \in 0 .. n /\ ~(m <= m - 1) /\ m \in Nat
      BY <2>2, <2>4
    <3>2. m - 1 \notin bad
      BY <2>1, <3>1
    <3>3. PICK g : StepsTo(f, k, g, m - 1)
      BY <3>1, <3>2
    <3>4. \A j \in 0 .. m - 1 : g[j] = IF j = 0 THEN k ELSE f[g[j - 1]]
      BY <3>3 DEF StepsTo
    <3>5. PICK h : h = [j \in 0 .. m |-> IF j = m THEN f[g[m - 1]] ELSE g[j]]
      OBVIOUS
    <3>6. h[m - 1] = g[m - 1] /\ \A j \in 0 .. m - 1 : h[j] = g[j]
      <4>1. \A j \in 0 .. m - 1 : j \in 0 .. m /\ j # m
        BY <3>1
      <4>2. m - 1 \in 0 .. m - 1
        BY <3>1, <2>4
      <4> QED BY <4>1, <4>2, <3>5
    <3>7. ASSUME NEW j \in 0 .. m PROVE h[j] = IF j = 0 THEN k ELSE f[h[j - 1]]
      <4>1. CASE j = m
        BY <4>1, <2>4, <3>5, <3>6
      <4>2. CASE j # m /\ j # 0
        <5>1. j \in 0 .. m - 1 /\ j - 1 \in 0 .. m - 1
          BY <4>2, <3>1
        <5> QED BY <4>2, <5>1, <3>4, <3>6
      <4>3. CASE j = 0 /\ j # m
        <5>1. j \in 0 .. m - 1
          BY <4>3, <3>1
        <5> QED BY <4>3, <5>1, <3>4, <3>6
      <4> QED BY <4>1, <4>2, <4>3
    <3>8. DOMAIN h = 0 .. m /\ h = [j \in 0 .. m |-> h[j]]
      BY <3>5
    <3>9. StepsTo(f, k, h, m)
      BY <3>7, <3>8 DEF StepsTo
    <3> QED BY <2>2, <3>9
  <2> QED BY <2>3, <2>4
<1>2. n \in 0 .. n
  OBVIOUS
<1> QED BY <1>1, <1>2

LEMMA StepsFacts ==
  ASSUME NEW f, NEW k
  PROVE  /\ Steps(f, k)[0] = k
         /\ \A i \in 1 .. TableSize : Steps(f, k)[i] = f[Steps(f, k)[i - 1]]
<1> DEFINE F == CHOOSE p : p = [i \in 0 .. TableSize |-> IF i = 0 THEN k ELSE f[p[i - 1]]]
<1>0. TableSize \in Nat
  BY CollexionAssumption
<1>1. Steps(f, k) = F
  BY DEF Steps
<1>2. F = CHOOSE p : StepsTo(f, k, p, TableSize)
  BY DEF StepsTo
<1> HIDE DEF F
<1>3. StepsTo(f, k, F, TableSize)
  BY <1>0, <1>2, StepsExist
<1>4. \A i \in 0 .. TableSize : F[i] = IF i = 0 THEN k ELSE f[F[i - 1]]
  BY <1>3 DEF StepsTo
<1> QED BY <1>0, <1>1, <1>4

(* A walk stays where its steps do. *)
LEMMA StepsStay ==
  ASSUME NEW D, NEW f \in [D -> D], NEW k \in D
  PROVE  \A i \in 0 .. TableSize : Steps(f, k)[i] \in D
<1>1. PICK p : p = Steps(f, k)
  OBVIOUS
<1>2. p[0] = k /\ \A i \in 1 .. TableSize : p[i] = f[p[i - 1]]
  BY <1>1, StepsFacts
<1>3. TableSize \in Nat
  BY CollexionAssumption
<1> DEFINE bad == {i \in 0 .. TableSize : p[i] \notin D}
<1>4. bad = {}
  <2> SUFFICES ASSUME bad # {} PROVE FALSE
    OBVIOUS
  <2>1. PICK m \in bad : \A j \in bad : m <= j
    <3>1. bad \subseteq Nat
      OBVIOUS
    <3> HIDE DEF bad
    <3> QED BY <3>1, LeastExists
  <2>2. m \in 0 .. TableSize /\ p[m] \notin D /\ m # 0
    BY <1>2, <2>1
  <2>3. m - 1 \in 0 .. TableSize /\ ~(m <= m - 1) /\ m \in 1 .. TableSize
    BY <1>3, <2>2
  <2>4. p[m - 1] \in D
    BY <2>1, <2>3
  <2> QED BY <1>2, <2>2, <2>3, <2>4
<1> QED BY <1>1, <1>4

(* The probe sequence of a key: each step is Forward, and all are keys. *)
LEMMA ProbeFacts ==
  ASSUME NEW k \in Keys
  PROVE  /\ \A i \in 0 .. TableSize : Probes[k][i] \in Keys
         /\ \A i \in 1 .. TableSize : Probes[k][i] = Forward(Probes[k][i - 1])
<1>1. PICK f : f = [q \in Keys |-> Forward(q)]
  OBVIOUS
<1>2. f \in [Keys -> Keys]
  BY <1>1, BackForward
<1>3. Probes[k] = Steps(f, k)
  BY <1>1 DEF Probes
<1>4. \A i \in 0 .. TableSize : Probes[k][i] \in Keys
  BY <1>2, <1>3, StepsStay
<1>5. ASSUME NEW i \in 1 .. TableSize PROVE Probes[k][i] = Forward(Probes[k][i - 1])
  <2>1. i - 1 \in 0 .. TableSize
    BY CollexionAssumption
  <2>2. Probes[k][i] = f[Probes[k][i - 1]]
    BY <1>3, StepsFacts
  <2> QED BY <1>1, <1>4, <2>1, <2>2
<1> QED BY <1>4, <1>5

(* The walk backwards: Forward leads from each place of it to the one before. *)
LEMMA BackFacts ==
  ASSUME NEW k \in Keys
  PROVE  /\ Backs[k][0] = k /\ \A i \in 0 .. TableSize : Backs[k][i] \in Keys
         /\ \A i \in 1 .. TableSize : Forward(Backs[k][i]) = Backs[k][i - 1]
<1>1. PICK f : f = [q \in Keys |-> Backward(q)]
  OBVIOUS
<1>2. f \in [Keys -> Keys]
  BY <1>1, BackForward
<1>3. Backs[k] = Steps(f, k)
  BY <1>1 DEF Backs
<1>4. \A i \in 0 .. TableSize : Backs[k][i] \in Keys
  BY <1>2, <1>3, StepsStay
<1>5. ASSUME NEW i \in 1 .. TableSize PROVE Forward(Backs[k][i]) = Backs[k][i - 1]
  <2>1. i - 1 \in 0 .. TableSize
    BY CollexionAssumption
  <2>2. Backs[k][i] = f[Backs[k][i - 1]]
    BY <1>3, StepsFacts
  <2> QED BY <1>1, <1>4, <2>1, <2>2, BackForward
<1>6. Backs[k][0] = k
  BY <1>3, StepsFacts
<1> QED BY <1>4, <1>5, <1>6

(* The least of a set of numbers. *)
LEMMA MinFacts ==
  ASSUME NEW S, S \subseteq Nat, S # {}
  PROVE  Min(S) \in S /\ \A y \in S : Min(S) <= y
<1>1. \E x \in S : \A y \in S : x <= y
  BY LeastExists
<1> QED BY <1>1 DEF Min

Entries == [conn : Members \cup {NoMember}, collide : BOOLEAN, kill : BOOLEAN,
            next : 0 .. TableSize, prev : 0 .. TableSize]
Tables == [Keys -> Entries]
HashOK == hash \in [Members -> Hashes]

LEMMA EntryFacts ==
  ASSUME NEW t \in Tables, NEW k \in Keys
  PROVE  /\ t[k] \in Entries /\ t[k].conn \in Members \cup {NoMember} /\ t[k].collide \in BOOLEAN
         /\ t[k].kill \in BOOLEAN /\ t[k].next \in 0 .. TableSize /\ t[k].prev \in 0 .. TableSize
BY DEF Tables, Entries

(* What a connexion's probe sequence does. *)
LEMMA ProbeKeys ==
  ASSUME HashOK, NEW c \in Members
  PROVE  /\ \A i \in 0 .. TableSize : Probe(c)[i] \in Keys
         /\ \A i \in 1 .. TableSize : Probe(c)[i] = Forward(Probe(c)[i - 1])
<1>1. hash[c] \in Keys
  BY CollexionAssumption DEF HashOK
<1> QED BY <1>1, ProbeFacts DEF Probe

(* The flags lead to the entry k: it is probed i-th, behind flagged entries. *)
Leads(t, k, i) ==
  Probe(t[k].conn)[i] = k /\ \A j \in 0 .. i - 1 : t[Probe(t[k].conn)[j]].collide
Flagged(t) ==
  \A k \in Keys : t[k].conn # NoMember => \E i \in 0 .. TableSize - 1 : Leads(t, k, i)
(* Only flags differ. *)
SameEntries(t, u) ==
  /\ u \in Tables
  /\ \A k \in Keys : /\ u[k].conn = t[k].conn /\ u[k].kill = t[k].kill
                     /\ u[k].next = t[k].next /\ u[k].prev = t[k].prev

LEMMA MoreFlags ==
  ASSUME HashOK, NEW t \in Tables, NEW u \in Tables, Flagged(t),
         \A k \in Keys : u[k].conn # NoMember => u[k].conn = t[k].conn,
         \A k \in Keys : t[k].collide => u[k].collide
  PROVE  Flagged(u)
<1> SUFFICES ASSUME NEW k \in Keys, u[k].conn # NoMember
             PROVE  \E i \in 0 .. TableSize - 1 : Leads(u, k, i)
  BY DEF Flagged
<1>1. u[k].conn = t[k].conn /\ t[k].conn \in Members
  BY EntryFacts
<1>2. PICK i \in 0 .. TableSize - 1 : Leads(t, k, i)
  BY <1>1 DEF Flagged
<1>3. PICK c : c = t[k].conn
  OBVIOUS
<1>4. \A j \in 0 .. i - 1 : Probe(c)[j] \in Keys
  <2>1. \A j \in 0 .. i - 1 : j \in 0 .. TableSize
    BY CollexionAssumption
  <2> QED BY <1>1, <1>3, <2>1, ProbeKeys
<1>5. Leads(u, k, i)
  BY <1>1, <1>2, <1>3, <1>4 DEF Leads
<1> QED BY <1>5

(* A flag that leads somewhere. *)
Needed(t, q) == \E k \in Keys, i \in 0 .. TableSize - 1 :
  t[k].conn # NoMember /\ Leads(t, k, i) /\ \E j \in 0 .. i - 1 : Probe(t[k].conn)[j] = q

(* No flag behind a free entry without one is needed, up to a used entry. *)
LEMMA NotNeeded ==
  ASSUME HashOK, NEW t \in Tables, NEW key \in Keys, t[key].conn = NoMember, ~t[key].collide,
         NEW last \in 0 .. TableSize, \A i \in 1 .. last - 1 : t[Backs[key][i]].conn = NoMember
  PROVE  \A r \in 1 .. last : ~Needed(t, Backs[key][r])
<1> DEFINE bad == {r \in 1 .. last : Needed(t, Backs[key][r])}
<1>1. bad = {}
  <2> SUFFICES ASSUME bad # {} PROVE FALSE
    OBVIOUS
  <2>1. PICK r \in bad : \A x \in bad : r <= x
    <3>1. bad \subseteq Nat
      OBVIOUS
    <3> HIDE DEF bad
    <3> QED BY <3>1, LeastExists
  <2>2. r \in 1 .. last /\ Needed(t, Backs[key][r]) /\ TableSize \in Nat /\ r \in 1 .. TableSize
    BY <2>1, CollexionAssumption
  <2>3. PICK k \in Keys, i \in 0 .. TableSize - 1 :
           t[k].conn # NoMember /\ Leads(t, k, i) /\ \E j \in 0 .. i - 1 : Probe(t[k].conn)[j] = Backs[key][r]
    BY <2>2 DEF Needed
  <2>4. PICK j \in 0 .. i - 1 :
          t[k].conn # NoMember /\ Leads(t, k, i) /\ Probe(t[k].conn)[j] = Backs[key][r]
    BY <2>3
  <2>5. PICK c : c = t[k].conn
    OBVIOUS
  <2>6. c \in Members
    BY <2>4, <2>5, EntryFacts
  <2>7. PICK q : q = Backs[key][r - 1]
    OBVIOUS
  <2>8. j + 1 \in 1 .. TableSize /\ (j + 1) - 1 = j
    BY <2>2, <2>4
  <2>9. Probe(c)[j + 1] = q
    <3>1. Probe(c)[j + 1] = Forward(Probe(c)[j])
      BY <2>6, <2>8, ProbeKeys
    <3>2. Forward(Backs[key][r]) = Backs[key][r - 1]
      BY <2>2, BackFacts
    <3> QED BY <2>4, <2>5, <2>7, <3>1, <3>2
  <2>10. q = k \/ (j + 1 \in 0 .. i - 1 /\ t[q].collide)
    <3>1. CASE j + 1 = i
      BY <2>4, <2>5, <2>9, <3>1 DEF Leads
    <3>2. CASE j + 1 # i
      <4>1. j + 1 \in 0 .. i - 1
        BY <2>2, <2>4, <3>2
      <4> QED BY <2>4, <2>5, <2>9, <4>1 DEF Leads
    <3> QED BY <3>1, <3>2
  <2>11. CASE r = 1
    <3>1. q = key
      BY <2>7, <2>11, BackFacts
    <3> QED BY <2>4, <2>10, <3>1
  <2>12. CASE r # 1
    <3>1. r - 1 \in 1 .. last /\ r - 1 \in 1 .. last - 1 /\ ~(r <= r - 1)
      BY <2>2, <2>12
    <3>2. t[q].conn = NoMember
      BY <2>7, <3>1
    <3>3. j + 1 \in 0 .. i - 1
      BY <2>4, <2>10, <3>2
    <3>4. Needed(t, q)
      BY <2>4, <2>5, <2>9, <3>3 DEF Needed
    <3> QED BY <2>1, <2>7, <3>1, <3>4
  <2> QED BY <2>11, <2>12
<1> QED BY <1>1

(* Clearing flags on removal takes none that a connexion needs. *)
LEMMA ClearFlagsKeeps ==
  ASSUME HashOK, NEW t \in Tables, NEW key \in Keys, t[key].conn = NoMember, ~t[key].collide, Flagged(t)
  PROVE  SameEntries(t, ClearFlags(t, key)) /\ Flagged(ClearFlags(t, key))
<1>1. PICK back : back = Backs[key]
  OBVIOUS
<1>2. PICK stops : stops = {i \in 1 .. TableSize : ~t[back[i]].collide}
  OBVIOUS
<1>3. PICK uses : uses = {i \in 1 .. TableSize : t[back[i]].conn # NoMember}
  OBVIOUS
<1>4. PICK S : S = {TableSize} \cup {i - 1 : i \in stops} \cup uses
  OBVIOUS
<1>5. PICK last : last = Min(S)
  OBVIOUS
<1>6. TableSize \in Nat
  BY CollexionAssumption
<1>7. last \in Nat /\ \A y \in S : last <= y
  <2>1. S \subseteq Nat /\ S # {}
    BY <1>2, <1>3, <1>4, <1>6
  <2> QED BY <1>5, <2>1, MinFacts
<1>8. last \in 0 .. TableSize /\ \A i \in uses : last <= i
  <2>1. TableSize \in S /\ uses \subseteq S
    BY <1>4
  <2> QED BY <1>6, <1>7, <2>1
<1>9. PICK cleared : cleared = {back[i] : i \in 1 .. last}
  OBVIOUS
<1>10. PICK u : u = [k \in Keys |-> IF k \in cleared THEN [t[k] EXCEPT !.collide = FALSE] ELSE t[k]]
  OBVIOUS
<1>11. ClearFlags(t, key) = u
  BY <1>1, <1>2, <1>3, <1>4, <1>5, <1>9, <1>10 DEF ClearFlags
<1>12. ASSUME NEW k \in Keys
       PROVE  /\ u[k] \in Entries /\ u[k].conn = t[k].conn /\ u[k].kill = t[k].kill
              /\ u[k].next = t[k].next /\ u[k].prev = t[k].prev
              /\ (k \notin cleared => u[k].collide = t[k].collide)
  <2>1. t[k] \in Entries
    BY EntryFacts
  <2>2. PICK e : e = [t[k] EXCEPT !.collide = FALSE]
    OBVIOUS
  <2>3. e \in Entries /\ e.conn = t[k].conn /\ e.kill = t[k].kill /\ e.next = t[k].next /\ e.prev = t[k].prev
    BY <2>1, <2>2 DEF Entries
  <2>4. u[k] = IF k \in cleared THEN e ELSE t[k]
    BY <1>10, <2>2
  <2> QED BY <2>1, <2>3, <2>4
<1>13. SameEntries(t, u)
  <2>1. u \in Tables
    BY <1>10, <1>12 DEF Tables
  <2> QED BY <1>12, <2>1 DEF SameEntries
<1>14. \A q \in cleared : ~Needed(t, q)
  <2>1. ASSUME NEW i \in 1 .. last - 1 PROVE t[Backs[key][i]].conn = NoMember
    <3>1. i \in 1 .. TableSize /\ ~(last <= i)
      BY <1>6, <1>8
    <3> QED BY <1>1, <1>3, <1>8, <3>1
  <2> QED BY <1>1, <1>8, <1>9, <2>1, NotNeeded
<1>15. Flagged(u)
  <2> SUFFICES ASSUME NEW k \in Keys, u[k].conn # NoMember
               PROVE  \E i \in 0 .. TableSize - 1 : Leads(u, k, i)
    BY DEF Flagged
  <2>1. u[k].conn = t[k].conn /\ t[k].conn \in Members
    BY <1>12, EntryFacts
  <2>2. PICK i \in 0 .. TableSize - 1 : Leads(t, k, i)
    BY <2>1 DEF Flagged
  <2>3. PICK c : c = t[k].conn
    OBVIOUS
  <2>4. ASSUME NEW j \in 0 .. i - 1 PROVE u[Probe(c)[j]].collide
    <3>1. j \in 0 .. TableSize
      BY <1>6
    <3>2. PICK q : q = Probe(c)[j]
      OBVIOUS
    <3>3. q \in Keys
      BY <2>1, <2>3, <3>1, <3>2, ProbeKeys
    <3>4. Needed(t, q)
      BY <2>1, <2>2, <2>3, <3>2 DEF Needed
    <3>5. u[q].collide = t[q].collide
      BY <1>12, <1>14, <3>3, <3>4
    <3>6. t[q].collide
      BY <2>2, <2>3, <3>2 DEF Leads
    <3> QED BY <3>2, <3>5, <3>6
  <2>5. Leads(u, k, i)
    BY <2>1, <2>2, <2>3, <2>4 DEF Leads
  <2> QED BY <2>5
<1> QED BY <1>11, <1>13, <1>15

(* A list: its entries in order, and the links through them. *)
Enumerates(f, n, S) ==
  /\ n \in Nat /\ f \in [1 .. n -> S]
  /\ \A k \in S : \E i \in 1 .. n : f[i] = k
  /\ \A i, j \in 1 .. n : f[i] = f[j] => i = j
Threads(t, head, f, n) ==
  /\ head = IF n = 0 THEN 0 ELSE f[1] + 1
  /\ \A i \in 1 .. n : /\ t[f[i]].next = IF i = n THEN 0 ELSE f[i + 1] + 1
                       /\ t[f[i]].prev = IF i = 1 THEN 0 ELSE f[i - 1] + 1
IsList(t, head, f, n, S) == S \subseteq Keys /\ Enumerates(f, n, S) /\ Threads(t, head, f, n)
Chained(t, head, S) == \E n \in Nat : \E f : IsList(t, head, f, n, S)

LEMMA EnumeratesCount ==
  ASSUME NEW f, NEW n, NEW S, Enumerates(f, n, S)
  PROVE  IsFiniteSet(S) /\ Cardinality(S) = n
<1>1. n \in Nat /\ n \in Int /\ 1 \in Int
  BY DEF Enumerates
<1>2. IsFiniteSet(1 .. n) /\ Cardinality(1 .. n) = n
  <2>1. IsFiniteSet(1 .. n) /\ Cardinality(1 .. n) = IF 1 > n THEN 0 ELSE n - 1 + 1
    BY <1>1, FS_Interval, Zenon
  <2> QED BY <1>1, <2>1
<1>3. f \in Bijection(1 .. n, S)
  BY DEF Bijection, Injection, Surjection, IsInjective, Enumerates
<1>4. ExistsBijection(1 .. n, S)
  BY <1>3 DEF ExistsBijection
<1> QED BY <1>2, <1>4, FS_Bijection

(* The table has TableSize entries. *)
LEMMA KeysCount == IsFiniteSet(Keys) /\ Cardinality(Keys) = TableSize
<1>1. TableSize \in Nat \ {0} /\ TableSize - 1 \in Int /\ 0 \in Int
  BY CollexionAssumption
<1>2. PICK b : b = TableSize - 1
  OBVIOUS
<1>3. b \in Int /\ ~(0 > b) /\ b - 0 + 1 = TableSize
  BY <1>1, <1>2
<1>4. IsFiniteSet(0 .. b) /\ Cardinality(0 .. b) = IF 0 > b THEN 0 ELSE b - 0 + 1
  BY <1>1, <1>3, FS_Interval, Zenon
<1> QED BY <1>2, <1>3, <1>4 DEF Keys

(* A list through the table is no longer than the table. *)
LEMMA ListCount ==
  ASSUME NEW t, NEW head, NEW f, NEW n, NEW S, IsList(t, head, f, n, S)
  PROVE  IsFiniteSet(S) /\ Cardinality(S) = n /\ n \in Nat /\ n <= TableSize
<1>1. IsFiniteSet(S) /\ Cardinality(S) = n /\ n \in Nat
  BY EnumeratesCount DEF IsList, Enumerates
<1>2. S \in SUBSET Keys
  BY DEF IsList
<1>3. Cardinality(S) <= Cardinality(Keys)
  BY <1>2, KeysCount, FS_Subset
<1> QED BY <1>1, <1>3, KeysCount

(* Walk visits the entries of a list in their order. *)
LEMMA WalkIs ==
  ASSUME NEW t \in Tables, NEW head, NEW f, NEW n, NEW S, IsList(t, head, f, n, S)
  PROVE  Walk(t, head) = f
<1>1. n \in Nat /\ n <= TableSize /\ TableSize \in Nat
  BY ListCount, CollexionAssumption
<1>2. f \in [1 .. n -> S] /\ S \subseteq Keys /\ head = IF n = 0 THEN 0 ELSE f[1] + 1
  BY DEF IsList, Enumerates, Threads
<1>3. \A i \in 1 .. n : t[f[i]].next = IF i = n THEN 0 ELSE f[i + 1] + 1
  BY DEF IsList, Threads
<1>4. PICK g : g = [l \in 0 .. TableSize |-> IF l = 0 THEN 0 ELSE t[l - 1].next]
  OBVIOUS
<1>5. PICK at : at = Steps(g, head)
  OBVIOUS
<1>6. at[0] = head /\ \A i \in 1 .. TableSize : at[i] = g[at[i - 1]]
  BY <1>5, StepsFacts
<1>7. \A i \in 1 .. n : f[i] \in Nat /\ f[i] + 1 \in 0 .. TableSize /\ f[i] + 1 # 0 /\ (f[i] + 1) - 1 = f[i]
  <2>1. \A i \in 1 .. n : f[i] \in 0 .. TableSize - 1
    BY <1>2 DEF Keys
  <2> QED BY <1>1, <2>1
<1>8. g[0] = 0 /\ \A i \in 1 .. n : g[f[i] + 1] = t[f[i]].next
  <2>1. g[0] = 0
    BY <1>1, <1>4
  <2>2. ASSUME NEW i \in 1 .. n PROVE g[f[i] + 1] = t[f[i]].next
    BY <1>4, <1>7
  <2> QED BY <2>1, <2>2
<1> DEFINE Right(i) == at[i] = IF i < n THEN f[i + 1] + 1 ELSE 0
           bad == {i \in 0 .. TableSize : ~Right(i)}
<1>9. bad = {}
  <2> SUFFICES ASSUME bad # {} PROVE FALSE
    OBVIOUS
  <2>1. PICK m \in bad : \A j \in bad : m <= j
    <3>1. bad \subseteq Nat
      OBVIOUS
    <3> HIDE DEF bad
    <3> QED BY <3>1, LeastExists
  <2>2. m \in 0 .. TableSize /\ ~Right(m)
    BY <2>1
  <2>3. CASE m = 0
    <3>1. IF n = 0 THEN ~(0 < n) ELSE 0 < n
      BY <1>1
    <3>2. Right(0)
      BY <1>2, <1>6, <3>1
    <3> QED BY <2>2, <2>3, <3>2
  <2>4. CASE m # 0
    <3>1. m - 1 \in 0 .. TableSize /\ ~(m <= m - 1) /\ m \in 1 .. TableSize /\ (m - 1) + 1 = m
      BY <1>1, <2>2, <2>4
    <3>2. Right(m - 1)
      BY <2>1, <3>1
    <3>3. at[m] = g[at[m - 1]]
      BY <1>6, <3>1
    <3>4. CASE m - 1 < n
      <4>1. m \in 1 .. n /\ (m = n <=> ~(m < n))
        BY <1>1, <3>1, <3>4
      <4>2. at[m - 1] = f[m] + 1
        BY <3>1, <3>2, <3>4
      <4>3. at[m] = IF m = n THEN 0 ELSE f[m + 1] + 1
        BY <1>3, <1>8, <3>3, <4>1, <4>2
      <4>4. Right(m)
        BY <4>1, <4>3
      <4> QED BY <2>2, <4>4
    <3>5. CASE ~(m - 1 < n)
      <4>1. ~(m < n)
        BY <1>1, <3>1, <3>5
      <4>2. at[m - 1] = 0
        BY <3>2, <3>5
      <4>3. Right(m)
        BY <1>8, <3>3, <4>1, <4>2
      <4> QED BY <2>2, <4>3
    <3> QED BY <3>4, <3>5
  <2> QED BY <2>3, <2>4
<1>10. \A i \in 0 .. TableSize : at[i] = IF i < n THEN f[i + 1] + 1 ELSE 0
  BY <1>9
<1> HIDE DEF bad, Right
<1>11. {i \in 0 .. TableSize : at[i] # 0} = 0 .. n - 1
  <2>1. \A i \in 0 .. TableSize : at[i] # 0 <=> i < n
    <3>1. ASSUME NEW i \in 0 .. TableSize, i < n PROVE at[i] # 0
      <4>1. i + 1 \in 1 .. n
        BY <1>1, <3>1
      <4> QED BY <1>7, <1>10, <3>1, <4>1
    <3> QED BY <1>10, <3>1
  <2>2. \A i : i \in 0 .. n - 1 <=> (i \in 0 .. TableSize /\ i < n)
    BY <1>1
  <2> QED BY <2>1, <2>2
<1>12. Cardinality(0 .. n - 1) = n
  <2>1. PICK b : b = n - 1
    OBVIOUS
  <2>2. b \in Int /\ 0 \in Int /\ (0 > b => n = 0) /\ (~(0 > b) => b - 0 + 1 = n)
    BY <1>1, <2>1
  <2>3. Cardinality(0 .. b) = IF 0 > b THEN 0 ELSE b - 0 + 1
    BY <2>2, FS_Interval, Zenon
  <2> QED BY <2>1, <2>2, <2>3
<1>13. Walk(t, head) = [i \in 1 .. n |-> at[i - 1] - 1]
  BY <1>4, <1>5, <1>11, <1>12 DEF Walk
<1>14. ASSUME NEW i \in 1 .. n PROVE at[i - 1] - 1 = f[i]
  <2>1. i - 1 \in 0 .. TableSize /\ i - 1 < n /\ (i - 1) + 1 = i
    BY <1>1
  <2>2. at[i - 1] = f[i] + 1
    BY <1>10, <2>1
  <2> QED BY <1>7, <2>2
<1>15. f = [i \in 1 .. n |-> f[i]]
  BY <1>2
<1> QED BY <1>13, <1>14, <1>15

(* Links changed elsewhere. *)
LEMMA ListKept ==
  ASSUME NEW t, NEW u, NEW head, NEW S, Chained(t, head, S),
         \A k \in S : u[k].next = t[k].next /\ u[k].prev = t[k].prev
  PROVE  Chained(u, head, S)
<1>0. PICK n \in Nat : \E f : IsList(t, head, f, n, S)
  BY DEF Chained
<1>1. PICK f : IsList(t, head, f, n, S)
  BY <1>0
<1>2. \A i \in 1 .. n : f[i] \in S
  BY <1>1 DEF IsList, Enumerates
<1>3. Threads(u, head, f, n)
  BY <1>1, <1>2 DEF IsList, Threads
<1> QED BY <1>1, <1>3 DEF IsList, Chained

HasLinks(g, e, a, b) ==
  /\ g \in Entries /\ g.next = a /\ g.prev = b
  /\ g.conn = e.conn /\ g.collide = e.collide /\ g.kill = e.kill
LEMMA WithLinksFacts ==
  ASSUME NEW e \in Entries, NEW a \in 0 .. TableSize, NEW b \in 0 .. TableSize
  PROVE  HasLinks(WithLinks(e, a, b), e, a, b)
<1>1. PICK h : h = [e EXCEPT !.next = a]
  OBVIOUS
<1>2. h \in Entries /\ h.next = a /\ h.prev = e.prev /\ h.conn = e.conn /\ h.collide = e.collide /\ h.kill = e.kill
  BY <1>1 DEF Entries
<1>3. PICK g : g = [h EXCEPT !.prev = b]
  OBVIOUS
<1>4. g \in Entries /\ g.next = h.next /\ g.prev = b /\ g.conn = h.conn /\ g.collide = h.collide /\ g.kill = h.kill
  BY <1>2, <1>3 DEF Entries
<1>5. WithLinks(e, a, b) = [e EXCEPT !.next = a, !.prev = b]
  BY DEF WithLinks
<1>6. [e EXCEPT !.next = a, !.prev = b] = [[e EXCEPT !.next = a] EXCEPT !.prev = b]
  OBVIOUS
<1>7. WithLinks(e, a, b) = g
  BY <1>1, <1>3, <1>5, <1>6
<1> QED BY <1>2, <1>4, <1>7 DEF HasLinks

(* Only links differ. *)
SameMembers(t, u) ==
  /\ u \in Tables
  /\ \A k \in Keys : u[k].conn = t[k].conn /\ u[k].collide = t[k].collide /\ u[k].kill = t[k].kill

LEMMA UnlinkedFields ==
  ASSUME NEW t \in Tables, NEW key \in Keys, NEW u, u = Unlinked(t, key)
  PROVE  /\ SameMembers(t, u)
         /\ \A k \in Keys : /\ u[k].next = IF k + 1 = t[key].prev THEN t[key].next ELSE t[k].next
                            /\ u[k].prev = IF k + 1 = t[key].next THEN t[key].prev ELSE t[k].prev
<1>1. PICK e : e = t[key]
  OBVIOUS
<1>2. e.next \in 0 .. TableSize /\ e.prev \in 0 .. TableSize
  BY <1>1, EntryFacts
<1>3. ASSUME NEW k \in Keys
      PROVE  /\ u[k] \in Entries
             /\ u[k].conn = t[k].conn /\ u[k].collide = t[k].collide /\ u[k].kill = t[k].kill
             /\ u[k].next = IF k + 1 = e.prev THEN e.next ELSE t[k].next
             /\ u[k].prev = IF k + 1 = e.next THEN e.prev ELSE t[k].prev
  <2>1. t[k] \in Entries /\ t[k].next \in 0 .. TableSize /\ t[k].prev \in 0 .. TableSize
    BY EntryFacts
  <2>2. PICK a : a = IF k + 1 = e.prev THEN e.next ELSE t[k].next
    OBVIOUS
  <2>3. PICK b : b = IF k + 1 = e.next THEN e.prev ELSE t[k].prev
    OBVIOUS
  <2>4. a \in 0 .. TableSize /\ b \in 0 .. TableSize
    BY <1>2, <2>1, <2>2, <2>3
  <2>5. u[k] = WithLinks(t[k], a, b)
    BY <1>1, <2>2, <2>3 DEF Unlinked
  <2>6. HasLinks(u[k], t[k], a, b)
    BY <2>1, <2>4, <2>5, WithLinksFacts
  <2> QED BY <2>2, <2>3, <2>6 DEF HasLinks
<1>4. u \in Tables
  BY <1>3 DEF Unlinked, Tables
<1> QED BY <1>1, <1>3, <1>4 DEF SameMembers

LEMMA LinkedFields ==
  ASSUME NEW t \in Tables, NEW key \in Keys, NEW head \in 0 .. TableSize, NEW u, u = Linked(t, key, head)
  PROVE  /\ SameMembers(t, u) /\ u[key].next = head /\ u[key].prev = 0
         /\ \A k \in Keys \ {key} : /\ u[k].next = t[k].next
                                    /\ u[k].prev = IF k + 1 = head THEN key + 1 ELSE t[k].prev
<1>1. TableSize \in Nat /\ 0 \in 0 .. TableSize /\ key + 1 \in 0 .. TableSize
  BY CollexionAssumption DEF Keys
<1>2. ASSUME NEW k \in Keys
      PROVE  /\ u[k] \in Entries
             /\ u[k].conn = t[k].conn /\ u[k].collide = t[k].collide /\ u[k].kill = t[k].kill
             /\ u[k].next = IF k = key THEN head ELSE t[k].next
             /\ u[k].prev = IF k = key THEN 0 ELSE IF k + 1 = head THEN key + 1 ELSE t[k].prev
  <2>1. t[k] \in Entries /\ t[k].next \in 0 .. TableSize
    BY EntryFacts
  <2>2. CASE k = key
    <3>1. u[k] = WithLinks(t[k], head, 0)
      BY <2>2 DEF Linked
    <3>2. HasLinks(u[k], t[k], head, 0)
      BY <1>1, <2>1, <3>1, WithLinksFacts
    <3> QED BY <2>2, <3>2 DEF HasLinks
  <2>3. CASE k # key /\ k + 1 = head
    <3>1. u[k] = WithLinks(t[k], t[k].next, key + 1)
      BY <2>3 DEF Linked
    <3>2. HasLinks(u[k], t[k], t[k].next, key + 1)
      BY <1>1, <2>1, <3>1, WithLinksFacts
    <3> QED BY <2>3, <3>2 DEF HasLinks
  <2>4. CASE k # key /\ k + 1 # head
    <3>1. u[k] = t[k]
      BY <2>4 DEF Linked
    <3> QED BY <2>1, <2>4, <3>1
  <2> QED BY <2>2, <2>3, <2>4
<1>3. u \in Tables
  BY <1>2 DEF Linked, Tables
<1> QED BY <1>2, <1>3 DEF SameMembers

(* The head of a list is its first entry. *)
LEMMA HeadFacts ==
  ASSUME NEW t, NEW head, NEW S, Chained(t, head, S)
  PROVE  head \in 0 .. TableSize /\ S \subseteq Keys /\ (head # 0 => head - 1 \in S) /\ (head = 0 <=> S = {})
<1>0. PICK n \in Nat : \E f : IsList(t, head, f, n, S)
  BY DEF Chained
<1>1. PICK f : IsList(t, head, f, n, S)
  BY <1>0
<1>2. /\ f \in [1 .. n -> S] /\ S \subseteq Keys /\ head = IF n = 0 THEN 0 ELSE f[1] + 1
      /\ \A k \in S : \E i \in 1 .. n : f[i] = k
  BY <1>1 DEF IsList, Enumerates, Threads
<1>3. CASE n = 0
  <2>1. S = {}
    BY <1>2, <1>3
  <2> QED BY <1>2, <1>3, <2>1, CollexionAssumption
<1>4. CASE n # 0
  <2>1. 1 \in 1 .. n
    BY <1>4
  <2>2. f[1] \in S /\ f[1] \in 0 .. TableSize - 1 /\ head = f[1] + 1
    BY <1>2, <1>4, <2>1 DEF Keys
  <2>3. head \in 0 .. TableSize /\ head # 0 /\ head - 1 = f[1]
    BY <2>2, CollexionAssumption
  <2> QED BY <1>2, <2>2, <2>3
<1> QED BY <1>3, <1>4

(* Taking an entry out of a list, at its head, its end or in the middle. *)
LEMMA UnlinkedList ==
  ASSUME NEW t \in Tables, NEW head, NEW S, Chained(t, head, S), NEW key \in S,
         NEW u, u = Unlinked(t, key)
  PROVE  /\ Chained(u, HeadAfter(head, t[key]), S \ {key})
         /\ \A k \in Keys \ S : u[k].next = t[k].next /\ u[k].prev = t[k].prev
<1>0. PICK n \in Nat : \E f : IsList(t, head, f, n, S)
  BY DEF Chained
<1>1. PICK f : IsList(t, head, f, n, S)
  BY <1>0
<1>2. /\ f \in [1 .. n -> S] /\ S \subseteq Keys /\ head = IF n = 0 THEN 0 ELSE f[1] + 1
      /\ \A k \in S : \E i \in 1 .. n : f[i] = k
      /\ \A i, j \in 1 .. n : f[i] = f[j] => i = j
  BY <1>1 DEF IsList, Enumerates, Threads
<1>3. \A i \in 1 .. n : /\ t[f[i]].next = IF i = n THEN 0 ELSE f[i + 1] + 1
                        /\ t[f[i]].prev = IF i = 1 THEN 0 ELSE f[i - 1] + 1
  BY <1>1 DEF IsList, Threads
<1>4. PICK m \in 1 .. n : f[m] = key
  BY <1>2
<1>5. key \in Keys
  BY <1>2
<1>6. PICK e : e = t[key]
  OBVIOUS
<1>7. e.next = (IF m = n THEN 0 ELSE f[m + 1] + 1) /\ e.prev = IF m = 1 THEN 0 ELSE f[m - 1] + 1
  BY <1>3, <1>4, <1>6
<1>8. \A k \in Keys : /\ u[k].next = IF k + 1 = e.prev THEN e.next ELSE t[k].next
                      /\ u[k].prev = IF k + 1 = e.next THEN e.prev ELSE t[k].prev
  BY <1>5, <1>6, UnlinkedFields
<1>9. \A k \in Keys : k \in Nat /\ k + 1 # 0 /\ \A l \in Keys : k + 1 = l + 1 => k = l
  BY DEF Keys
<1>10. /\ (m # n => m + 1 \in 1 .. n /\ f[m + 1] \in S /\ f[m + 1] \in Keys)
       /\ (m # 1 => m - 1 \in 1 .. n /\ f[m - 1] \in S /\ f[m - 1] \in Keys)
  <2>1. (m # n => m + 1 \in 1 .. n) /\ (m # 1 => m - 1 \in 1 .. n)
    OBVIOUS
  <2> QED BY <1>2, <2>1
<1>11. \A k \in Keys : /\ k + 1 = e.prev <=> (m # 1 /\ k = f[m - 1])
                       /\ k + 1 = e.next <=> (m # n /\ k = f[m + 1])
  <2>1. ASSUME NEW k \in Keys PROVE k + 1 = e.prev <=> (m # 1 /\ k = f[m - 1])
    <3>1. CASE m = 1
      BY <1>7, <1>9, <3>1
    <3>2. CASE m # 1
      BY <1>7, <1>9, <1>10, <3>2
    <3> QED BY <3>1, <3>2
  <2>2. ASSUME NEW k \in Keys PROVE k + 1 = e.next <=> (m # n /\ k = f[m + 1])
    <3>1. CASE m = n
      BY <1>7, <1>9, <3>1
    <3>2. CASE m # n
      BY <1>7, <1>9, <1>10, <3>2
    <3> QED BY <3>1, <3>2
  <2> QED BY <2>1, <2>2
<1>12. \A k \in Keys \ S : u[k].next = t[k].next /\ u[k].prev = t[k].prev
  BY <1>8, <1>10, <1>11
<1>13. ASSUME NEW i \in 1 .. n
       PROVE  /\ u[f[i]].next = IF i = m - 1 THEN e.next ELSE IF i = n THEN 0 ELSE f[i + 1] + 1
              /\ u[f[i]].prev = IF i = m + 1 THEN e.prev ELSE IF i = 1 THEN 0 ELSE f[i - 1] + 1
  <2>1. f[i] \in Keys
    BY <1>2
  <2>2. (m # 1 /\ f[i] = f[m - 1]) <=> i = m - 1
    <3>1. i = m - 1 => m # 1
      OBVIOUS
    <3> QED BY <1>2, <1>10, <3>1
  <2>3. (m # n /\ f[i] = f[m + 1]) <=> i = m + 1
    <3>1. i = m + 1 => m # n
      OBVIOUS
    <3> QED BY <1>2, <1>10, <3>1
  <2> QED BY <1>3, <1>8, <1>11, <2>1, <2>2, <2>3
<1>14. PICK p : p = n - 1
  OBVIOUS
<1>15. p \in Nat /\ n = p + 1
  BY <1>14
<1>16. PICK g : g = [i \in 1 .. p |-> IF i < m THEN f[i] ELSE f[i + 1]]
  OBVIOUS
<1>17. ASSUME NEW i \in 1 .. p
       PROVE  /\ i \in 1 .. n /\ i + 1 \in 1 .. n /\ i \in Int
              /\ g[i] = (IF i < m THEN f[i] ELSE f[i + 1])
              /\ g[i] \in S \ {key}
  <2>1. i \in 1 .. n /\ i + 1 \in 1 .. n /\ i \in Int
    BY <1>15
  <2>2. g[i] = IF i < m THEN f[i] ELSE f[i + 1]
    BY <1>16
  <2>3. (i < m => i # m) /\ (~(i < m) => i + 1 # m)
    OBVIOUS
  <2> QED BY <1>2, <1>4, <2>1, <2>2, <2>3
<1>18. Enumerates(g, p, S \ {key})
  <2>1. g \in [1 .. p -> S \ {key}]
    BY <1>16, <1>17
  <2>2. ASSUME NEW k \in S \ {key} PROVE \E i \in 1 .. p : g[i] = k
    <3>1. PICK j \in 1 .. n : f[j] = k
      BY <1>2
    <3>2. j # m
      BY <1>4, <3>1
    <3>3. CASE j < m
      <4>1. j \in 1 .. p
        BY <1>15, <3>3
      <4> QED BY <1>17, <3>1, <3>3, <4>1
    <3>4. CASE ~(j < m)
      <4>1. j - 1 \in 1 .. p /\ ~(j - 1 < m) /\ (j - 1) + 1 = j
        BY <1>15, <3>2, <3>4
      <4> QED BY <1>17, <3>1, <4>1
    <3> QED BY <3>3, <3>4
  <2>3. ASSUME NEW i \in 1 .. p, NEW j \in 1 .. p, g[i] = g[j] PROVE i = j
    <3>1. PICK a : a = IF i < m THEN i ELSE i + 1
      OBVIOUS
    <3>2. PICK b : b = IF j < m THEN j ELSE j + 1
      OBVIOUS
    <3>3. a \in 1 .. n /\ b \in 1 .. n /\ g[i] = f[a] /\ g[j] = f[b]
      BY <1>17, <3>1, <3>2
    <3>4. a = b
      BY <1>2, <2>3, <3>3
    <3> QED BY <3>1, <3>2, <3>4
  <2> QED BY <1>15, <2>1, <2>2, <2>3 DEF Enumerates
<1>19. PICK h : h = HeadAfter(head, t[key])
  OBVIOUS
<1>20. h = IF p = 0 THEN 0 ELSE g[1] + 1
  <2>1. h = IF e.prev = 0 THEN e.next ELSE head
    BY <1>6, <1>19 DEF HeadAfter
  <2>2. e.prev = 0 <=> m = 1
    BY <1>7, <1>9, <1>10
  <2>3. CASE m = 1
    <3>1. h = IF n = 1 THEN 0 ELSE f[2] + 1
      BY <1>7, <2>1, <2>2, <2>3
    <3>2. (n = 1 <=> p = 0) /\ (p # 0 => 1 \in 1 .. p)
      BY <1>15
    <3>3. p # 0 => g[1] = f[2]
      BY <1>17, <2>3, <3>2
    <3> QED BY <3>1, <3>2, <3>3
  <2>4. CASE m # 1
    <3>1. p # 0 /\ 1 \in 1 .. p /\ 1 < m /\ n # 0
      BY <1>15, <2>4
    <3>2. g[1] = f[1]
      BY <1>17, <3>1
    <3> QED BY <1>2, <2>1, <2>2, <2>4, <3>1, <3>2
  <2> QED BY <2>3, <2>4
<1>21. ASSUME NEW i \in 1 .. p PROVE u[g[i]].next = IF i = p THEN 0 ELSE g[i + 1] + 1
  <2>1. i # p => i + 1 \in 1 .. p
    BY <1>15
  <2>2. CASE i = m - 1
    <3>1. i < m /\ ~(i + 1 < m) /\ i + 1 = m /\ (i = p <=> m = n) /\ (i + 1) + 1 = m + 1
      BY <1>15, <2>2
    <3>2. u[g[i]].next = e.next
      BY <1>13, <1>17, <2>2, <3>1
    <3>3. i # p => g[i + 1] = f[m + 1]
      BY <1>17, <2>1, <3>1
    <3> QED BY <1>7, <3>1, <3>2, <3>3
  <2>3. CASE i < m - 1
    <3>1. i < m /\ i + 1 < m /\ i # n /\ i # m - 1 /\ i # p
      BY <1>15, <2>3
    <3>2. u[g[i]].next = f[i + 1] + 1
      BY <1>13, <1>17, <3>1
    <3>3. g[i + 1] = f[i + 1]
      BY <1>17, <2>1, <3>1
    <3> QED BY <3>1, <3>2, <3>3
  <2>4. CASE i >= m
    <3>1. ~(i < m) /\ ~(i + 1 < m) /\ i + 1 # m - 1 /\ (i + 1 = n <=> i = p)
      BY <1>15, <2>4
    <3>2. u[g[i]].next = IF i + 1 = n THEN 0 ELSE f[(i + 1) + 1] + 1
      BY <1>13, <1>17, <3>1
    <3>3. i # p => g[i + 1] = f[(i + 1) + 1]
      BY <1>17, <2>1, <3>1
    <3> QED BY <3>1, <3>2, <3>3
  <2>5. i = m - 1 \/ i < m - 1 \/ i >= m
    OBVIOUS
  <2> QED BY <2>2, <2>3, <2>4, <2>5
<1>22. ASSUME NEW i \in 1 .. p PROVE u[g[i]].prev = IF i = 1 THEN 0 ELSE g[i - 1] + 1
  <2>1. i # 1 => i - 1 \in 1 .. p
    BY <1>15
  <2>2. CASE i < m
    <3>1. i - 1 < m /\ i # m + 1
      BY <2>2
    <3>2. u[g[i]].prev = IF i = 1 THEN 0 ELSE f[i - 1] + 1
      BY <1>13, <1>17, <2>2, <3>1
    <3>3. i # 1 => g[i - 1] = f[i - 1]
      BY <1>17, <2>1, <3>1
    <3> QED BY <3>2, <3>3
  <2>3. CASE i = m
    <3>1. ~(i < m) /\ i + 1 = m + 1 /\ i - 1 < m /\ (i = 1 <=> m = 1)
      BY <2>3
    <3>2. u[g[i]].prev = e.prev
      BY <1>13, <1>17, <3>1
    <3>3. i # 1 => g[i - 1] = f[m - 1]
      BY <1>17, <2>1, <2>3, <3>1
    <3> QED BY <1>7, <3>1, <3>2, <3>3
  <2>4. CASE i > m
    <3>1. ~(i < m) /\ ~(i - 1 < m) /\ i + 1 # m + 1 /\ i + 1 # 1 /\ i # 1 /\ (i + 1) - 1 = i /\ (i - 1) + 1 = i
      BY <2>4
    <3>2. u[g[i]].prev = f[i] + 1
      BY <1>13, <1>17, <3>1
    <3>3. g[i - 1] = f[i]
      BY <1>17, <2>1, <3>1
    <3> QED BY <3>1, <3>2, <3>3
  <2> QED BY <2>2, <2>3, <2>4
<1>23. IsList(u, h, g, p, S \ {key})
  <2>1. Threads(u, h, g, p)
    BY <1>20, <1>21, <1>22 DEF Threads
  <2> QED BY <1>2, <1>18, <2>1 DEF IsList
<1> QED BY <1>12, <1>15, <1>19, <1>23 DEF Chained

(* Putting an entry in front of a list. *)
LEMMA LinkedList ==
  ASSUME NEW t \in Tables, NEW head, NEW S, Chained(t, head, S), NEW key \in Keys \ S,
         NEW u, u = Linked(t, key, head)
  PROVE  /\ Chained(u, key + 1, S \cup {key})
         /\ \A k \in Keys \ (S \cup {key}) : u[k].next = t[k].next /\ u[k].prev = t[k].prev
<1>0. PICK n \in Nat : \E f : IsList(t, head, f, n, S)
  BY DEF Chained
<1>1. PICK f : IsList(t, head, f, n, S)
  BY <1>0
<1>2. /\ f \in [1 .. n -> S] /\ S \subseteq Keys /\ head = IF n = 0 THEN 0 ELSE f[1] + 1
      /\ \A k \in S : \E i \in 1 .. n : f[i] = k
      /\ \A i, j \in 1 .. n : f[i] = f[j] => i = j
  BY <1>1 DEF IsList, Enumerates, Threads
<1>3. \A i \in 1 .. n : /\ t[f[i]].next = IF i = n THEN 0 ELSE f[i + 1] + 1
                        /\ t[f[i]].prev = IF i = 1 THEN 0 ELSE f[i - 1] + 1
  BY <1>1 DEF IsList, Threads
<1>4. /\ u[key].next = head /\ u[key].prev = 0
      /\ \A k \in Keys \ {key} : /\ u[k].next = t[k].next
                                 /\ u[k].prev = IF k + 1 = head THEN key + 1 ELSE t[k].prev
  <2>1. head \in 0 .. TableSize
    BY HeadFacts
  <2> QED BY <2>1, LinkedFields
<1>5. \A k \in Keys : k \in Nat /\ k + 1 # 0 /\ \A l \in Keys : k + 1 = l + 1 => k = l
  BY DEF Keys
<1>6. \A k \in Keys : k + 1 = head <=> (n # 0 /\ k = f[1])
  <2>1. n # 0 => (1 \in 1 .. n /\ f[1] \in Keys)
    BY <1>2
  <2> QED BY <1>2, <1>5, <2>1
<1>7. \A k \in Keys \ (S \cup {key}) : u[k].next = t[k].next /\ u[k].prev = t[k].prev
  <2>1. n # 0 => f[1] \in S
    BY <1>2
  <2> QED BY <1>4, <1>6, <2>1
<1>8. ASSUME NEW i \in 1 .. n
      PROVE  /\ f[i] \in Keys /\ f[i] # key
             /\ u[f[i]].next = IF i = n THEN 0 ELSE f[i + 1] + 1
             /\ u[f[i]].prev = IF i = 1 THEN key + 1 ELSE f[i - 1] + 1
  <2>1. f[i] \in Keys /\ f[i] # key
    BY <1>2
  <2>2. f[i] + 1 = head <=> i = 1
    <3>1. 1 \in 1 .. n /\ n # 0
      OBVIOUS
    <3> QED BY <1>2, <1>6, <2>1, <3>1
  <2> QED BY <1>3, <1>4, <2>1, <2>2
<1>9. PICK p : p = n + 1
  OBVIOUS
<1>10. p \in Nat /\ p # 0 /\ 1 \in 1 .. p
  BY <1>9
<1>11. PICK g : g = [i \in 1 .. p |-> IF i = 1 THEN key ELSE f[i - 1]]
  OBVIOUS
<1>12. g[1] = key /\ \A i \in 1 .. p : i # 1 => (i - 1 \in 1 .. n /\ g[i] = f[i - 1])
  <2>1. \A i \in 1 .. p : i # 1 => i - 1 \in 1 .. n
    BY <1>9
  <2> QED BY <1>10, <1>11, <2>1
<1>13. \A j \in 1 .. n : j + 1 \in 1 .. p /\ j + 1 # 1 /\ (j + 1) - 1 = j /\ g[j + 1] = f[j]
  <2>1. \A j \in 1 .. n : j + 1 \in 1 .. p /\ j + 1 # 1 /\ (j + 1) - 1 = j
    BY <1>9
  <2> QED BY <1>12, <2>1
<1>14. Enumerates(g, p, S \cup {key})
  <2>1. g \in [1 .. p -> S \cup {key}]
    <3>1. \A i \in 1 .. p : g[i] \in S \cup {key}
      BY <1>2, <1>12
    <3> QED BY <1>11, <3>1
  <2>2. ASSUME NEW k \in S \cup {key} PROVE \E i \in 1 .. p : g[i] = k
    BY <1>2, <1>10, <1>12, <1>13
  <2>3. ASSUME NEW i \in 1 .. p, NEW j \in 1 .. p, g[i] = g[j] PROVE i = j
    <3>1. CASE i = 1
      BY <1>8, <1>12, <2>3, <3>1
    <3>2. CASE j = 1
      BY <1>8, <1>12, <2>3, <3>2
    <3>3. CASE i # 1 /\ j # 1
      <4>1. i - 1 \in 1 .. n /\ j - 1 \in 1 .. n /\ f[i - 1] = f[j - 1]
        BY <1>12, <2>3, <3>3
      <4>2. i - 1 = j - 1
        BY <1>2, <4>1
      <4> QED BY <4>2
    <3> QED BY <3>1, <3>2, <3>3
  <2> QED BY <1>10, <2>1, <2>2, <2>3 DEF Enumerates
<1>15. ASSUME NEW i \in 1 .. p
       PROVE  /\ u[g[i]].next = IF i = p THEN 0 ELSE g[i + 1] + 1
              /\ u[g[i]].prev = IF i = 1 THEN 0 ELSE g[i - 1] + 1
  <2>1. CASE i = 1
    <3>1. (1 = p <=> n = 0) /\ (n # 0 => 1 \in 1 .. n)
      BY <1>9
    <3>2. n # 0 => g[1 + 1] = f[1]
      BY <1>13, <3>1
    <3> QED BY <1>2, <1>4, <1>12, <2>1, <3>1, <3>2
  <2>2. CASE i # 1
    <3>1. PICK j : j = i - 1
      OBVIOUS
    <3>2. j \in 1 .. n /\ i = j + 1 /\ g[i] = f[j] /\ (j = n <=> i = p) /\ (j # n => j + 1 \in 1 .. n)
      <4>1. j \in 1 .. n /\ i = j + 1 /\ (j = n <=> i = p) /\ (j # n => j + 1 \in 1 .. n)
        BY <1>9, <2>2, <3>1
      <4> QED BY <1>12, <2>2, <3>1, <4>1
    <3>3. u[g[i]].next = IF i = p THEN 0 ELSE g[i + 1] + 1
      <4>1. j # n => g[(j + 1) + 1] = f[j + 1]
        BY <1>13, <3>2
      <4> QED BY <1>8, <3>2, <4>1
    <3>4. u[g[i]].prev = g[i - 1] + 1
      <4>1. CASE j = 1
        BY <1>8, <1>12, <3>1, <3>2, <4>1
      <4>2. CASE j # 1
        <5>1. j \in 1 .. p
          BY <1>9, <3>2
        <5>2. g[j] = f[j - 1]
          BY <1>12, <4>2, <5>1
        <5> QED BY <1>8, <3>1, <3>2, <4>2, <5>2
      <4> QED BY <4>1, <4>2
    <3> QED BY <2>2, <3>3, <3>4
  <2> QED BY <2>1, <2>2
<1>16. IsList(u, key + 1, g, p, S \cup {key})
  <2>1. key + 1 = IF p = 0 THEN 0 ELSE g[1] + 1
    BY <1>10, <1>12
  <2>2. Threads(u, key + 1, g, p)
    BY <1>15, <2>1 DEF Threads
  <2> QED BY <1>2, <1>14, <2>2 DEF IsList
<1> QED BY <1>7, <1>10, <1>16 DEF Chained

UsedOf(t, kill) == {k \in Keys : t[k].conn # NoMember /\ t[k].kill = kill}
EntriesOf(t, c) == {k \in Keys : t[k].conn = c}
GoodTable(t, a, b) ==
  /\ t \in Tables /\ Flagged(t)
  /\ \A k \in Keys : t[k].conn = NoMember => t[k].kill = FALSE
  /\ Chained(t, a, UsedOf(t, FALSE)) /\ Chained(t, b, UsedOf(t, TRUE))
CollexionInv ==
  /\ HashOK /\ GoodTable(table, activeHead, inactiveHead)
  /\ used = Cardinality(UsedOf(table, FALSE)) + Cardinality(UsedOf(table, TRUE))
  /\ tableRefs = [c \in Members |-> Cardinality(EntriesOf(table, c))]
  /\ subsetCount \in Nat /\ lent \subseteq Members
  /\ \A c \in lent : EntriesOf(table, c) # {}
  /\ subsetCount = 0 => (inactiveHead = 0 /\ lent = {})

(* The sets of entries that are counted are finite. *)
LEMMA UsedFacts ==
  ASSUME NEW t \in Tables
  PROVE  /\ \A x : UsedOf(t, x) \subseteq Keys /\ IsFiniteSet(UsedOf(t, x)) /\ Cardinality(UsedOf(t, x)) \in Nat
         /\ \A c : /\ EntriesOf(t, c) \subseteq Keys /\ IsFiniteSet(EntriesOf(t, c))
                   /\ Cardinality(EntriesOf(t, c)) \in Nat
                   /\ (EntriesOf(t, c) # {} => Cardinality(EntriesOf(t, c)) > 0)
<1>1. ASSUME NEW S \in SUBSET Keys PROVE IsFiniteSet(S) /\ Cardinality(S) \in Nat /\ (S # {} => Cardinality(S) > 0)
  <2>1. IsFiniteSet(S)
    BY KeysCount, FS_Subset
  <2>2. Cardinality(S) \in Nat /\ (Cardinality(S) = 0 <=> S = {})
    BY <2>1, FS_CardinalityType, FS_EmptySet
  <2> QED BY <2>1, <2>2
<1>2. \A x : UsedOf(t, x) \in SUBSET Keys
  BY DEF UsedOf
<1>3. \A c : EntriesOf(t, c) \in SUBSET Keys
  BY DEF EntriesOf
<1> QED BY <1>1, <1>2, <1>3

(* The two lists hold the used entries once each. *)
LEMMA InvLists == CollexionInv => ListsExact
<1> SUFFICES ASSUME CollexionInv PROVE ListsExact
  OBVIOUS
<1>1. table \in Tables /\ Chained(table, activeHead, UsedOf(table, FALSE)) /\ Chained(table, inactiveHead, UsedOf(table, TRUE))
  BY DEF CollexionInv, GoodTable
<1>2. ASSUME NEW head, NEW kill, Chained(table, head, UsedOf(table, kill))
      PROVE  LET s == Walk(table, head) IN
             /\ Range(s) = InList(kill) /\ Len(s) = Cardinality(Range(s)) /\ Len(s) = Cardinality(UsedOf(table, kill))
             /\ \A i \in 2 .. Len(s) : table[s[i]].prev = s[i - 1] + 1
  <2>0. PICK n \in Nat : \E f : IsList(table, head, f, n, UsedOf(table, kill))
    BY <1>2 DEF Chained
  <2>1. PICK f : IsList(table, head, f, n, UsedOf(table, kill))
    BY <2>0
  <2>2. Walk(table, head) = f
    BY <1>1, <2>1, WalkIs
  <2>3. f \in [1 .. n -> UsedOf(table, kill)] /\ \A k \in UsedOf(table, kill) : \E i \in 1 .. n : f[i] = k
    BY <2>1 DEF IsList, Enumerates
  <2>4. Len(f) = n /\ DOMAIN f = 1 .. n
    <3>1. f \in Seq(UsedOf(table, kill))
      BY <2>3, IsASeq
    <3> QED BY <2>3, <3>1, LenProperties
  <2>5. Range(f) = UsedOf(table, kill)
    BY <2>3, <2>4 DEF Range
  <2>6. InList(kill) = UsedOf(table, kill)
    BY DEF InList, UsedOf
  <2>7. Cardinality(UsedOf(table, kill)) = n
    BY <2>1, ListCount
  <2>8. ASSUME NEW i \in 2 .. n PROVE table[f[i]].prev = f[i - 1] + 1
    <3>1. i \in 1 .. n /\ i # 1
      OBVIOUS
    <3> QED BY <2>1, <3>1 DEF IsList, Threads
  <2> QED BY <2>2, <2>4, <2>5, <2>6, <2>7, <2>8
<1>3. used = Cardinality(UsedOf(table, FALSE)) + Cardinality(UsedOf(table, TRUE))
  BY DEF CollexionInv
<1>4. PICK a : a = Walk(table, activeHead)
  OBVIOUS
<1>5. PICK b : b = Walk(table, inactiveHead)
  OBVIOUS
<1>6. /\ Range(a) = InList(FALSE) /\ Len(a) = Cardinality(Range(a)) /\ Len(a) = Cardinality(UsedOf(table, FALSE))
      /\ \A i \in 2 .. Len(a) : table[a[i]].prev = a[i - 1] + 1
  BY <1>1, <1>2, <1>4
<1>7. /\ Range(b) = InList(TRUE) /\ Len(b) = Cardinality(Range(b)) /\ Len(b) = Cardinality(UsedOf(table, TRUE))
      /\ \A i \in 2 .. Len(b) : table[b[i]].prev = b[i - 1] + 1
  BY <1>1, <1>2, <1>5
<1> QED BY <1>3, <1>4, <1>5, <1>6, <1>7 DEF ListsExact

(* The invariant is enough. *)
LEMMA InvSafe == CollexionInv => CollexionSafe
<1> SUFFICES ASSUME CollexionInv PROVE CollexionSafe
  OBVIOUS
<1>1. table \in Tables /\ Flagged(table) /\ HashOK /\ Chained(table, inactiveHead, UsedOf(table, TRUE))
  BY DEF CollexionInv, GoodTable
<1>2. EveryMemberFound
  <2> SUFFICES ASSUME NEW k \in Keys, table[k].conn # NoMember PROVE FoundAt(table[k].conn) # {}
    BY DEF EveryMemberFound
  <2>1. PICK i \in 0 .. TableSize - 1 : Leads(table, k, i)
    BY <1>1 DEF Flagged
  <2>2. PICK c : c = table[k].conn
    OBVIOUS
  <2>3. Probe(c)[i] = k /\ \A j \in 0 .. i - 1 : table[Probe(c)[j]].collide
    BY <2>1, <2>2 DEF Leads
  <2>4. i \in FoundAt(c)
    BY <2>2, <2>3 DEF FoundAt
  <2> QED BY <2>2, <2>4
<1>3. \A c \in Members : tableRefs[c] = Cardinality(EntriesOf(table, c))
  BY DEF CollexionInv
<1>4. SubsetsStayReferenced
  <2>1. \A c \in lent : tableRefs[c] > 0
    BY <1>1, <1>3, UsedFacts DEF CollexionInv
  <2>2. inactiveHead # 0 => subsetCount > 0
    BY DEF CollexionInv
  <2> QED BY <1>3, <2>1, <2>2 DEF SubsetsStayReferenced, EntriesOf
<1> QED BY <1>2, <1>4, InvLists DEF CollexionSafe

LEMMA GoodPrimed ==
  ASSUME hash' = hash, GoodTable(table', activeHead', inactiveHead')
  PROVE  GoodTable(table, activeHead, inactiveHead)'
BY DEF GoodTable, Flagged, Leads, Probe, Tables, Entries, Chained, IsList, Enumerates, Threads, UsedOf

(* What only changes flags. *)
LEMMA FlagsOnly ==
  ASSUME NEW t, NEW a, NEW b, NEW u, GoodTable(t, a, b), SameEntries(t, u), Flagged(u)
  PROVE  /\ GoodTable(u, a, b)
         /\ \A x : UsedOf(u, x) = UsedOf(t, x)
         /\ \A c : EntriesOf(u, c) = EntriesOf(t, c)
<1>1. ASSUME NEW x PROVE UsedOf(u, x) = UsedOf(t, x)
  BY DEF UsedOf, SameEntries
<1>2. ASSUME NEW c PROVE EntriesOf(u, c) = EntriesOf(t, c)
  BY DEF EntriesOf, SameEntries
<1>3. \A x : UsedOf(t, x) \subseteq Keys
  BY DEF UsedOf
<1>4. Chained(u, a, UsedOf(t, FALSE)) /\ Chained(u, b, UsedOf(t, TRUE))
  <2>1. Chained(t, a, UsedOf(t, FALSE)) /\ Chained(t, b, UsedOf(t, TRUE))
    BY DEF GoodTable
  <2>2. \A k \in Keys : u[k].next = t[k].next /\ u[k].prev = t[k].prev
    BY DEF SameEntries
  <2> QED BY <1>3, <2>1, <2>2, ListKept
<1>5. \A k \in Keys : u[k].conn = NoMember => u[k].kill = FALSE
  BY DEF SameEntries, GoodTable
<1>6. u \in Tables
  BY DEF SameEntries
<1> QED BY <1>1, <1>2, <1>4, <1>5, <1>6 DEF GoodTable

(* An entry is emptied, and the flags before it cleared where it had none. *)
EntryEmptied(w, key, y) ==
  /\ y \in Tables /\ Flagged(y) /\ y[key].conn = NoMember /\ y[key].kill = FALSE
  /\ \A k \in Keys \ {key} : /\ y[k].conn = w[k].conn /\ y[k].kill = w[k].kill
                             /\ y[k].next = w[k].next /\ y[k].prev = w[k].prev

(* An entry is emptied and its flags go with it, if it was the end of a chain. *)
LEMMA EmptiedKeeps ==
  ASSUME HashOK, NEW w \in Tables, Flagged(w), NEW key \in Keys, NEW x, NEW y,
         x = [w EXCEPT ![key] = [EmptyEntry EXCEPT !.collide = w[key].collide]],
         y = IF w[key].collide THEN x ELSE ClearFlags(x, key)
  PROVE  EntryEmptied(w, key, y)
<1>1. PICK e : e = [EmptyEntry EXCEPT !.collide = w[key].collide]
  OBVIOUS
<1>2. e \in Entries /\ e.conn = NoMember /\ e.kill = FALSE /\ e.collide = w[key].collide
  <2>1. w[key].collide \in BOOLEAN /\ 0 \in 0 .. TableSize
    BY EntryFacts, CollexionAssumption
  <2> QED BY <1>1, <2>1 DEF EmptyEntry, Entries
<1>3. x[key] = e /\ \A k \in Keys \ {key} : x[k] = w[k]
  BY <1>1 DEF Tables
<1>4. x \in Tables
  BY <1>1, <1>2 DEF Tables
<1>5. Flagged(x)
  <2>1. \A k \in Keys : x[k].conn # NoMember => x[k].conn = w[k].conn
    BY <1>2, <1>3
  <2>2. \A k \in Keys : w[k].collide => x[k].collide
    BY <1>2, <1>3
  <2> QED BY <1>4, <2>1, <2>2, MoreFlags
<1>6. CASE w[key].collide
  <2>1. y = x
    BY <1>6
  <2> QED BY <1>2, <1>3, <1>4, <1>5, <2>1 DEF EntryEmptied
<1>7. CASE ~w[key].collide
  <2>1. y = ClearFlags(x, key)
    BY <1>7
  <2>2. SameEntries(x, y) /\ Flagged(y)
    BY <1>2, <1>3, <1>4, <1>5, <1>7, <2>1, ClearFlagsKeeps
  <2>3. \A k \in Keys : /\ y[k].conn = x[k].conn /\ y[k].kill = x[k].kill
                        /\ y[k].next = x[k].next /\ y[k].prev = x[k].prev
    BY <2>2 DEF SameEntries
  <2>4. y[key].conn = NoMember /\ y[key].kill = FALSE
    BY <1>2, <1>3, <2>3
  <2>5. \A k \in Keys \ {key} : /\ y[k].conn = w[k].conn /\ y[k].kill = w[k].kill
                                /\ y[k].next = w[k].next /\ y[k].prev = w[k].prev
    <3>1. ASSUME NEW k \in Keys \ {key}
          PROVE  y[k].conn = w[k].conn /\ y[k].kill = w[k].kill /\ y[k].next = w[k].next /\ y[k].prev = w[k].prev
      <4>1. k \in Keys
        OBVIOUS
      <4>2. x[k] = w[k]
        BY <1>3
      <4>3. /\ y[k].conn = x[k].conn /\ y[k].kill = x[k].kill
            /\ y[k].next = x[k].next /\ y[k].prev = x[k].prev
        BY <2>3, <4>1
      <4> QED BY <4>2, <4>3
    <3> QED BY <3>1
  <2>6. y \in Tables
    BY <2>2 DEF SameEntries
  <2> QED BY <2>2, <2>4, <2>5, <2>6 DEF EntryEmptied
<1> QED BY <1>6, <1>7

(* Insert() stops: the table is not full, and the probes meet all of it. *)
LEMMA InsertStops ==
  ASSUME CollexionInv, NEW c \in Members, used < TableSize \div 2
  PROVE  /\ InsertStop(c) \in 0 .. TableSize - 1
         /\ Probe(c)[InsertStop(c)] \in Keys
<1>1. table \in Tables /\ HashOK
  BY DEF CollexionInv, GoodTable
<1>2. PICK A : A = UsedOf(table, FALSE)
  OBVIOUS
<1>3. PICK B : B = UsedOf(table, TRUE)
  OBVIOUS
<1>4. /\ A \subseteq Keys /\ B \subseteq Keys /\ IsFiniteSet(A) /\ IsFiniteSet(B)
      /\ Cardinality(A) \in Nat /\ Cardinality(B) \in Nat
  BY <1>1, <1>2, <1>3, UsedFacts
<1>5. used = Cardinality(A) + Cardinality(B)
  BY <1>2, <1>3 DEF CollexionInv
<1>6. TableSize \in Nat \ {0} /\ TableSize \div 2 <= TableSize
  BY CollexionAssumption
<1>7. A \cap B = {}
  BY <1>2, <1>3 DEF UsedOf
<1>8. Cardinality(A \cup B) = Cardinality(A) + Cardinality(B)
  <2>1. Cardinality(A \cup B) = Cardinality(A) + Cardinality(B) - Cardinality(A \cap B)
    BY <1>4, FS_Union
  <2>2. Cardinality(A \cap B) = 0
    BY <1>7, FS_EmptySet
  <2> QED BY <1>4, <2>1, <2>2
<1>9. A \cup B # Keys
  <2>1. Cardinality(A \cup B) # TableSize
    <3>1. TableSize \div 2 \in Nat
      BY <1>6
    <3> QED BY <1>4, <1>5, <1>6, <1>8, <3>1
  <2> QED BY <2>1, KeysCount
<1>10. PICK k \in Keys : k \notin A /\ k \notin B
  BY <1>4, <1>9
<1>11. table[k].conn = NoMember
  <2>1. table[k].kill \in BOOLEAN
    BY <1>1, EntryFacts
  <2>2. table[k].kill = TRUE \/ table[k].kill = FALSE
    BY <2>1
  <2> QED BY <1>2, <1>3, <1>10, <2>2 DEF UsedOf
<1>12. hash[c] \in Keys
  BY <1>1, CollexionAssumption DEF HashOK
<1>13. PICK i \in 0 .. TableSize - 1 : Probe(c)[i] = k
  BY <1>12, PeriodAssumption DEF Probe
<1>14. PICK S : S = {j \in 0 .. TableSize - 1 : table[Probe(c)[j]].conn \in {c, NoMember}}
  OBVIOUS
<1>15. S \subseteq Nat /\ S \subseteq 0 .. TableSize - 1 /\ S # {}
  <2>1. i \in S
    BY <1>11, <1>13, <1>14
  <2> QED BY <1>14, <2>1
<1>16. InsertStop(c) \in S
  BY <1>14, <1>15, MinFacts DEF InsertStop
<1>17. InsertStop(c) \in 0 .. TableSize - 1
  BY <1>15, <1>16
<1>18. InsertStop(c) \in 0 .. TableSize
  BY <1>6, <1>17
<1> QED BY <1>1, <1>17, <1>18, ProbeKeys

(* Flags are set on the way. *)
FlaggedAt(t, passed) == [k \in Keys |-> IF k \in passed THEN [t[k] EXCEPT !.collide = TRUE] ELSE t[k]]
LEMMA FlaggedAtFacts ==
  ASSUME HashOK, NEW t \in Tables, Flagged(t), NEW passed, NEW u, u = FlaggedAt(t, passed)
  PROVE  /\ SameEntries(t, u) /\ Flagged(u)
         /\ \A k \in Keys \cap passed : u[k].collide
<1>1. ASSUME NEW k \in Keys
      PROVE  /\ u[k] \in Entries /\ u[k].conn = t[k].conn /\ u[k].kill = t[k].kill
             /\ u[k].next = t[k].next /\ u[k].prev = t[k].prev
             /\ (t[k].collide => u[k].collide) /\ (k \in passed => u[k].collide)
  <2>1. t[k] \in Entries
    BY EntryFacts
  <2>2. PICK e : e = [t[k] EXCEPT !.collide = TRUE]
    OBVIOUS
  <2>3. /\ e \in Entries /\ e.conn = t[k].conn /\ e.kill = t[k].kill /\ e.next = t[k].next /\ e.prev = t[k].prev
        /\ e.collide
    BY <2>1, <2>2 DEF Entries
  <2>4. u[k] = IF k \in passed THEN e ELSE t[k]
    BY <2>2 DEF FlaggedAt
  <2> QED BY <2>1, <2>3, <2>4
<1>2. u \in Tables
  BY <1>1 DEF FlaggedAt, Tables
<1>3. SameEntries(t, u)
  BY <1>1, <1>2 DEF SameEntries
<1>4. Flagged(u)
  BY <1>1, <1>2, MoreFlags
<1> QED BY <1>1, <1>3, <1>4

(* Insert() of a connexion that is in the table. *)
LEMMA InsertAgainKeeps ==
  ASSUME CollexionInv, NEW c \in Members, CollexionInsertAgain(c) PROVE CollexionInv'
<1>1. GoodTable(table, activeHead, inactiveHead) /\ HashOK /\ table \in Tables /\ Flagged(table)
  BY DEF CollexionInv, GoodTable
<1>2. PICK passed : passed = {Probe(c)[i] : i \in 0 .. InsertStop(c) - 1}
  OBVIOUS
<1>3. table' = FlaggedAt(table, passed)
  BY <1>2 DEF CollexionInsertAgain, FlaggedAt
<1>4. UNCHANGED <<hash, activeHead, inactiveHead, used, subsetCount, lent, tableRefs>>
  BY DEF CollexionInsertAgain
<1>5. SameEntries(table, table') /\ Flagged(table')
  BY <1>1, <1>3, FlaggedAtFacts
<1>6. /\ GoodTable(table', activeHead, inactiveHead)
      /\ \A x : UsedOf(table', x) = UsedOf(table, x)
      /\ \A d : EntriesOf(table', d) = EntriesOf(table, d)
  BY <1>1, <1>5, FlagsOnly
<1>7. GoodTable(table, activeHead, inactiveHead)'
  BY <1>4, <1>6, GoodPrimed
<1>8. tableRefs' = [d \in Members |-> Cardinality(EntriesOf(table', d))]
  BY <1>4, <1>6 DEF CollexionInv
<1>9. HashOK'
  BY <1>1, <1>4 DEF HashOK
<1>10. used' = Cardinality(UsedOf(table', FALSE)) + Cardinality(UsedOf(table', TRUE))
  <2>1. UsedOf(table', FALSE) = UsedOf(table, FALSE) /\ UsedOf(table', TRUE) = UsedOf(table, TRUE)
    BY <1>6
  <2>2. used = Cardinality(UsedOf(table, FALSE)) + Cardinality(UsedOf(table, TRUE))
    BY DEF CollexionInv
  <2> QED BY <1>4, <2>1, <2>2
<1>11. \A d \in lent : EntriesOf(table', d) # {}
  BY <1>6 DEF CollexionInv
<1>12. subsetCount' \in Nat /\ lent' \subseteq Members /\ (subsetCount' = 0 => (inactiveHead' = 0 /\ lent' = {}))
  BY <1>4 DEF CollexionInv
<1> QED BY <1>4, <1>7, <1>8, <1>9, <1>10, <1>11, <1>12 DEF CollexionInv

(* Insert() of a new one. *)
LEMMA CollexionInsertKeeps ==
  ASSUME CollexionInv, NEW c \in Members, CollexionInsert(c) PROVE CollexionInv'
<1>1. GoodTable(table, activeHead, inactiveHead) /\ HashOK /\ table \in Tables /\ Flagged(table)
  BY DEF CollexionInv, GoodTable
<1>2. PICK at : at = InsertStop(c)
  OBVIOUS
<1>3. PICK key : key = Probe(c)[at]
  OBVIOUS
<1>4. PICK passed : passed = {Probe(c)[i] : i \in 0 .. at - 1}
  OBVIOUS
<1>5. PICK F : F = FlaggedAt(table, passed)
  OBVIOUS
<1>6. PICK G : G = [F EXCEPT ![key].conn = c]
  OBVIOUS
<1>7. /\ used < TableSize \div 2 /\ table[key].conn = NoMember
      /\ table' = Linked(G, key, activeHead) /\ activeHead' = key + 1 /\ used' = used + 1
      /\ tableRefs' = [tableRefs EXCEPT ![c] = @ + 1]
      /\ UNCHANGED <<hash, inactiveHead, subsetCount, lent>>
  BY <1>2, <1>3, <1>4, <1>5, <1>6 DEF CollexionInsert, FlaggedAt
<1>8. at \in 0 .. TableSize - 1 /\ key \in Keys
  BY <1>2, <1>3, <1>7, InsertStops
<1>9. SameEntries(table, F) /\ Flagged(F) /\ \A k \in Keys \cap passed : F[k].collide
  BY <1>1, <1>5, FlaggedAtFacts
<1>10. F \in Tables /\ c # NoMember
  BY <1>9, CollexionAssumption DEF SameEntries
<1>11. PICK e : e = [F[key] EXCEPT !.conn = c]
  OBVIOUS
<1>12. /\ e \in Entries /\ e.conn = c /\ e.kill = F[key].kill /\ e.next = F[key].next /\ e.prev = F[key].prev
       /\ e.collide = F[key].collide
  <2>1. F[key] \in Entries
    BY <1>8, <1>10, EntryFacts
  <2> QED BY <1>11, <2>1 DEF Entries
<1>13. G[key] = e /\ \A k \in Keys \ {key} : G[k] = F[k]
  BY <1>6, <1>8, <1>10, <1>11 DEF Tables
<1>14. G \in Tables
  <2>1. G = [F EXCEPT ![key] = e]
    BY <1>6, <1>11
  <2> QED BY <1>8, <1>10, <1>12, <2>1 DEF Tables
<1>15. \A k \in Keys : /\ G[k].conn = (IF k = key THEN c ELSE table[k].conn) /\ G[k].kill = table[k].kill
                       /\ G[k].next = table[k].next /\ G[k].prev = table[k].prev /\ G[k].collide = F[k].collide
  <2>1. \A k \in Keys : /\ F[k].conn = table[k].conn /\ F[k].kill = table[k].kill
                        /\ F[k].next = table[k].next /\ F[k].prev = table[k].prev
    BY <1>9 DEF SameEntries
  <2>2. ASSUME NEW k \in Keys
        PROVE  /\ G[k].conn = (IF k = key THEN c ELSE table[k].conn) /\ G[k].kill = table[k].kill
               /\ G[k].next = table[k].next /\ G[k].prev = table[k].prev /\ G[k].collide = F[k].collide
    <3>1. CASE k = key
      BY <1>8, <1>12, <1>13, <2>1, <3>1
    <3>2. CASE k # key
      <4>1. G[k] = F[k]
        BY <1>13, <3>2
      <4> QED BY <2>1, <3>2, <4>1
    <3> QED BY <3>1, <3>2
  <2> QED BY <2>2
<1>16. Flagged(G)
  <2> SUFFICES ASSUME NEW k \in Keys, G[k].conn # NoMember PROVE \E i \in 0 .. TableSize - 1 : Leads(G, k, i)
    BY DEF Flagged
  <2>0. \A i \in 0 .. TableSize - 1 : \A j \in 0 .. i - 1 : j \in 0 .. TableSize
    BY CollexionAssumption
  <2>1. CASE k = key
    <3>1. ASSUME NEW j \in 0 .. at - 1 PROVE G[Probe(c)[j]].collide
      <4>1. Probe(c)[j] \in Keys
        BY <1>1, <1>8, <2>0, ProbeKeys
      <4>2. Probe(c)[j] \in passed
        BY <1>4
      <4> QED BY <1>9, <1>15, <4>1, <4>2
    <3>2. Leads(G, k, at)
      BY <1>3, <1>15, <2>1, <3>1 DEF Leads
    <3> QED BY <1>8, <3>2
  <2>2. CASE k # key
    <3>1. G[k].conn = F[k].conn
      BY <1>13, <2>2
    <3>2. PICK i \in 0 .. TableSize - 1 : Leads(F, k, i)
      BY <1>9, <3>1 DEF Flagged
    <3>3. PICK d : d = F[k].conn
      OBVIOUS
    <3>4. d \in Members
      BY <1>10, <3>1, <3>3, EntryFacts
    <3>5. \A j \in 0 .. i - 1 : Probe(d)[j] \in Keys
      BY <1>1, <2>0, <3>4, ProbeKeys
    <3>6. Leads(G, k, i)
      BY <1>15, <3>1, <3>2, <3>3, <3>5 DEF Leads
    <3> QED BY <3>6
  <2> QED BY <2>1, <2>2
<1>17. PICK A : A = UsedOf(table, FALSE)
  OBVIOUS
<1>18. PICK B : B = UsedOf(table, TRUE)
  OBVIOUS
<1>19. Chained(table, activeHead, A) /\ Chained(table, inactiveHead, B)
  BY <1>1, <1>17, <1>18 DEF GoodTable
<1>20. A \subseteq Keys /\ B \subseteq Keys /\ A \cap B = {} /\ key \notin A /\ key \notin B
  BY <1>7, <1>17, <1>18 DEF UsedOf
<1>21. Chained(G, activeHead, A) /\ Chained(G, inactiveHead, B)
  BY <1>15, <1>19, <1>20, ListKept
<1>22. /\ Chained(table', key + 1, A \cup {key})
       /\ \A k \in Keys \ (A \cup {key}) : table'[k].next = G[k].next /\ table'[k].prev = G[k].prev
  BY <1>7, <1>8, <1>14, <1>20, <1>21, LinkedList
<1>23. Chained(table', inactiveHead, B)
  <2>1. \A k \in B : k \in Keys \ (A \cup {key})
    BY <1>20
  <2> QED BY <1>21, <1>22, <2>1, ListKept
<1>24. SameMembers(G, table')
  <2>1. activeHead \in 0 .. TableSize
    BY <1>19, HeadFacts
  <2> QED BY <1>7, <1>8, <1>14, <2>1, LinkedFields
<1>25. table' \in Tables /\ Flagged(table')
  <2>1. table' \in Tables
    BY <1>24 DEF SameMembers
  <2>2. \A k \in Keys : table'[k].conn = G[k].conn /\ table'[k].collide = G[k].collide
    BY <1>24 DEF SameMembers
  <2> QED BY <1>1, <1>14, <1>16, <2>1, <2>2, MoreFlags
<1>26. \A k \in Keys : /\ table'[k].conn = (IF k = key THEN c ELSE table[k].conn)
                       /\ table'[k].kill = table[k].kill
  BY <1>15, <1>24 DEF SameMembers
<1>27. \A k \in Keys : table[k].conn = NoMember => table[k].kill = FALSE
  BY <1>1 DEF GoodTable
<1>28. UsedOf(table', FALSE) = A \cup {key} /\ UsedOf(table', TRUE) = B
  BY <1>7, <1>8, <1>10, <1>17, <1>18, <1>26, <1>27 DEF UsedOf
<1>29. GoodTable(table', key + 1, inactiveHead)
  BY <1>10, <1>22, <1>23, <1>25, <1>26, <1>27, <1>28 DEF GoodTable
<1>30. GoodTable(table, activeHead, inactiveHead)'
  BY <1>7, <1>29, GoodPrimed
<1>31. used' = Cardinality(UsedOf(table', FALSE)) + Cardinality(UsedOf(table', TRUE))
  <2>1. IsFiniteSet(A) /\ Cardinality(A) \in Nat /\ Cardinality(B) \in Nat
    BY <1>1, <1>17, <1>18, UsedFacts
  <2>2. Cardinality(A \cup {key}) = Cardinality(A) + 1
    BY <1>20, <2>1, FS_AddElement
  <2>3. used = Cardinality(A) + Cardinality(B)
    BY <1>17, <1>18 DEF CollexionInv
  <2>4. PICK a : a = Cardinality(A)
    OBVIOUS
  <2>5. PICK b : b = Cardinality(B)
    OBVIOUS
  <2>6. used' = (a + 1) + b
    BY <1>7, <2>1, <2>3, <2>4, <2>5
  <2>7. Cardinality(UsedOf(table', FALSE)) = a + 1 /\ Cardinality(UsedOf(table', TRUE)) = b
    BY <1>28, <2>2, <2>4, <2>5
  <2> QED BY <2>6, <2>7
<1>32. EntriesOf(table', c) = EntriesOf(table, c) \cup {key} /\ key \notin EntriesOf(table, c)
  BY <1>7, <1>8, <1>10, <1>26 DEF EntriesOf
<1>33. \A d \in Members \ {c} : EntriesOf(table', d) = EntriesOf(table, d)
  <2>1. ASSUME NEW d \in Members \ {c} PROVE EntriesOf(table', d) = EntriesOf(table, d)
    <3>1. d # NoMember
      BY CollexionAssumption
    <3> QED BY <1>7, <1>26, <3>1 DEF EntriesOf
  <2> QED BY <2>1
<1>34. tableRefs' = [d \in Members |-> Cardinality(EntriesOf(table', d))]
  <2>1. tableRefs = [d \in Members |-> Cardinality(EntriesOf(table, d))]
    BY DEF CollexionInv
  <2>2. Cardinality(EntriesOf(table', c)) = Cardinality(EntriesOf(table, c)) + 1
    <3>1. IsFiniteSet(EntriesOf(table, c))
      BY <1>1, UsedFacts
    <3> QED BY <1>32, <3>1, FS_AddElement
  <2> QED BY <1>7, <1>33, <2>1, <2>2
<1>35. \A d \in lent : EntriesOf(table', d) # {}
  <2>1. \A d \in lent : d \in Members /\ EntriesOf(table, d) # {}
    BY DEF CollexionInv
  <2> QED BY <1>32, <1>33, <2>1
<1>36. HashOK'
  BY <1>1, <1>7 DEF HashOK
<1>37. subsetCount' \in Nat /\ lent' \subseteq Members /\ (subsetCount' = 0 => (inactiveHead' = 0 /\ lent' = {}))
  BY <1>7 DEF CollexionInv
<1> QED BY <1>7, <1>30, <1>31, <1>34, <1>35, <1>36, <1>37 DEF CollexionInv

(* Where Remove() finds a connexion. *)
LEMMA FoundFacts ==
  ASSUME CollexionInv, NEW c \in Members, FoundAt(c) # {}, NEW key, key = Probe(c)[Min(FoundAt(c))]
  PROVE  key \in Keys /\ table[key].conn = c
<1>1. HashOK
  BY DEF CollexionInv
<1>2. FoundAt(c) \subseteq Nat /\ FoundAt(c) \subseteq 0 .. TableSize /\ \A i \in FoundAt(c) : table[Probe(c)[i]].conn = c
  <2>1. 0 .. TableSize - 1 \subseteq 0 .. TableSize /\ 0 .. TableSize \subseteq Nat
    BY CollexionAssumption
  <2> QED BY <2>1 DEF FoundAt
<1>3. Min(FoundAt(c)) \in FoundAt(c)
  BY <1>2, MinFacts
<1> QED BY <1>1, <1>2, <1>3, ProbeKeys

(* Remove() while no subset is out. *)
LEMMA CollexionRemoveKeeps ==
  ASSUME CollexionInv, NEW c \in Members, CollexionRemove(c) PROVE CollexionInv'
<1>1. GoodTable(table, activeHead, inactiveHead) /\ HashOK /\ table \in Tables /\ Flagged(table)
  BY DEF CollexionInv, GoodTable
<1>2. PICK key : key = Probe(c)[Min(FoundAt(c))]
  OBVIOUS
<1>3. PICK w : w = Unlinked(table, key)
  OBVIOUS
<1>4. PICK x : x = [w EXCEPT ![key] = [EmptyEntry EXCEPT !.collide = table[key].collide]]
  OBVIOUS
<1>5. /\ subsetCount = 0 /\ FoundAt(c) # {}
      /\ table' = (IF table[key].collide THEN x ELSE ClearFlags(x, key))
      /\ activeHead' = HeadAfter(activeHead, table[key]) /\ used' = used - 1
      /\ tableRefs' = [tableRefs EXCEPT ![c] = @ - 1]
      /\ UNCHANGED <<hash, inactiveHead, subsetCount, lent>>
  BY <1>2, <1>3, <1>4 DEF CollexionRemove
<1>6. key \in Keys /\ table[key].conn = c /\ c # NoMember
  BY <1>2, <1>5, FoundFacts, CollexionAssumption
<1>7. SameMembers(table, w)
  BY <1>1, <1>3, <1>6, UnlinkedFields
<1>8. w \in Tables /\ \A k \in Keys : w[k].conn = table[k].conn /\ w[k].collide = table[k].collide /\ w[k].kill = table[k].kill
  BY <1>7 DEF SameMembers
<1>9. Flagged(w)
  BY <1>1, <1>8, MoreFlags
<1>10. EntryEmptied(w, key, table')
  <2>1. w[key].collide = table[key].collide
    BY <1>6, <1>8
  <2>2. x = [w EXCEPT ![key] = [EmptyEntry EXCEPT !.collide = w[key].collide]]
    BY <1>4, <2>1
  <2>3. table' = IF w[key].collide THEN x ELSE ClearFlags(x, key)
    BY <1>5, <2>1
  <2> QED BY <1>1, <1>6, <1>8, <1>9, <2>2, <2>3, EmptiedKeeps
<1>11. /\ table' \in Tables /\ Flagged(table') /\ table'[key].conn = NoMember /\ table'[key].kill = FALSE
       /\ \A k \in Keys \ {key} : /\ table'[k].conn = table[k].conn /\ table'[k].kill = table[k].kill
                                  /\ table'[k].next = w[k].next /\ table'[k].prev = w[k].prev
  BY <1>8, <1>10 DEF EntryEmptied
<1>12. PICK A : A = UsedOf(table, FALSE)
  OBVIOUS
<1>13. PICK B : B = UsedOf(table, TRUE)
  OBVIOUS
<1>14. Chained(table, activeHead, A) /\ Chained(table, inactiveHead, B)
  BY <1>1, <1>12, <1>13 DEF GoodTable
<1>15. B = {}
  <2>1. inactiveHead = 0
    BY <1>5 DEF CollexionInv
  <2> QED BY <1>14, <2>1, HeadFacts
<1>16. key \in A /\ A \subseteq Keys
  <2>1. table[key].kill = TRUE \/ table[key].kill = FALSE
    BY <1>1, <1>6, EntryFacts
  <2>2. key \notin B
    BY <1>15
  <2> QED BY <1>6, <1>12, <1>13, <2>1, <2>2 DEF UsedOf
<1>17. Chained(w, HeadAfter(activeHead, table[key]), A \ {key})
  BY <1>1, <1>3, <1>14, <1>16, UnlinkedList
<1>18. Chained(table', HeadAfter(activeHead, table[key]), A \ {key})
  <2>1. \A k \in A \ {key} : k \in Keys \ {key}
    BY <1>16
  <2>2. \A k \in A \ {key} : table'[k].next = w[k].next /\ table'[k].prev = w[k].prev
    BY <1>11, <2>1
  <2> QED BY <1>17, <2>2, ListKept
<1>19. Chained(table', inactiveHead, B)
  BY <1>14, <1>15, ListKept
<1>20. UsedOf(table', FALSE) = A \ {key} /\ UsedOf(table', TRUE) = B
  <2>1. UsedOf(table', FALSE) = A \ {key}
    BY <1>6, <1>11, <1>12 DEF UsedOf
  <2>2. UsedOf(table', TRUE) = B
    <3>1. key \notin B
      BY <1>15
    <3> QED BY <1>6, <1>11, <1>13, <3>1 DEF UsedOf
  <2> QED BY <2>1, <2>2
<1>21. \A k \in Keys : table[k].conn = NoMember => table[k].kill = FALSE
  BY <1>1 DEF GoodTable
<1>22. GoodTable(table', activeHead', inactiveHead)
  <2>1. \A k \in Keys : table'[k].conn = NoMember => table'[k].kill = FALSE
    BY <1>11, <1>21
  <2> QED BY <1>5, <1>11, <1>18, <1>19, <1>20, <2>1 DEF GoodTable
<1>23. GoodTable(table, activeHead, inactiveHead)'
  BY <1>5, <1>22, GoodPrimed
<1>24. used' = Cardinality(UsedOf(table', FALSE)) + Cardinality(UsedOf(table', TRUE))
  <2>1. IsFiniteSet(A) /\ Cardinality(A) \in Nat /\ Cardinality(B) \in Nat
    BY <1>1, <1>12, <1>13, UsedFacts
  <2>2. Cardinality(A \ {key}) = Cardinality(A) - 1
    BY <1>16, <2>1, FS_RemoveElement
  <2>3. used = Cardinality(A) + Cardinality(B)
    BY <1>12, <1>13 DEF CollexionInv
  <2>4. PICK a : a = Cardinality(A)
    OBVIOUS
  <2>5. PICK b : b = Cardinality(B)
    OBVIOUS
  <2>6. used' = (a - 1) + b
    BY <1>5, <2>1, <2>3, <2>4, <2>5
  <2>7. Cardinality(UsedOf(table', FALSE)) = a - 1 /\ Cardinality(UsedOf(table', TRUE)) = b
    BY <1>20, <2>2, <2>4, <2>5
  <2> QED BY <2>6, <2>7
<1>25. EntriesOf(table', c) = EntriesOf(table, c) \ {key} /\ key \in EntriesOf(table, c)
  BY <1>6, <1>11 DEF EntriesOf
<1>26. \A d \in Members \ {c} : EntriesOf(table', d) = EntriesOf(table, d)
  <2>1. ASSUME NEW d \in Members \ {c} PROVE EntriesOf(table', d) = EntriesOf(table, d)
    <3>1. d # NoMember
      BY CollexionAssumption
    <3> QED BY <1>6, <1>11, <3>1 DEF EntriesOf
  <2> QED BY <2>1
<1>27. tableRefs' = [d \in Members |-> Cardinality(EntriesOf(table', d))]
  <2>1. tableRefs = [d \in Members |-> Cardinality(EntriesOf(table, d))]
    BY DEF CollexionInv
  <2>2. Cardinality(EntriesOf(table', c)) = Cardinality(EntriesOf(table, c)) - 1
    <3>1. IsFiniteSet(EntriesOf(table, c))
      BY <1>1, UsedFacts
    <3> QED BY <1>25, <3>1, FS_RemoveElement
  <2> QED BY <1>5, <1>26, <2>1, <2>2
<1>28. HashOK'
  BY <1>1, <1>5 DEF HashOK
<1>29. lent = {} /\ inactiveHead = 0
  BY <1>5 DEF CollexionInv
<1> QED BY <1>5, <1>23, <1>24, <1>27, <1>28, <1>29 DEF CollexionInv

(* Remove() while one is: the entry goes over to the other list. *)
LEMMA CollexionInactivateKeeps ==
  ASSUME CollexionInv, NEW c \in Members, CollexionInactivate(c) PROVE CollexionInv'
<1>1. GoodTable(table, activeHead, inactiveHead) /\ HashOK /\ table \in Tables /\ Flagged(table)
  BY DEF CollexionInv, GoodTable
<1>2. PICK key : key = Probe(c)[Min(FoundAt(c))]
  OBVIOUS
<1>3. PICK w : w = Unlinked(table, key)
  OBVIOUS
<1>4. PICK v : v = [w EXCEPT ![key].kill = TRUE]
  OBVIOUS
<1>5. /\ subsetCount # 0 /\ FoundAt(c) # {} /\ ~table[key].kill
      /\ table' = Linked(v, key, inactiveHead)
      /\ activeHead' = HeadAfter(activeHead, table[key]) /\ inactiveHead' = key + 1
      /\ UNCHANGED <<hash, used, subsetCount, lent, tableRefs>>
  BY <1>2, <1>3, <1>4 DEF CollexionInactivate
<1>6. key \in Keys /\ table[key].conn = c /\ c # NoMember
  BY <1>2, <1>5, FoundFacts, CollexionAssumption
<1>7. SameMembers(table, w)
  BY <1>1, <1>3, <1>6, UnlinkedFields
<1>8. w \in Tables /\ \A k \in Keys : w[k].conn = table[k].conn /\ w[k].collide = table[k].collide /\ w[k].kill = table[k].kill
  BY <1>7 DEF SameMembers
<1>9. PICK e : e = [w[key] EXCEPT !.kill = TRUE]
  OBVIOUS
<1>10. /\ e \in Entries /\ e.conn = w[key].conn /\ e.collide = w[key].collide /\ e.kill = TRUE
       /\ e.next = w[key].next /\ e.prev = w[key].prev
  <2>1. w[key] \in Entries
    BY <1>6, <1>8, EntryFacts
  <2> QED BY <1>9, <2>1 DEF Entries
<1>11. v = [w EXCEPT ![key] = e] /\ v \in Tables
  <2>1. v = [w EXCEPT ![key] = e]
    BY <1>4, <1>9
  <2> QED BY <1>6, <1>8, <1>10, <2>1 DEF Tables
<1>12. v[key] = e /\ \A k \in Keys \ {key} : v[k] = w[k]
  BY <1>6, <1>8, <1>11 DEF Tables
<1>13. ASSUME NEW k \in Keys
       PROVE  /\ v[k].conn = table[k].conn /\ v[k].collide = table[k].collide
              /\ v[k].kill = (IF k = key THEN TRUE ELSE table[k].kill)
              /\ v[k].next = w[k].next /\ v[k].prev = w[k].prev
  <2>1. CASE k = key
    BY <1>8, <1>10, <1>12, <2>1
  <2>2. CASE k # key
    <3>1. v[k] = w[k]
      BY <1>12, <2>2
    <3> QED BY <1>8, <2>2, <3>1
  <2> QED BY <2>1, <2>2
<1>14. PICK A : A = UsedOf(table, FALSE)
  OBVIOUS
<1>15. PICK B : B = UsedOf(table, TRUE)
  OBVIOUS
<1>16. Chained(table, activeHead, A) /\ Chained(table, inactiveHead, B)
  BY <1>1, <1>14, <1>15 DEF GoodTable
<1>17. key \in A /\ key \notin B /\ A \subseteq Keys /\ B \subseteq Keys /\ A \cap B = {}
  <2>1. table[key].kill = FALSE
    BY <1>1, <1>5, <1>6, EntryFacts
  <2>2. A \subseteq Keys /\ B \subseteq Keys /\ A \cap B = {}
    BY <1>14, <1>15 DEF UsedOf
  <2>3. key \in A
    BY <1>6, <1>14, <2>1 DEF UsedOf
  <2> QED BY <2>2, <2>3
<1>18. /\ Chained(w, HeadAfter(activeHead, table[key]), A \ {key})
       /\ \A k \in Keys \ A : w[k].next = table[k].next /\ w[k].prev = table[k].prev
  <2>1. table \in Tables /\ Chained(table, activeHead, A) /\ key \in A
    BY <1>1, <1>16, <1>17
  <2> QED BY <1>3, <2>1, UnlinkedList
<1>19. Chained(v, HeadAfter(activeHead, table[key]), A \ {key})
  <2>1. \A k \in A \ {key} : v[k].next = w[k].next /\ v[k].prev = w[k].prev
    BY <1>13, <1>17
  <2> QED BY <1>18, <2>1, ListKept
<1>20. Chained(v, inactiveHead, B)
  <2>1. \A k \in B : v[k].next = table[k].next /\ v[k].prev = table[k].prev
    BY <1>13, <1>17, <1>18
  <2> QED BY <1>16, <2>1, ListKept
<1>21. /\ Chained(table', key + 1, B \cup {key})
       /\ \A k \in Keys \ (B \cup {key}) : table'[k].next = v[k].next /\ table'[k].prev = v[k].prev
  <2>1. table' = Linked(v, key, inactiveHead) /\ key \in Keys \ B /\ v \in Tables
    BY <1>5, <1>6, <1>11, <1>17
  <2> QED BY <1>20, <2>1, LinkedList
<1>22. Chained(table', HeadAfter(activeHead, table[key]), A \ {key})
  <2>1. \A k \in A \ {key} : k \in Keys \ (B \cup {key})
    BY <1>17
  <2>2. \A k \in A \ {key} : table'[k].next = v[k].next /\ table'[k].prev = v[k].prev
    BY <1>21, <2>1
  <2> QED BY <1>19, <2>2, ListKept
<1>23. SameMembers(v, table')
  <2>1. inactiveHead \in 0 .. TableSize
    BY <1>16, HeadFacts
  <2> QED BY <1>5, <1>6, <1>11, <2>1, LinkedFields
<1>24. table' \in Tables /\ \A k \in Keys : /\ table'[k].conn = table[k].conn /\ table'[k].collide = table[k].collide
                                            /\ table'[k].kill = (IF k = key THEN TRUE ELSE table[k].kill)
  BY <1>13, <1>23 DEF SameMembers
<1>25. Flagged(table')
  BY <1>1, <1>24, MoreFlags
<1>26. UsedOf(table', FALSE) = A \ {key}
  BY <1>14, <1>24 DEF UsedOf
<1>27. UsedOf(table', TRUE) = B \cup {key}
  BY <1>6, <1>15, <1>24 DEF UsedOf
<1>28. GoodTable(table', activeHead', inactiveHead')
  <2>1. \A k \in Keys : table[k].conn = NoMember => table[k].kill = FALSE
    BY <1>1 DEF GoodTable
  <2>2. \A k \in Keys : table'[k].conn = NoMember => table'[k].kill = FALSE
    BY <1>6, <1>24, <2>1
  <2> QED BY <1>5, <1>21, <1>22, <1>24, <1>25, <1>26, <1>27, <2>2 DEF GoodTable
<1>29. GoodTable(table, activeHead, inactiveHead)'
  BY <1>5, <1>28, GoodPrimed
<1>30. used' = Cardinality(UsedOf(table', FALSE)) + Cardinality(UsedOf(table', TRUE))
  <2>1. IsFiniteSet(A) /\ IsFiniteSet(B) /\ Cardinality(A) \in Nat /\ Cardinality(B) \in Nat
    BY <1>1, <1>14, <1>15, UsedFacts
  <2>2. Cardinality(A \ {key}) = Cardinality(A) - 1
    BY <1>17, <2>1, FS_RemoveElement
  <2>3. Cardinality(B \cup {key}) = Cardinality(B) + 1
    BY <1>17, <2>1, FS_AddElement
  <2>4. used = Cardinality(A) + Cardinality(B)
    BY <1>14, <1>15 DEF CollexionInv
  <2>5. PICK a : a = Cardinality(A)
    OBVIOUS
  <2>6. PICK b : b = Cardinality(B)
    OBVIOUS
  <2>7. used' = (a - 1) + (b + 1)
    BY <1>5, <2>1, <2>4, <2>5, <2>6
  <2>8. Cardinality(UsedOf(table', FALSE)) = a - 1 /\ Cardinality(UsedOf(table', TRUE)) = b + 1
    BY <1>26, <1>27, <2>2, <2>3, <2>5, <2>6
  <2> QED BY <2>7, <2>8
<1>31. \A d : EntriesOf(table', d) = EntriesOf(table, d)
  BY <1>24 DEF EntriesOf
<1>32. tableRefs' = [d \in Members |-> Cardinality(EntriesOf(table', d))]
  BY <1>5, <1>31 DEF CollexionInv
<1>33. \A d \in lent : EntriesOf(table', d) # {}
  BY <1>31 DEF CollexionInv
<1>34. HashOK'
  BY <1>1, <1>5 DEF HashOK
<1>35. subsetCount' \in Nat /\ lent' \subseteq Members /\ subsetCount' # 0
  BY <1>5 DEF CollexionInv
<1> QED BY <1>5, <1>29, <1>30, <1>32, <1>33, <1>34, <1>35 DEF CollexionInv

(* SubsetAcquire(): what the active list leads to is lent. *)
LEMMA SubsetAcquireKeeps == ASSUME CollexionInv, SubsetAcquire PROVE CollexionInv'
<1>1. /\ UNCHANGED <<table, hash, activeHead, inactiveHead, used, tableRefs>> /\ subsetCount' = subsetCount + 1
      /\ lent' = lent \cup {table[k].conn : k \in Range(Walk(table, activeHead))}
  BY DEF SubsetAcquire
<1>2. Range(Walk(table, activeHead)) = InList(FALSE)
  BY InvLists DEF ListsExact
<1>3. table \in Tables
  BY DEF CollexionInv, GoodTable
<1>4. ASSUME NEW k \in InList(FALSE) PROVE table[k].conn \in Members /\ EntriesOf(table, table[k].conn) # {}
  <2>1. k \in Keys /\ table[k].conn # NoMember
    BY DEF InList
  <2>2. table[k].conn \in Members
    BY <1>3, <2>1, EntryFacts
  <2>3. k \in EntriesOf(table, table[k].conn)
    BY <2>1 DEF EntriesOf
  <2> QED BY <2>2, <2>3
<1>5. lent' \subseteq Members /\ \A c \in lent' : EntriesOf(table, c) # {}
  <2>1. lent \subseteq Members /\ \A c \in lent : EntriesOf(table, c) # {}
    BY DEF CollexionInv
  <2>2. \A c \in lent' : c \in lent \/ \E k \in InList(FALSE) : c = table[k].conn
    BY <1>1, <1>2
  <2> QED BY <1>4, <2>1, <2>2
<1>6. GoodTable(table, activeHead, inactiveHead)'
  BY <1>1, GoodPrimed DEF CollexionInv
<1>7. subsetCount' \in Nat /\ subsetCount' # 0
  BY <1>1 DEF CollexionInv
<1>8. HashOK'
  BY <1>1 DEF CollexionInv, HashOK
<1>9. used' = Cardinality(UsedOf(table', FALSE)) + Cardinality(UsedOf(table', TRUE))
  BY <1>1 DEF CollexionInv
<1>10. tableRefs' = [d \in Members |-> Cardinality(EntriesOf(table', d))]
  BY <1>1 DEF CollexionInv
<1>11. \A c \in lent' : EntriesOf(table', c) # {}
  BY <1>1, <1>5
<1> QED BY <1>5, <1>6, <1>7, <1>8, <1>9, <1>10, <1>11 DEF CollexionInv

(* ReleaseInactive() after n entries of the list. *)
AfterReleases(keys, n, t) ==
  /\ t \in Tables /\ Flagged(t)
  /\ \A i \in 1 .. n : t[keys[i]].conn = NoMember /\ t[keys[i]].kill = FALSE
  /\ \A k \in Keys : (\A i \in 1 .. n : keys[i] # k) =>
       /\ t[k].conn = table[k].conn /\ t[k].kill = table[k].kill
       /\ t[k].next = table[k].next /\ t[k].prev = table[k].prev

(* One turn of the loop of ReleaseInactive(). *)
LEMMA ReleasedKeeps ==
  ASSUME HashOK, NEW keys, NEW n \in Nat, NEW t, AfterReleases(keys, n, t), keys[n + 1] \in Keys,
         \A i \in 1 .. n : keys[i] \in Keys
  PROVE  AfterReleases(keys, n + 1, Released(t, keys[n + 1]))
<1>1. PICK key : key = keys[n + 1]
  OBVIOUS
<1>2. PICK y : y = Released(t, key)
  OBVIOUS
<1>3. t \in Tables /\ Flagged(t)
  BY DEF AfterReleases
<1>4. EntryEmptied(t, key, y)
  <2>1. PICK e : e = [EmptyEntry EXCEPT !.collide = t[key].collide]
    OBVIOUS
  <2>2. PICK x : x = [t EXCEPT ![key] = e]
    OBVIOUS
  <2>3. y = IF t[key].collide THEN x ELSE ClearFlags(x, key)
    <3>1. CASE t[key].collide
      <4>1. t[key].collide = TRUE
        BY <1>1, <1>3, <3>1, EntryFacts
      <4> QED BY <1>2, <2>1, <2>2, <3>1, <4>1 DEF Released
    <3>2. CASE ~t[key].collide
      <4>1. t[key].collide = FALSE
        BY <1>1, <1>3, <3>2, EntryFacts
      <4>2. e = EmptyEntry
        BY <2>1, <4>1 DEF EmptyEntry
      <4> QED BY <1>2, <2>2, <3>2, <4>2 DEF Released
    <3> QED BY <3>1, <3>2
  <2> QED BY <1>1, <1>3, <2>1, <2>2, <2>3, EmptiedKeeps
<1>5. \A i : i \in 1 .. n + 1 <=> (i \in 1 .. n \/ i = n + 1)
  OBVIOUS
<1>6. \A i \in 1 .. n + 1 : y[keys[i]].conn = NoMember /\ y[keys[i]].kill = FALSE
  <2>1. y[key].conn = NoMember /\ y[key].kill = FALSE
    BY <1>4 DEF EntryEmptied
  <2>2. ASSUME NEW i \in 1 .. n, keys[i] # key PROVE y[keys[i]].conn = NoMember /\ y[keys[i]].kill = FALSE
    <3>1. t[keys[i]].conn = NoMember /\ t[keys[i]].kill = FALSE
      BY DEF AfterReleases
    <3>2. keys[i] \in Keys \ {key}
      BY <2>2
    <3> QED BY <1>4, <3>1, <3>2 DEF EntryEmptied
  <2> QED BY <1>1, <1>5, <2>1, <2>2
<1>7. ASSUME NEW k \in Keys, \A i \in 1 .. n + 1 : keys[i] # k
      PROVE  /\ y[k].conn = table[k].conn /\ y[k].kill = table[k].kill
             /\ y[k].next = table[k].next /\ y[k].prev = table[k].prev
  <2>1. k # key /\ \A i \in 1 .. n : keys[i] # k
    BY <1>1, <1>5, <1>7
  <2>2. /\ t[k].conn = table[k].conn /\ t[k].kill = table[k].kill
        /\ t[k].next = table[k].next /\ t[k].prev = table[k].prev
    BY <2>1 DEF AfterReleases
  <2>3. k \in Keys \ {key}
    BY <2>1
  <2> QED BY <1>4, <2>2, <2>3 DEF EntryEmptied
<1>8. y \in Tables /\ Flagged(y)
  BY <1>4 DEF EntryEmptied
<1>9. AfterReleases(keys, n + 1, y)
  BY <1>6, <1>7, <1>8 DEF AfterReleases
<1> QED BY <1>1, <1>2, <1>9

(* The loop of ReleaseInactive() up to its n-th turn. *)
Releases(keys, f, n) == f = [k \in 0 .. n |-> IF k = 0 THEN table ELSE Released(f[k - 1], keys[k])]

(* The loop, as a function of its turns. *)
LEMMA ReleasesExist ==
  ASSUME NEW keys, NEW n \in Nat
  PROVE  \E f : Releases(keys, f, n)
<1> DEFINE bad == {k \in 0 .. n : ~\E f : Releases(keys, f, k)}
<1>1. bad = {}
  <2> SUFFICES ASSUME bad # {} PROVE FALSE
    OBVIOUS
  <2>1. PICK k \in bad : \A j \in bad : k <= j
    <3>1. bad \subseteq Nat
      OBVIOUS
    <3> HIDE DEF bad
    <3> QED BY <3>1, LeastExists
  <2>2. k \in 0 .. n /\ ~\E f : Releases(keys, f, k)
    BY <2>1
  <2>3. CASE k = 0
    <3>1. PICK g : g = [j \in 0 .. 0 |-> table]
      OBVIOUS
    <3>2. ASSUME NEW j \in 0 .. 0
          PROVE  table = IF j = 0 THEN table ELSE Released(g[j - 1], keys[j])
      OBVIOUS
    <3>3. Releases(keys, g, 0)
      BY <3>1, <3>2 DEF Releases
    <3> QED BY <2>2, <2>3, <3>3
  <2>4. CASE k # 0
    <3>1. k - 1 \in 0 .. n /\ ~(k <= k - 1) /\ k \in Nat
      BY <2>2, <2>4
    <3>2. k - 1 \notin bad
      BY <2>1, <3>1
    <3>3. PICK g : Releases(keys, g, k - 1)
      BY <3>1, <3>2
    <3>4. \A j \in 0 .. k - 1 : g[j] = IF j = 0 THEN table ELSE Released(g[j - 1], keys[j])
      BY <3>3 DEF Releases
    <3>5. PICK h : h = [j \in 0 .. k |-> IF j = k THEN Released(g[k - 1], keys[k]) ELSE g[j]]
      OBVIOUS
    <3>6. h[k - 1] = g[k - 1] /\ \A j \in 0 .. k - 1 : h[j] = g[j]
      <4>1. \A j \in 0 .. k - 1 : j \in 0 .. k /\ j # k
        BY <3>1
      <4>2. k - 1 \in 0 .. k - 1
        BY <3>1, <2>4
      <4> QED BY <4>1, <4>2, <3>5
    <3>7. ASSUME NEW j \in 0 .. k
          PROVE  h[j] = IF j = 0 THEN table ELSE Released(h[j - 1], keys[j])
      <4>1. CASE j = k
        BY <4>1, <2>4, <3>5, <3>6
      <4>2. CASE j # k /\ j # 0
        <5>1. j \in 0 .. k - 1 /\ j - 1 \in 0 .. k - 1
          BY <4>2, <3>1
        <5> QED BY <4>2, <5>1, <3>4, <3>6
      <4>3. CASE j = 0 /\ j # k
        <5>1. j \in 0 .. k - 1
          BY <4>3, <3>1
        <5> QED BY <4>3, <5>1, <3>4, <3>6
      <4> QED BY <4>1, <4>2, <4>3
    <3>8. DOMAIN h = 0 .. k /\ h = [j \in 0 .. k |-> h[j]]
      BY <3>5
    <3>9. Releases(keys, h, k)
      BY <3>7, <3>8 DEF Releases
    <3> QED BY <2>2, <3>9
  <2> QED BY <2>3, <2>4
<1>2. n \in 0 .. n
  OBVIOUS
<1> QED BY <1>1, <1>2

(* All turns of it. *)
LEMMA ReleasedAllFacts ==
  ASSUME HashOK, table \in Tables, Flagged(table), NEW keys, NEW n \in Nat, n = Len(keys),
         \A i \in 1 .. n : keys[i] \in Keys
  PROVE  AfterReleases(keys, n, ReleasedAll(table, keys))
<1> DEFINE F == CHOOSE f : f = [k \in 0 .. n |-> IF k = 0 THEN table ELSE Released(f[k - 1], keys[k])]
<1>1. ReleasedAll(table, keys) = F[n]
  BY DEF ReleasedAll
<1>2. F = CHOOSE f : Releases(keys, f, n)
  BY DEF Releases
<1> HIDE DEF F
<1>3. Releases(keys, F, n)
  BY <1>2, ReleasesExist
<1>4. \A k \in 0 .. n : F[k] = IF k = 0 THEN table ELSE Released(F[k - 1], keys[k])
  BY <1>3 DEF Releases
<1> DEFINE bad == {k \in 0 .. n : ~AfterReleases(keys, k, F[k])}
<1>5. bad = {}
  <2> SUFFICES ASSUME bad # {} PROVE FALSE
    OBVIOUS
  <2>1. PICK k \in bad : \A j \in bad : k <= j
    <3>1. bad \subseteq Nat
      OBVIOUS
    <3> HIDE DEF bad
    <3> QED BY <3>1, LeastExists
  <2>2. k \in 0 .. n /\ ~AfterReleases(keys, k, F[k])
    BY <2>1
  <2>3. CASE k = 0
    <3>1. F[0] = table
      BY <1>4
    <3>2. AfterReleases(keys, 0, table)
      BY DEF AfterReleases
    <3> QED BY <2>2, <2>3, <3>1, <3>2
  <2>4. CASE k # 0
    <3>1. PICK j : j = k - 1
      OBVIOUS
    <3>2. j \in 0 .. n /\ j \in Nat /\ k = j + 1 /\ ~(k <= j) /\ k \in 1 .. n
      BY <2>2, <2>4, <3>1
    <3>3. AfterReleases(keys, j, F[j])
      BY <2>1, <3>2
    <3>4. F[k] = Released(F[j], keys[k])
      BY <1>4, <2>2, <2>4, <3>1
    <3>5. keys[j + 1] \in Keys /\ \A i \in 1 .. j : keys[i] \in Keys
      BY <3>2
    <3>6. AfterReleases(keys, j + 1, Released(F[j], keys[j + 1]))
      BY <3>2, <3>3, <3>5, ReleasedKeeps
    <3> QED BY <2>2, <3>2, <3>4, <3>6
  <2> QED BY <2>3, <2>4
<1>6. n \in 0 .. n
  OBVIOUS
<1> QED BY <1>1, <1>5, <1>6

(* SubsetRelease(), and with the last one ReleaseInactive(). *)
LEMMA SubsetReleaseKeeps == ASSUME CollexionInv, SubsetRelease PROVE CollexionInv'
<1>1. /\ GoodTable(table, activeHead, inactiveHead) /\ HashOK /\ table \in Tables /\ Flagged(table)
      /\ subsetCount \in Nat
  BY DEF CollexionInv, GoodTable
<1>2. subsetCount > 0 /\ subsetCount' = subsetCount - 1 /\ hash' = hash /\ activeHead' = activeHead
  BY DEF SubsetRelease
<1>3. HashOK'
  BY <1>1, <1>2 DEF HashOK
<1>4. CASE subsetCount > 1
  <2>1. UNCHANGED <<table, inactiveHead, used, lent, tableRefs>>
    BY <1>4 DEF SubsetRelease
  <2>2. subsetCount' \in Nat /\ subsetCount' # 0
    BY <1>1, <1>2, <1>4
  <2>3. GoodTable(table, activeHead, inactiveHead)'
    BY <1>1, <1>2, <2>1, GoodPrimed
  <2>4. used' = Cardinality(UsedOf(table', FALSE)) + Cardinality(UsedOf(table', TRUE))
    BY <2>1 DEF CollexionInv
  <2>5. tableRefs' = [d \in Members |-> Cardinality(EntriesOf(table', d))]
    BY <2>1 DEF CollexionInv
  <2>6. lent' \subseteq Members /\ \A d \in lent' : EntriesOf(table', d) # {}
    BY <2>1 DEF CollexionInv
  <2> QED BY <1>3, <2>2, <2>3, <2>4, <2>5, <2>6 DEF CollexionInv
<1>5. CASE ~(subsetCount > 1)
  <2>1. PICK inactive : inactive = Walk(table, inactiveHead)
    OBVIOUS
  <2>2. /\ lent' = {} /\ table' = ReleasedAll(table, inactive) /\ inactiveHead' = 0 /\ used' = used - Len(inactive)
        /\ tableRefs' = [c \in Members |-> tableRefs[c] - Cardinality({k \in Range(inactive) : table[k].conn = c})]
    BY <1>5, <2>1 DEF SubsetRelease
  <2>3. PICK A : A = UsedOf(table, FALSE)
    OBVIOUS
  <2>4. PICK B : B = UsedOf(table, TRUE)
    OBVIOUS
  <2>5. Chained(table, activeHead, A) /\ Chained(table, inactiveHead, B)
    BY <1>1, <2>3, <2>4 DEF GoodTable
  <2>6. A \subseteq Keys /\ B \subseteq Keys /\ A \cap B = {}
    BY <2>3, <2>4 DEF UsedOf
  <2>7. PICK n \in Nat : \E f : IsList(table, inactiveHead, f, n, B)
    BY <2>5 DEF Chained
  <2>8. PICK f : IsList(table, inactiveHead, f, n, B)
    BY <2>7
  <2>9. inactive = f /\ Cardinality(B) = n /\ IsFiniteSet(B)
    BY <1>1, <2>1, <2>8, WalkIs, ListCount
  <2>10. f \in [1 .. n -> B] /\ \A k \in B : \E i \in 1 .. n : f[i] = k
    BY <2>8 DEF IsList, Enumerates
  <2>11. Len(f) = n /\ DOMAIN f = 1 .. n
    <3>1. f \in Seq(B)
      BY <2>10, IsASeq
    <3> QED BY <2>10, <3>1, LenProperties
  <2>12. Range(f) = B
    BY <2>10, <2>11 DEF Range
  <2>13. AfterReleases(f, n, table')
    <3>1. \A i \in 1 .. n : f[i] \in Keys
      BY <2>6, <2>10
    <3>2. n = Len(f) /\ table' = ReleasedAll(table, f)
      BY <2>2, <2>9, <2>11
    <3> QED BY <1>1, <3>1, <3>2, ReleasedAllFacts
  <2>14. \A k \in B : table'[k].conn = NoMember /\ table'[k].kill = FALSE
    BY <2>10, <2>13 DEF AfterReleases
  <2>15. \A k \in Keys \ B : /\ table'[k].conn = table[k].conn /\ table'[k].kill = table[k].kill
                             /\ table'[k].next = table[k].next /\ table'[k].prev = table[k].prev
    BY <2>10, <2>13 DEF AfterReleases
  <2>16. table' \in Tables /\ Flagged(table')
    BY <2>13 DEF AfterReleases
  <2>17. UsedOf(table', FALSE) = A
    <3>1. ASSUME NEW k \in Keys PROVE k \in UsedOf(table', FALSE) <=> k \in A
      <4>1. CASE k \in B
        BY <2>6, <2>14, <4>1 DEF UsedOf
      <4>2. CASE k \notin B
        <5>1. table'[k].conn = table[k].conn /\ table'[k].kill = table[k].kill
          BY <2>15, <4>2
        <5> QED BY <2>3, <5>1 DEF UsedOf
      <4> QED BY <4>1, <4>2
    <3>2. UsedOf(table', FALSE) \subseteq Keys
      BY DEF UsedOf
    <3> QED BY <2>6, <3>1, <3>2
  <2>18. UsedOf(table', TRUE) = {}
    <3>1. ASSUME NEW k \in Keys PROVE k \notin UsedOf(table', TRUE)
      <4>1. CASE k \in B
        BY <2>14, <4>1 DEF UsedOf
      <4>2. CASE k \notin B
        <5>1. table'[k].conn = table[k].conn /\ table'[k].kill = table[k].kill
          BY <2>15, <4>2
        <5> QED BY <2>4, <4>2, <5>1 DEF UsedOf
      <4> QED BY <4>1, <4>2
    <3>2. UsedOf(table', TRUE) \subseteq Keys
      BY DEF UsedOf
    <3> QED BY <3>1, <3>2
  <2>19. Chained(table', activeHead, A)
    <3>1. \A k \in A : k \in Keys \ B
      BY <2>6
    <3>2. \A k \in A : table'[k].next = table[k].next /\ table'[k].prev = table[k].prev
      BY <2>15, <3>1
    <3> QED BY <2>5, <3>2, ListKept
  <2>20. Chained(table', 0, {})
    <3>1. PICK g : g = [i \in 1 .. 0 |-> 0]
      OBVIOUS
    <3>2. IsList(table', 0, g, 0, {})
      BY <3>1 DEF IsList, Enumerates, Threads
    <3> QED BY <3>2 DEF Chained
  <2>21. GoodTable(table', activeHead, 0)
    <3>1. \A k \in Keys : table[k].conn = NoMember => table[k].kill = FALSE
      BY <1>1 DEF GoodTable
    <3>2. \A k \in Keys : table'[k].conn = NoMember => table'[k].kill = FALSE
      BY <2>14, <2>15, <3>1
    <3> QED BY <2>16, <2>17, <2>18, <2>19, <2>20, <3>2 DEF GoodTable
  <2>22. GoodTable(table, activeHead, inactiveHead)'
    BY <1>2, <2>2, <2>21, GoodPrimed
  <2>23. used' = Cardinality(UsedOf(table', FALSE)) + Cardinality(UsedOf(table', TRUE))
    <3>1. Cardinality(A) \in Nat
      BY <1>1, <2>3, UsedFacts
    <3>2. used = Cardinality(A) + Cardinality(B)
      BY <2>3, <2>4 DEF CollexionInv
    <3>3. PICK a : a = Cardinality(A)
      OBVIOUS
    <3>4. used' = a + 0
      BY <2>2, <2>9, <2>11, <3>1, <3>2, <3>3
    <3>5. Cardinality(UsedOf(table', FALSE)) = a /\ Cardinality(UsedOf(table', TRUE)) = 0
      BY <2>17, <2>18, <3>3, FS_EmptySet
    <3> QED BY <3>4, <3>5
  <2>24. tableRefs' = [c \in Members |-> Cardinality(EntriesOf(table', c))]
    <3>1. ASSUME NEW c \in Members
          PROVE  tableRefs[c] - Cardinality({k \in Range(inactive) : table[k].conn = c})
                   = Cardinality(EntriesOf(table', c))
      <4>1. PICK E : E = EntriesOf(table, c)
        OBVIOUS
      <4>2. tableRefs[c] = Cardinality(E)
        BY <4>1 DEF CollexionInv
      <4>3. {k \in Range(inactive) : table[k].conn = c} = E \cap B
        BY <2>6, <2>9, <2>12, <4>1 DEF EntriesOf
      <4>4. EntriesOf(table', c) = E \ B
        <5>1. c # NoMember
          BY CollexionAssumption
        <5>2. ASSUME NEW k \in Keys PROVE k \in EntriesOf(table', c) <=> (k \in E /\ k \notin B)
          <6>1. CASE k \in B
            BY <2>14, <5>1, <6>1 DEF EntriesOf
          <6>2. CASE k \notin B
            BY <2>15, <4>1, <6>2 DEF EntriesOf
          <6> QED BY <6>1, <6>2
        <5>3. EntriesOf(table', c) \subseteq Keys /\ E \subseteq Keys
          BY <4>1 DEF EntriesOf
        <5> QED BY <5>2, <5>3
      <4>5. IsFiniteSet(E)
        BY <1>1, <4>1, UsedFacts
      <4>6. Cardinality(E \ B) = Cardinality(E) - Cardinality(E \cap B)
        BY <4>5, FS_Difference
      <4> QED BY <4>2, <4>3, <4>4, <4>6
    <3> QED BY <2>2, <3>1
  <2>25. subsetCount' \in Nat
    BY <1>1, <1>2
  <2> QED BY <1>3, <2>2, <2>22, <2>23, <2>24, <2>25 DEF CollexionInv
<1> QED BY <1>4, <1>5

(* An empty table. *)
LEMMA CollexionStarts == CollexionInit => CollexionInv
<1> SUFFICES ASSUME CollexionInit PROVE CollexionInv
  OBVIOUS
<1>1. table = [k \in Keys |-> EmptyEntry] /\ HashOK
  BY DEF CollexionInit, HashOK
<1>2. EmptyEntry \in Entries /\ EmptyEntry.conn = NoMember /\ EmptyEntry.kill = FALSE
  <2>1. 0 \in 0 .. TableSize
    BY CollexionAssumption
  <2> QED BY <2>1 DEF EmptyEntry, Entries
<1>3. table \in Tables /\ \A k \in Keys : table[k].conn = NoMember /\ table[k].kill = FALSE
  BY <1>1, <1>2 DEF Tables
<1>4. UsedOf(table, FALSE) = {} /\ UsedOf(table, TRUE) = {}
  BY <1>3 DEF UsedOf
<1>5. ASSUME NEW c \in Members PROVE EntriesOf(table, c) = {}
  BY <1>3, CollexionAssumption DEF EntriesOf
<1>6. Flagged(table)
  BY <1>3 DEF Flagged
<1>7. Chained(table, 0, {})
  <2>1. PICK g : g = [i \in 1 .. 0 |-> 0]
    OBVIOUS
  <2>2. IsList(table, 0, g, 0, {})
    BY <2>1 DEF IsList, Enumerates, Threads
  <2> QED BY <2>2 DEF Chained
<1>8. activeHead = 0 /\ inactiveHead = 0 /\ used = 0 /\ subsetCount = 0 /\ lent = {} /\ tableRefs = [c \in Members |-> 0]
  BY DEF CollexionInit
<1>9. GoodTable(table, activeHead, inactiveHead)
  BY <1>3, <1>4, <1>6, <1>7, <1>8 DEF GoodTable
<1>10. used = Cardinality(UsedOf(table, FALSE)) + Cardinality(UsedOf(table, TRUE))
  <2>1. Cardinality({}) = 0
    BY FS_EmptySet
  <2>2. PICK a, b : a = Cardinality(UsedOf(table, FALSE)) /\ b = Cardinality(UsedOf(table, TRUE))
    OBVIOUS
  <2>3. a = 0 /\ b = 0
    BY <1>4, <2>1, <2>2
  <2>4. used = a + b
    BY <1>8, <2>3
  <2> QED BY <2>2, <2>4
<1>11. tableRefs = [c \in Members |-> Cardinality(EntriesOf(table, c))]
  BY <1>5, <1>8, FS_EmptySet
<1> QED BY <1>1, <1>8, <1>9, <1>10, <1>11 DEF CollexionInv

LEMMA CollexionStep == CollexionInv /\ [CollexionNext]_collexionVars => CollexionInv'
<1> SUFFICES ASSUME CollexionInv, [CollexionNext]_collexionVars PROVE CollexionInv'
  OBVIOUS
<1>1. ASSUME NEW c \in Members, CollexionInsert(c) PROVE CollexionInv'
  BY <1>1, CollexionInsertKeeps
<1>2. ASSUME NEW c \in Members, CollexionInsertAgain(c) PROVE CollexionInv'
  BY <1>2, InsertAgainKeeps
<1>3. ASSUME NEW c \in Members, CollexionRemove(c) PROVE CollexionInv'
  BY <1>3, CollexionRemoveKeeps
<1>4. ASSUME NEW c \in Members, CollexionInactivate(c) PROVE CollexionInv'
  BY <1>4, CollexionInactivateKeeps
<1>5. CASE SubsetAcquire
  BY <1>5, SubsetAcquireKeeps
<1>6. CASE SubsetRelease
  BY <1>6, SubsetReleaseKeeps
<1>7. CASE UNCHANGED collexionVars
  <2>1. UNCHANGED <<table, hash, activeHead, inactiveHead, used, subsetCount, lent, tableRefs>>
    BY <1>7 DEF collexionVars
  <2>2. GoodTable(table, activeHead, inactiveHead)'
    BY <2>1, GoodPrimed DEF CollexionInv
  <2>3. HashOK'
    BY <2>1 DEF CollexionInv, HashOK
  <2>4. used' = Cardinality(UsedOf(table', FALSE)) + Cardinality(UsedOf(table', TRUE))
    BY <2>1 DEF CollexionInv
  <2>5. tableRefs' = [d \in Members |-> Cardinality(EntriesOf(table', d))]
    BY <2>1 DEF CollexionInv
  <2>6. /\ subsetCount' \in Nat /\ lent' \subseteq Members /\ (subsetCount' = 0 => (inactiveHead' = 0 /\ lent' = {}))
        /\ \A d \in lent' : EntriesOf(table', d) # {}
    BY <2>1 DEF CollexionInv
  <2> QED BY <2>2, <2>3, <2>4, <2>5, <2>6 DEF CollexionInv
<1> QED BY <1>1, <1>2, <1>3, <1>4, <1>5, <1>6, <1>7 DEF CollexionNext

(* Whatever is inserted, inserted again, removed, put aside while a subset is out
   and released with the last one, in a table of any size with any hashes: the
   two lists of a Collexion hold the used entries once each, no collision flag
   that leads to a connexion is cleared with another one's removal, and what a
   subset points to stays referenced until all subsets are released. *)
THEOREM CollexionCorrect == CollexionSpec => []CollexionSafe
<1>1. CollexionInit => CollexionInv
  BY CollexionStarts
<1>2. CollexionInv /\ [CollexionNext]_collexionVars => CollexionInv'
  BY CollexionStep
<1>3. CollexionInv => CollexionSafe
  BY InvSafe
<1> QED BY <1>1, <1>2, <1>3, PTL DEF CollexionSpec
=============================================================================
