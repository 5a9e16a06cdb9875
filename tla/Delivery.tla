------------------------------- MODULE Delivery -------------------------------
(***************************************************************************)
(* What happens to a reliable message once its turn has come: fragments    *)
(* are put together (OnFragment) and messages are queued until the end of  *)
(* the batch of datagrams, or until the queue is full, and then handed to  *)
(* the application together (QueueDelivery, DeliverQueued, QueueFragFree). *)
(*                                                                         *)
(* The queue holds pointers.  The data lies in the datagram, which lives   *)
(* as long as the batch, in a node of the wait queue or in a buffer of     *)
(* OnFragment; heap is the set of the live ones.  The length of a message  *)
(* is counted in fragments, and all run on the worker thread.              *)
(***************************************************************************)
EXTENDS Integers, Sequences, FiniteSets

CONSTANTS FragStreams, \* the reliable streams
          Depth,      \* DELIVERY_QUEUE_DEPTH
          Lengths,    \* how many fragments a message may be cut into
          MaxMessages, \* bound: messages that arrive on a stream
          Reuse,      \* TRUE: a stream carries another fragmented message after
                      \* one of several fragments
          Zipped,     \* {TRUE} if LZ4 shortened the message, {FALSE}, or both
          Aborts,     \* TRUE: the peer may break off a message
          Fails       \* TRUE: an allocation or LZ4_uncompress may fail

ASSUME DeliveryAssumption ==
    /\ Depth \in Nat \ {0} /\ Lengths \subseteq Nat \ {0}
    /\ MaxMessages \in Nat /\ Reuse \in BOOLEAN /\ Zipped \subseteq BOOLEAN
    /\ Aborts \in BOOLEAN /\ Fails \in BOOLEAN

VARIABLES
    batch,    \* the worker is inside OnTransportDatagrams
    coming,   \* for each stream the message whose fragments are coming in
    frag,     \* _fragments: buffer, length and offset of each stream
    queue,    \* delivery_queue
    free,     \* free_list
    heap,     \* live nodes and fragment buffers
    allocs,   \* buffers allocated so far
    count,    \* messages begun on each stream
    whole,    \* history: messages whose last fragment came in
    failed,   \* history: streams on which OnFragment gave up a message
    handed    \* history: what OnMessages got, and whether the data was live

deliveryVars == <<batch, coming, frag, queue, free, heap, allocs, count, whole,
          failed, handed>>

None == 0                        \* null pointer
Datagram == -1                   \* data inside the datagram
NoMsg == [msg |-> 0, total |-> 0, left |-> 0, zip |-> FALSE]
NoFrag == [buffer |-> None, length |-> 0, offset |-> 0]

------------------------------------------------------------------------------
\* OnMessages gets the entries of q; are their data still there?
OnMessages(q, live) ==
    handed \o [k \in DOMAIN q |->
        [stream |-> q[k].stream, msg |-> q[k].msg, frag |-> q[k].frag,
         live |-> q[k].buf = Datagram \/ q[k].buf \in live]]

\* Entry e and the queue go to OnMessages; the data of e was given just now.
HandOver(e, live) == OnMessages(Append(queue, e), live \union {e.buf})

\* Mutant: the buffers are released before the queue is handed over.
QueueDeliveryFreedFirst(e, fr, live) ==
    IF Len(queue) + 1 < Depth
    THEN /\ queue' = Append(queue, e) /\ free' = fr /\ heap' = live /\ UNCHANGED handed
    ELSE /\ handed' = OnMessages(Append(queue, e), live \ fr)
         /\ queue' = <<>> /\ free' = {} /\ heap' = live \ fr

\* Mutant: the queue is filled past its end before it is handed over.
QueueDeliveryLate(e, fr, live) ==
    IF Len(queue) < Depth
    THEN /\ queue' = Append(queue, e) /\ free' = fr /\ heap' = live /\ UNCHANGED handed
    ELSE /\ handed' = HandOver(e, live)
         /\ queue' = <<>> /\ free' = {} /\ heap' = live \ fr

\* Mutant: a message that finds the queue full is handed over first.
QueueDeliveryOvertakes(e, fr, live) ==
    IF Len(queue) + 1 < Depth
    THEN /\ queue' = Append(queue, e) /\ free' = fr /\ heap' = live /\ UNCHANGED handed
    ELSE /\ handed' = OnMessages(<<e>> \o queue, live \union {e.buf})
         /\ queue' = <<>> /\ free' = {} /\ heap' = live \ fr

\* Mutant: free_list_count is not reset when the queue is handed over.
QueueDeliveryKeepsList(e, fr, live) ==
    IF Len(queue) + 1 < Depth
    THEN /\ queue' = Append(queue, e) /\ free' = fr /\ heap' = live /\ UNCHANGED handed
    ELSE /\ handed' = HandOver(e, live)
         /\ queue' = <<>> /\ free' = fr /\ heap' = live \ fr

\* Queue entry e.  When the queue is full it is handed over and the buffers on
\* the free list are released; fr and live are the free list and the heap.
QueueDelivery(e, fr, live) ==
    IF Len(queue) + 1 < Depth
    THEN /\ queue' = Append(queue, e)
         /\ free' = fr /\ heap' = live
         /\ UNCHANGED handed
    ELSE /\ handed' = HandOver(e, live)
         /\ queue' = <<>>
         /\ free' = {} /\ heap' = live \ fr

\* OnTransportDatagrams begins with an empty queue and an empty free list.
OnTransportDatagrams ==
    /\ ~batch
    /\ batch' = TRUE
    /\ queue' = <<>> /\ free' = {}
    /\ UNCHANGED <<coming, frag, heap, allocs, count, whole, failed, handed>>

\* Mutant: the free list is not run through at the end of a batch.
DeliverQueuedKept ==
    /\ batch
    /\ batch' = FALSE
    /\ queue' = <<>> /\ free' = {}
    /\ handed' = OnMessages(queue, heap)
    /\ UNCHANGED <<coming, frag, heap, allocs, count, whole, failed>>

\* The batch ends: hand over what is queued, and release the buffers then.
\* With nothing queued the free list is left as it is.
DeliverQueued ==
    /\ batch
    /\ batch' = FALSE
    /\ IF queue # <<>>
       THEN /\ handed' = OnMessages(queue, heap)
            /\ queue' = <<>>
            /\ heap' = heap \ free /\ free' = {}
       ELSE UNCHANGED <<handed, queue, heap, free>>
    /\ UNCHANGED <<coming, frag, allocs, count, whole, failed>>

\* A message that is not cut comes in order: its data is in the datagram.
ProcessInOrder(s) ==
    /\ batch /\ coming[s] = NoMsg /\ count[s] < MaxMessages
    /\ count' = [count EXCEPT ![s] = @ + 1]
    /\ QueueDelivery([stream |-> s, msg |-> count'[s], frag |-> FALSE,
                      buf |-> Datagram], free, heap)
    /\ UNCHANGED <<batch, coming, frag, allocs, whole, failed>>

\* RunReliableReceiveQueue: the data of a message that had to wait is in its
\* node, which is released as soon as the message is queued.
RunReliableReceiveQueue(s) ==
    /\ batch /\ coming[s] = NoMsg /\ count[s] < MaxMessages
    /\ count' = [count EXCEPT ![s] = @ + 1]
    /\ QueueDelivery([stream |-> s, msg |-> count'[s], frag |-> FALSE,
                      buf |-> allocs + 1], free, heap)
    /\ allocs' = allocs + 1
    /\ UNCHANGED <<batch, coming, frag, whole, failed>>

\* OnFragment takes the next fragment for the first one of a message.
Starting(s) == frag[s].offset = 0

\* The sender begins a message of n fragments.
FragmentedMessage(s, n, zip) ==
    /\ batch /\ coming[s] = NoMsg /\ count[s] < MaxMessages
    /\ Reuse \/ Starting(s)
    /\ count' = [count EXCEPT ![s] = @ + 1]
    /\ coming' = [coming EXCEPT ![s] =
                    [msg |-> count'[s], total |-> n, left |-> n, zip |-> zip]]
    /\ UNCHANGED <<batch, frag, queue, free, heap, allocs, whole, failed, handed>>

\* What OnFragment reads as the length of the whole message: the header of
\* the first fragment, whatever bytes are there in a later one.
HeaderLength(s) ==
    IF coming[s].left = coming[s].total THEN {coming[s].total} ELSE Lengths

\* _fragments after the first part of OnFragment.
Begun(s) ==
    IF Starting(s)
    THEN {[buffer |-> allocs + 1, length |-> n, offset |-> 0] : n \in HeaderLength(s)}
    ELSE {frag[s]}

LiveThen(s) == heap \union (IF Starting(s) THEN {allocs + 1} ELSE {})
Allocated(s) == allocs + (IF Starting(s) THEN 1 ELSE 0)

\* The sender's side of it: one fragment less to come.
FragmentTaken(s) ==
    /\ batch /\ coming[s] # NoMsg
    /\ coming' = IF coming[s].left = 1 THEN [coming EXCEPT ![s] = NoMsg]
                 ELSE [coming EXCEPT ![s].left = @ - 1]
    /\ whole' = IF coming[s].left = 1
                THEN whole \union {[stream |-> s, msg |-> coming[s].msg,
                                    total |-> coming[s].total]}
                ELSE whole
    /\ UNCHANGED <<batch, count>>

\* Mutant: the last fragment is compared with < instead of <=.
CompletesPast(f) == f.length > f.offset /\ f.length - f.offset < 1

\* fragment_remaining is unsigned: with offset past length it is huge.
Completes(f) == f.length > f.offset /\ f.length - f.offset <= 1

\* Mutant: the buffer of the finished message is not put on the free list.
QueueFragFreeNone(bufs) == free

\* Buffers to be released once the queue has been handed over.
QueueFragFree(bufs) == free \union bufs

\* OnFragment: the fragment is copied and more are to come.
OnFragmentCopy(s) ==
    /\ FragmentTaken(s)
    /\ \E f \in Begun(s) :
         /\ ~Completes(f)
         /\ frag' = [frag EXCEPT ![s] = [f EXCEPT !.offset = @ + 1]]
    /\ heap' = LiveThen(s) /\ allocs' = Allocated(s)
    /\ UNCHANGED <<queue, free, failed, handed>>

\* Mutant: the buffer pointer is not zeroed.
FinishedKept(f) == [f EXCEPT !.length = 0]

\* _fragments once the message is queued: the offset is not reset.
Finished(f) == [f EXCEPT !.length = 0, !.buffer = None]

\* OnFragment: the message is complete.  It is decompressed into a buffer of
\* its own if it was compressed, and queued.
OnFragmentComplete(s) ==
    /\ FragmentTaken(s)
    /\ \E f \in Begun(s) :
         /\ Completes(f)
         /\ frag' = [frag EXCEPT ![s] = Finished(f)]
         /\ LET dest == Allocated(s) + 1
                zip  == coming[s].zip
                bufs == {f.buffer} \union (IF zip THEN {dest} ELSE {})
            IN  /\ allocs' = Allocated(s) + (IF zip THEN 1 ELSE 0)
                /\ QueueDelivery([stream |-> s, msg |-> coming[s].msg, frag |-> TRUE,
                                  buf |-> IF zip THEN dest ELSE f.buffer],
                                 QueueFragFree(bufs), LiveThen(s) \union bufs)
    /\ UNCHANGED failed

\* OnFragment gives up on a complete message: no memory for the decompressed
\* message, or LZ4_uncompress fails.
OnFragmentFails(s) ==
    /\ Fails
    /\ FragmentTaken(s)
    /\ coming[s].zip
    /\ \E f \in Begun(s), dest \in {{}, {Allocated(s) + 1}} :
         /\ Completes(f)
         /\ frag' = [frag EXCEPT ![s] = [f EXCEPT !.length = 0]]
         /\ allocs' = Allocated(s) + Cardinality(dest)
         /\ free' = QueueFragFree({f.buffer} \union dest)
         /\ heap' = LiveThen(s) \union dest
    /\ failed' = failed \union {s}
    /\ UNCHANGED <<queue, handed>>

\* OnFragment finds no memory for the first fragment.
OnFragmentNoBuffer(s) ==
    /\ Fails
    /\ FragmentTaken(s)
    /\ Starting(s)
    /\ frag' = [frag EXCEPT ![s].buffer = None]
    /\ failed' = failed \union {s}
    /\ UNCHANGED <<queue, free, heap, allocs, handed>>

\* A fragment without data asks to abort the message.
OnFragmentAbort(s) ==
    /\ Aborts
    /\ batch /\ coming[s] # NoMsg /\ coming[s].left < coming[s].total
    /\ ~Starting(s)
    /\ coming' = [coming EXCEPT ![s] = NoMsg]
    /\ frag' = [frag EXCEPT ![s].length = 0]
    /\ heap' = heap \ {frag[s].buffer}
    /\ failed' = failed \union {s}
    /\ UNCHANGED <<batch, queue, free, allocs, count, whole, handed>>

DeliveryInit ==
    /\ batch = FALSE
    /\ coming = [s \in FragStreams |-> NoMsg]
    /\ frag = [s \in FragStreams |-> NoFrag]
    /\ queue = <<>> /\ free = {} /\ heap = {} /\ allocs = 0
    /\ count = [s \in FragStreams |-> 0]
    /\ whole = {} /\ failed = {} /\ handed = <<>>

DeliveryNext ==
    \/ OnTransportDatagrams
    \/ DeliverQueued
    \/ \E s \in FragStreams :
         \/ ProcessInOrder(s)
         \/ RunReliableReceiveQueue(s)
         \/ \E n \in Lengths, zip \in Zipped : FragmentedMessage(s, n, zip)
         \/ OnFragmentCopy(s)
         \/ OnFragmentComplete(s)
         \/ OnFragmentFails(s)
         \/ OnFragmentNoBuffer(s)
         \/ OnFragmentAbort(s)

DeliverySpec == DeliveryInit /\ [][DeliveryNext]_deliveryVars

------------------------------------------------------------------------------
(***************************************************************************)
(* Properties                                                              *)
(***************************************************************************)

\* Every variable has its type; the queue is handed over before it is full.
DeliveryTypeOK ==
    /\ batch \in BOOLEAN /\ allocs \in Nat
    /\ coming \in [FragStreams -> [msg : Nat, total : Nat, left : Nat, zip : BOOLEAN]]
    /\ frag \in [FragStreams -> [buffer : Nat, length : Nat, offset : Nat]]
    /\ Len(queue) < Depth
    /\ free \subseteq 1 .. allocs /\ heap \subseteq 1 .. allocs
    /\ count \in [FragStreams -> 0 .. MaxMessages] /\ failed \subseteq FragStreams

\* The data of everything OnMessages gets is still there (QueueDelivery keeps
\* pointers, DeliverQueued hands them over later).
DeliveredLive == \A k \in DOMAIN handed : handed[k].live

\* The buffer of a reassembled message outlives the call of OnMessages.
ReassembledLive == \A k \in DOMAIN handed : handed[k].frag => handed[k].live

\* A message whose last fragment came in is queued or was handed over, once:
\* OnFragment loses none, whatever its length, and giving up a message of one
\* stream does not disturb the others.
ReassembledDelivered ==
    \A m \in whole : m.stream \notin failed =>
        Cardinality({k \in DOMAIN handed :
                       handed[k].stream = m.stream /\ handed[k].msg = m.msg})
          + Cardinality({k \in DOMAIN queue :
                       queue[k].stream = m.stream /\ queue[k].msg = m.msg}) = 1

\* The messages of a stream are handed over in the order they came, fragmented
\* or not, across batches and queues that filled up, also when some are lost for
\* lack of memory.
HandedInOrder ==
    \A j, k \in DOMAIN handed :
        j < k /\ handed[j].stream = handed[k].stream => handed[j].msg <= handed[k].msg

\* free_list has twice the room of the delivery queue, "to handle compressed
\* fragments": QueueFragFree never writes past its end, as long as every message
\* that puts buffers on the list is queued too.
FreeListBound == failed = {} => Cardinality(free) <= 2 * Depth

\* Between two batches the only buffers in use are those of messages that are
\* being put together: OnFragment and DeliverQueued leak nothing, as long as no
\* message is given up.
NothingLeaked ==
    ~batch /\ failed = {} => \A b \in heap : \E s \in FragStreams : frag[s].buffer = b

\* _fragments[].buffer is null or live, so that the destructor, which deletes
\* it, deletes nothing twice, on every stream where no message was given up.
FragmentBufferLive ==
    ~batch => \A s \in FragStreams \ failed : frag[s].buffer \in heap \union {None}

\* Every message that arrived whole is handed over, once and in its turn.
HandedRight == DeliveryTypeOK /\ ReassembledDelivered /\ HandedInOrder

\* Every buffer lives as long as somebody points to it, and no longer.
BuffersSafe == /\ ReassembledLive /\ FragmentBufferLive
               /\ FreeListBound /\ NothingLeaked

\* Both, through every batch, failure and break-off: what reassembly owes.
DeliveryRight == HandedRight /\ BuffersSafe
==============================================================================
