--------------------------- MODULE ReliableChannel ---------------------------
(***************************************************************************)
(* What a reliable stream promises the application (Transport.hpp): every  *)
(* message written is handed over once; on an ordered stream in the order  *)
(* of writing.  Messages are numbered as they are written.                 *)
(***************************************************************************)
EXTENDS Naturals, Sequences

CONSTANTS Unordered,   \* TRUE: stream 0, FALSE: an ordered stream
          MaxWrites    \* bound: messages the application writes

VARIABLES written,     \* messages written so far
          delivered    \* messages handed over, in order

Init == written = 0 /\ delivered = <<>>

\* A message takes several numbers when it is cut into fragments.
Write ==
    /\ written' \in (written + 1) .. MaxWrites
    /\ UNCHANGED delivered

Deliver ==
    \E m \in 1 .. written :
        /\ \A k \in DOMAIN delivered : delivered[k] # m
        /\ ~Unordered => m = Len(delivered) + 1
        /\ delivered' = Append(delivered, m)
        /\ UNCHANGED written

Next == Write \/ Deliver

Spec == Init /\ [][Next]_<<written, delivered>>
==============================================================================
