----------------------------- MODULE MCDatagrams -----------------------------
(***************************************************************************)
(* What a datagram holds, how often it is accepted and how its messages are *)
(* handed over: the clusters the sender packs, the window of the receiver,  *)
(* and its reassembly and delivery, each by itself.                         *)
(***************************************************************************)
EXTENDS ReplayWindow, SendCluster, Delivery

CONSTANT Subjects
VARIABLE subject
datagramVars == <<subject, vars, sendVars, deliveryVars>>

DatagramInit == subject \in Subjects /\ Init /\ ClusterInit /\ DeliveryInit

DatagramNext ==
  \/ subject = "replay" /\ Next /\ UNCHANGED <<subject, sendVars, deliveryVars>>
  \/ subject = "framing" /\ ClusterNext /\ UNCHANGED <<subject, vars, deliveryVars>>
  \/ subject = "delivery" /\ DeliveryNext /\ UNCHANGED <<subject, vars, sendVars>>

DatagramSpec == DatagramInit /\ [][DatagramNext]_datagramVars
==============================================================================
