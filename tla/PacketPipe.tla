----------------------------- MODULE PacketPipe -----------------------------
(***************************************************************************)
(* What a direction of the link promises to the layer above: packets that  *)
(* have been accepted come out at the other end, whole, once and in order. *)
(* A packet may be refused at the entrance (the queue is full, no memory); *)
(* once accepted it is neither lost nor changed nor overtaken.             *)
(***************************************************************************)
EXTENDS Naturals, Sequences

CONSTANT Packet

VARIABLES
  accepted,   \* packets taken in so far
  received    \* packets that have come out so far

Init == accepted = <<>> /\ received = <<>>

Accept(p) == accepted' = Append(accepted, p) /\ UNCHANGED received

Deliver ==
  /\ Len(received) < Len(accepted)
  /\ received' = Append(received, accepted[Len(received) + 1])
  /\ UNCHANGED accepted

Next == (\E p \in Packet : Accept(p)) \/ Deliver

Spec == Init /\ [][Next]_<<accepted, received>>
=============================================================================
