------------------------------ MODULE MCHostTx ------------------------------
(* Instances of HostTx: short packets, in one and in two pieces, and a     *)
(* buffer that holds one of them but not two.                              *)
EXTENDS HostTx

MCPackets == << <<1>>, <<1, 1>>, <<1>> >>
=============================================================================
