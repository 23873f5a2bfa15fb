------------------------------ MODULE MCHostRx ------------------------------
(***************************************************************************)
(* Small instances of HostRx.                                              *)
(***************************************************************************)
EXTENDS HostRx

MCInfo       == <<1, 3>>
TwoPackets   == <<<<10, 11>>, <<12, 13, 14>>>>
ShortPackets == <<<<85, 255, 254, 255, 85>>, <<85, 1, 0, 7>>>>
=============================================================================
