------------------------------ MODULE MCEspTx -------------------------------
(***************************************************************************)
(* A small instance of EspTx: a queue that two of the packets fill.        *)
(***************************************************************************)
EXTENDS EspTx

MCInfo     == <<1, 3>>
MCIncoming == <<<<10, 11>>, <<12, 13, 14>>, <<15>>, <<16, 17>>>>
=============================================================================
