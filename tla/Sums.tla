-------------------------------- MODULE Sums --------------------------------
(***************************************************************************)
(* The total of a sequence of lengths: of the elements of a queue, of the  *)
(* parts of a packet.                                                      *)
(***************************************************************************)
EXTENDS Integers, Sequences

SumOf(s) ==
  LET total[n \in 0 .. Len(s)] == IF n = 0 THEN 0 ELSE total[n - 1] + s[n]
  IN total[Len(s)]
=============================================================================
