-------------------------------- MODULE Sums --------------------------------
(***************************************************************************)
(* The sum of a sequence of numbers, as a recursive function that proofs   *)
(* can unfold.                                                             *)
(***************************************************************************)
EXTENDS Integers, Sequences

SumSeq(x) ==
  LET sum[n \in 0..Len(x)] == IF n = 0 THEN 0 ELSE sum[n - 1] + x[n]
  IN  sum[Len(x)]
=============================================================================
