------------------------------- MODULE Sums ---------------------------------
(***************************************************************************)
(* The total size of the first elements of a sequence, as loops over the   *)
(* entries of a directory or of a cache add it up.                         *)
(***************************************************************************)
EXTENDS Naturals, Sequences

SumTo(size, s, n) ==
  LET sum[i \in 0..n] == IF i = 0 THEN 0 ELSE sum[i - 1] + size[s[i]]
  IN  sum[n]
=============================================================================
