-------------------------------- MODULE Sums --------------------------------
(***************************************************************************)
(* The sum of the n first entries of a function, as a function of partial  *)
(* sums: SQL's SUM() over the rows 1 .. n.                                 *)
(***************************************************************************)
EXTENDS Integers

PartialSums(x, n) ==
  LET p[i \in 0 .. n] == IF i = 0 THEN 0 ELSE p[i - 1] + x[i]
  IN  p

SumTo(x, n) == PartialSums(x, n)[n]
=============================================================================
