-------------------------------- MODULE Sums --------------------------------
(***************************************************************************)
(* Sums over the members of a sequence, as recursive functions.            *)
(***************************************************************************)
EXTENDS Integers

\* The sums of the first 0, 1, ... n members of f.
Summed(f, n) == LET sum[m \in 0..n] == IF m = 0 THEN 0 ELSE sum[m - 1] + f[m]
                IN  sum

\* The sum of the first n.
SumOf(f, n) == Summed(f, n)[n]
=============================================================================
