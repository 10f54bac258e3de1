----------------------------- MODULE MCSnappy32 -----------------------------
(* A small instance of Snappy32. *)
EXTENDS Snappy32, TLC

CONSTANTS w1, w2, k1, k2

\* Two words without a hash collision.  Stale entries of the history point to
\* the other word all the same.
MCWords      == {w1, w2}
MCComplement == (w1 :> w2) @@ (w2 :> w1)
MCHash       == (w1 :> k1) @@ (w2 :> k2)
MCPreprocess == (w1 :> 1) @@ (w2 :> 2)
=============================================================================
