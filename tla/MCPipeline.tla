---------------------------- MODULE MCPipeline ----------------------------
(* Small instances of Pipeline. *)
EXTENDS Pipeline

CONSTANTS c1, a1, a2, b1

\* One CPU buffer, two in D1, one in D2: start-up uses the CPU buffer and
\* one of D1, so the third block already competes with the output buffer.
MCBuffers == {c1, a1, a2, b1}
MCDomain  == (c1 :> "CPU") @@ (a1 :> "D1") @@ (a2 :> "D1") @@ (b1 :> "D2")

MCSymmetry == Permutations({a1, a2})
=============================================================================
