----------------------------- MODULE MCMeasures -----------------------------
(***************************************************************************)
(* The computations on measured values: the two downsamplers of            *)
(* cic_filter.c and the processor load of debug.c.  They have no state in  *)
(* common, so that a behaviour is one of them.                             *)
(***************************************************************************)
EXTENDS CicFilter, CicChain, CpuUsage

\* Of 1024 a part is left after four factors.
MCRates == (1..16) \cup {22, 24, 30, 36, 60, 77, 480, 1024}

\* What may be in the array before: 1 or not, and what a pointer or a negative
\* number would be.
MCGarbage == {-3, 0, 1, 5}

VARIABLE used       \* which of them

vars == <<used, filterVars, chainVars, usageVars>>

Init ==
    /\ FilterInit /\ ChainInit /\ UsageInit
    /\ used \in {"downsample32", "downsampleX", "get_cpu_usage"}
    /\ used # "downsampleX" => requested = Min(ChainRates)

Next ==
    /\ \/ used = "downsample32" /\ FilterNext /\ UNCHANGED <<chainVars, usageVars>>
       \/ used = "downsampleX" /\ ChainNext /\ UNCHANGED <<filterVars, usageVars>>
       \/ used = "get_cpu_usage" /\ UsageNext /\ UNCHANGED <<filterVars, chainVars>>
    /\ UNCHANGED used

Spec == Init /\ [][Next]_vars
=============================================================================
