------------------------------ MODULE CicChain ------------------------------
(***************************************************************************)
(* The downsampler of several stages (cic_filter.c): choose_factors splits *)
(* the rate into up to four factors, one a step, downsampleX_init makes a  *)
(* stage of each factor above 1, and downsampleX runs the stages one after *)
(* the other over a buffer, each reading what the one before has left and  *)
(* writing its own output to the start of the same buffer.                 *)
(*                                                                         *)
(* A sample stands for the number of input samples up to it: what the      *)
(* filter computes is CicFilter.  The array of factors is a local variable *)
(* that is never initialized: where the code reads an entry it has not     *)
(* written, the value is any member of Garbage.                            *)
(***************************************************************************)
EXTENDS Integers, Sequences, FiniteSetsExt

CONSTANTS
    FirstMax,       \* largest factor of the first stage: 32
    LaterMax,       \* and of the others: 64
    TargetRange,    \* what a stage's output is scaled down to: 2^24
    InputRange,     \* range of the input
    ChainRates,     \* bound: rates asked for
    Garbage,        \* bound: what an uninitialized int may hold
    ChainCalls,     \* bound: samples in a call
    MaxInput        \* bound: samples in all

ASSUME ChainAssumption ==
    /\ FirstMax \in Nat \ {0} /\ LaterMax \in Nat \ {0}
    /\ TargetRange \in Nat \ {0} /\ InputRange \in Nat \ {0}
    /\ ChainRates \subseteq Nat \ {0} /\ Garbage \subseteq Int
    /\ ChainCalls \subseteq Nat \ {0} /\ MaxInput \in Nat

VARIABLES
    requested,      \* the rate asked for
    rest,           \* what is left of it in choose_factors
    factors,        \* the factors chosen so far
    exact,          \* history: every factor was found as a divisor
    chain,          \* state->downsamplers, those made: divider, shift and phase
    stage,          \* i of the loop in downsampleX; 0 between calls
    samples,        \* the buffer of this call
    count,          \* count: samples the current stage has to read
    inIndex,        \* in_index
    outIndex,       \* out_index
    fed,            \* history: input samples so far
    results         \* history: what the last stage put out

rates    == <<requested, rest, factors, exact>>
position == <<stage, samples, count, inIndex, outIndex>>
chainVars == <<rates, chain, position, fed, results>>

ChainInit ==
    /\ requested \in ChainRates /\ rest = requested
    /\ factors = <<>> /\ exact = TRUE
    /\ chain = <<>>
    /\ stage = 0 /\ samples = <<>> /\ count = 0 /\ inIndex = 0 /\ outIndex = 0
    /\ fed = 0 /\ results = <<>>

-----------------------------------------------------------------------------
(* choose_factors *)

\* max_divider of the k-th stage, and of the one that comes next.
Limit(k) == IF k = 1 THEN FirstMax ELSE LaterMax
MaxDivider == Limit(Len(factors) + 1)

\* (Mutant: the largest factor a stage can do is not tried.)
DivisorsBelow == {d \in 2..(MaxDivider - 1) : rest % d = 0}

Divisors == {d \in 2..MaxDivider : rest % d = 0}

Magnitude(n) == IF n < 0 THEN -n ELSE n

\* Integer division by a factor; by zero it gives zero on this processor.
Divided(factor) ==
    IF factor = 0 THEN 0
    ELSE LET q == Magnitude(rest) \div Magnitude(factor)
         IN  IF (rest < 0) = (factor < 0) THEN q ELSE -q

Choose(factor) ==
    /\ factors' = Append(factors, factor)
    /\ rest' = Divided(factor)

\* The rest fits into this stage.
Single == rest <= MaxDivider /\ Choose(rest) /\ UNCHANGED exact

\* The largest divisor that fits.
Exact == rest > MaxDivider /\ Divisors # {} /\ Choose(Max(Divisors)) /\ UNCHANGED exact

\* No divisor fits, and the entry of the array was not written.  Only if it
\* happens to hold 1 the fallback is used.
NoDivisor ==
    /\ rest > MaxDivider /\ Divisors = {}
    /\ \E old \in Garbage : Choose(IF old = 1 THEN MaxDivider ELSE old)
    /\ exact' = FALSE

ChooseFactor ==
    /\ Len(factors) < 4
    /\ Single \/ Exact \/ NoDivisor
    /\ UNCHANGED <<requested, chain, position, fed, results>>

-----------------------------------------------------------------------------
\* The shift that brings the range of a stage's output down to the target.
\* The input is taken to have the range of the first stage's for every stage.
ShiftFor(d) ==
    CHOOSE s \in 0..30 :
        /\ (d^5 * InputRange) \div 2^s <= TargetRange
        /\ s > 0 => (d^5 * InputRange) \div 2^(s - 1) > TargetRange

\* downsample64_init
NewStage(d) == [divider |-> d, shift |-> ShiftFor(d), phase |-> 0]

\* Factor k gets a stage if it is above 1.
WithStage(stages, k) ==
    IF factors[k] > 1 THEN Append(stages, NewStage(factors[k])) ELSE stages

\* downsampleX_init
MakeStages ==
    /\ Len(factors) = 4 /\ chain = <<>>
    /\ chain' = WithStage(WithStage(WithStage(WithStage(<<>>, 1), 2), 3), 4)
    /\ UNCHANGED <<rates, position, fed, results>>

\* The product of the entries of a list of up to four.
ProductOf(list) ==
    LET Entry(k) == IF k \in DOMAIN list THEN list[k] ELSE 1
    IN  Entry(1) * Entry(2) * Entry(3) * Entry(4)

\* state->divider
TotalDivider == ProductOf([i \in DOMAIN chain |-> chain[i].divider])

-----------------------------------------------------------------------------
\* A call of downsampleX with n samples.  With a rate of 1 there is no stage
\* and the first one is used all the same, uninitialized: not called so.
DownsampleX ==
    /\ chain # <<>> /\ stage = 0
    /\ \E n \in ChainCalls :
        /\ fed + n <= MaxInput
        /\ samples' = [i \in 0..(n - 1) |-> fed + i + 1]
        /\ count' = n /\ fed' = fed + n
    /\ stage' = 1 /\ inIndex' = 0 /\ outIndex' = 0
    /\ UNCHANGED <<rates, chain, results>>

\* (Mutant: the output of a stage goes behind what it has to read.)
OutputPlaceAfter == count - 1

\* Where the output of a stage goes: to the start of the buffer it reads.
OutputPlace == outIndex

\* One sample of a stage of downsample64: an output when the phase reaches
\* the divider or twice the divider, where it starts again.
StageStep ==
    /\ stage > 0 /\ inIndex < count
    /\ LET d == chain[stage].divider
           p == chain[stage].phase + 1
       IN  /\ chain' = [chain EXCEPT ![stage].phase = IF p = 2 * d THEN 0 ELSE p]
           /\ IF p \in {d, 2 * d}
              THEN /\ samples' = [samples EXCEPT ![OutputPlace] = samples[inIndex]]
                   /\ outIndex' = outIndex + 1
              ELSE UNCHANGED <<samples, outIndex>>
    /\ inIndex' = inIndex + 1
    /\ UNCHANGED <<rates, stage, count, fed, results>>

\* The next stage reads what this one has put out.
StageDone ==
    /\ stage > 0 /\ inIndex = count /\ stage < Len(chain)
    /\ stage' = stage + 1 /\ count' = outIndex
    /\ inIndex' = 0 /\ outIndex' = 0
    /\ UNCHANGED <<rates, chain, samples, fed, results>>

\* The last one: downsampleX returns how many samples are left.
ChainReturn ==
    /\ stage > 0 /\ inIndex = count /\ stage = Len(chain)
    /\ results' = results \o [i \in 1..outIndex |-> samples[i - 1]]
    /\ stage' = 0 /\ samples' = <<>> /\ count' = 0 /\ inIndex' = 0 /\ outIndex' = 0
    /\ UNCHANGED <<rates, chain, fed>>

ChainNext ==
    \/ ChooseFactor \/ MakeStages
    \/ DownsampleX \/ StageStep \/ StageDone \/ ChainReturn

-----------------------------------------------------------------------------
\* As long as divisors are found nothing of the rate gets lost: the factors
\* and what is left make up the rate asked for, and no stage gets more than it
\* can do.  The chain's own rate is then the one asked for divided by what is
\* left after the fourth factor, which may be more than 1; but then no divisor
\* of what is left would have fitted into any of the stages.
ExactRate ==
    exact => /\ ProductOf(factors) * rest = requested
             /\ \A k \in DOMAIN factors : factors[k] \in 1..Limit(k)
             /\ \A k \in DOMAIN factors, q \in 2..rest :
                    rest % q = 0 => factors[k] * q > Limit(k)
             /\ chain # <<>> => TotalDivider * rest = requested

\* However the input is split into calls, the k-th output of the chain ends
\* with sample number k times its rate: no stage overwrites what it has not
\* read yet in the buffer they share, none takes a sample twice, and each goes
\* on where its last call ended.
ChainOnTime ==
    /\ \A k \in DOMAIN results : results[k] = k * TotalDivider
    /\ stage = 0 /\ chain # <<>> => Len(results) = fed \div TotalDivider
=============================================================================
