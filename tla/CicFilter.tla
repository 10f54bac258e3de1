----------------------------- MODULE CicFilter -----------------------------
(***************************************************************************)
(* The analog downsampling filters (cic_filter.c), fed in calls of any     *)
(* size: five integrators at the input rate, five combs at the output      *)
(* rate.  With FastLoop this is downsample32, which takes six samples at a *)
(* time in the middle of a buffer; without it is downsample64, which takes *)
(* them one by one.                                                        *)
(***************************************************************************)
EXTENDS Sums, Sequences, FiniteSetsExt

CONSTANTS
    Divider,        \* 3 in downsample32
    FastLoop,       \* whether there is the loop of six samples
    Word,           \* 2^32 or 2^64: arithmetic wraps around
    OutMax,         \* downsample64 saturates at 2^32 - 1
    Shift,          \* and divides by 2^Shift first
    Samples,        \* bound: sample values
    CallSizes,      \* bound: samples in a call
    MaxSamples      \* bound: samples in all

ASSUME FilterAssumption ==
    /\ Divider \in Nat \ {0} /\ Word \in Nat \ {0} /\ Shift \in Nat
    /\ FastLoop \in BOOLEAN /\ (FastLoop => Divider = 3)
    /\ Samples \subseteq 0..(Word - 1) /\ OutMax \in 0..(Word - 1)
    /\ CallSizes \subseteq Nat \ {0} /\ MaxSamples \in Nat

VARIABLES
    integrators,    \* state->integrators
    combs,          \* state->combs
    phase,          \* state->phase
    left,           \* count - in_index
    taken,          \* history: the samples taken so far
    produced        \* history: the outputs so far, and after how many samples

filterVars == <<integrators, combs, phase, left, taken, produced>>

Stages == 0..4

FilterInit ==
    /\ integrators = [k \in Stages |-> 0]
    /\ combs = [k \in Stages |-> [p \in 0..1 |-> 0]]
    /\ phase = 0 /\ left = 0
    /\ taken = <<>> /\ produced = <<>>

\* A call with n samples.
Call(n) ==
    /\ left = 0
    /\ Len(taken) + n <= MaxSamples
    /\ left' = n
    /\ UNCHANGED <<integrators, combs, phase, taken, produced>>

-----------------------------------------------------------------------------
\* (Mutant: the integrators are updated last one first.)
IntegratedReversed(x) ==
    [k \in Stages |-> (integrators[k] + (IF k = 0 THEN x ELSE integrators[k - 1])) % Word]

\* One sample: integrator k adds integrator k - 1, already updated.
Integrated(x) ==
    LET updated[k \in Stages] ==
            (integrators[k] + (IF k = 0 THEN x ELSE updated[k - 1])) % Word
    IN  updated

\* The fast loop's single summation for three samples.
Factors == [k \in Stages |-> CASE k = 0 -> <<1, 1, 1>>
                               [] k = 1 -> <<3, 2, 1>>
                               [] k = 2 -> <<6, 3, 1>>
                               [] k = 3 -> <<10, 4, 1>>
                               [] k = 4 -> <<15, 5, 1>>]

Integrated3(i, s) ==
    [k \in Stages |-> (i[k] + (IF k = 0 THEN 0 ELSE 3 * i[k - 1])
                         + Factors[k][1] * s[1] + Factors[k][2] * s[2]
                         + Factors[k][3] * s[3]) % Word]

\* The macro COMB(history, tmp, input) with the history of stage k, which
\* evaluates its input twice, side effects on the histories included.
COMB(k, Input(_), history) ==
    LET first  == Input(history)
        second == Input(first.history)
    IN  [value   |-> (first.value - first.history[k]) % Word,
         history |-> [second.history EXCEPT ![k] = second.value]]

\* Stages 4 down to 0, the innermost input x.
Comb(x, history) ==
    COMB(4, LAMBDA h4 :
        COMB(3, LAMBDA h3 :
            COMB(2, LAMBDA h2 :
                COMB(1, LAMBDA h1 :
                    COMB(0, LAMBDA h0 : [value |-> x, history |-> h0], h1),
                h2),
            h3),
        h4),
    history)

\* The output for integrator value x with the histories of slot p.
Combed(x, p) == Comb(x, [k \in Stages |-> combs[k][p]])

CombsWith(c, p) == [k \in Stages |-> [c[k] EXCEPT ![p] = Combed(integrators'[4], p).history[k]]]

\* An output, n samples after those taken so far.
Output(value, n) == [value |-> value, after |-> Len(taken) + n]

Scaled(result) == Min({result \div 2^Shift, OutMax})

-----------------------------------------------------------------------------
\* (Mutant: the phase a former call left off at is not looked at.)
TakeOneAnyPhase == left > 0 /\ (FastLoop => left < 6)

\* The first loop takes a sample at the start or end of a buffer.
TakeOne == left > 0 /\ (FastLoop => phase # 0 \/ left < 6)

Slow ==
    /\ TakeOne
    /\ \E x \in Samples :
        /\ integrators' = Integrated(x)
        /\ taken' = Append(taken, x)
    /\ left' = left - 1
    /\ LET p == IF phase + 1 = 2 * Divider THEN 1 ELSE 0
       IN  IF phase + 1 \in {Divider, 2 * Divider}
           THEN /\ produced' = Append(produced, Output(Scaled(Combed(integrators'[4], p).value), 1))
                /\ combs' = CombsWith(combs, p)
                /\ phase' = IF p = 1 THEN 0 ELSE phase + 1
           ELSE /\ phase' = phase + 1
                /\ UNCHANGED <<produced, combs>>

\* The second loop takes six samples, with one output after each three.
Fast ==
    /\ left > 0 /\ ~TakeOne
    /\ \E s, t \in [1..3 -> Samples] :
        LET half == Integrated3(integrators, s)
        IN  /\ integrators' = Integrated3(half, t)
            /\ produced' = produced \o <<Output(Combed(half[4], 0).value, 3),
                                         Output(Combed(integrators'[4], 1).value, 6)>>
            /\ combs' = [k \in Stages |-> [p \in 0..1 |->
                IF p = 0 THEN Combed(half[4], 0).history[k]
                         ELSE Combed(integrators'[4], 1).history[k]]]
            /\ taken' = taken \o <<s[1], s[2], s[3], t[1], t[2], t[3]>>
    /\ left' = left - 6
    /\ UNCHANGED phase

FilterNext == Slow \/ Fast \/ \E n \in CallSizes : Call(n)

\* downsample32 by itself.
FilterSpec == FilterInit /\ [][FilterNext]_filterVars

-----------------------------------------------------------------------------
\* However the samples are split into calls, an output follows exactly each
\* Divider-th sample, none is left out and none comes early: the two loops hand
\* the phase to each other and to the next call.
OutputsOnTime ==
    /\ Len(produced) = Len(taken) \div Divider
    /\ \A n \in DOMAIN produced : produced[n].after = n * Divider

\* The first two integrators are the running sum of all samples taken and the
\* running sum of these sums, whichever loop took the samples: the fast loop's
\* single summation for three samples adds up to three single updates.  (For
\* the further integrators it does not: the terms that reach them from more than
\* one integrator before, such as 6 * i0 in i2, are missing.)
RunningSums ==
    LET n     == Len(taken)
        once  == Summed(taken, n)
        twice == Summed(once, n)
    IN  integrators[0] = once[n] % Word /\ integrators[1] = twice[n] % Word

\* "This function gives a gain of 6**5 = 7776": once all histories are past
\* the first sample, a constant input x comes out as 7776 * x.
GainAsStated ==
    \A x \in Samples : (\A j \in DOMAIN taken : taken[j] = x) =>
        \A n \in DOMAIN produced : n >= 12 => produced[n].value = (7776 * x) % Word
=============================================================================
