------------------------------ MODULE MCDeflate ------------------------------
(***************************************************************************)
(* A small instance of Deflate: 8 values of a byte instead of 256, codes   *)
(* up to 7 bits, words of 18.  The counts of deflate_init add up to less   *)
(* than the 34 it takes to reach 7 bits, as they do for the 15 of the code *)
(* (1558 of 1597).                                                         *)
(***************************************************************************)
EXTENDS Decompressed

CONSTANTS k1, k2

w0 == <<0, 0, 0, 0>>
w1 == <<6, 6, 6, 0>>        \* stands for 0xFFFF
w2 == <<3, 0, 5, 0>>        \* shares the cache entry of w0
w3 == <<7, 7, 7, 7>>        \* as w0, but a preprocessor may change it

MCWords == {w0, w1, w2, w3}
MCHash  == (w0 :> k1) @@ (w1 :> k2) @@ (w2 :> k1) @@ (w3 :> k2)

\* A mask that clears the lowest bit of every byte but the first.
MCPreprocess == [w \in MCWords |-> [k \in 1..4 |-> IF k = 1 THEN w[k] ELSE w[k] - (w[k] % 2)]]

\* Nothing sampled, one frequent word with repetitions, many different ones,
\* and a sample step greater than 1.
MCFewSamples == { <<w0, w1>>,
                  <<w1, w0, w0, w0, w0, w0, w0>>,
                  <<w2, w1, w2, w3, w3, w1, w2>>,
                  [i \in 1..15 |-> IF i \in {6, 9, 13} THEN w3 ELSE w2] }

\* As many samples as there can be, every one of five symbols, of which as
\* many as possible are alike: the counts add up to 33.
MCLopsided == [i \in 1..47 |-> IF (i - 1) % 12 \in {3, 4, 8, 9, 10} THEN w1 ELSE w2]

MCTrainings == MCFewSamples \cup {MCLopsided}

\* Any words, and runs longer than one repetition can be; a second call.
MCInputs == << [1..3 -> MCWords] \cup {<<w>> : w \in MCWords}
                 \cup {<<a, b, b, b, b, b>> : a, b \in MCWords},
               [1..2 -> MCWords] >>

\* One word, and then another again and again.
MCLongRun == << {[i \in 1..120 |-> IF i = 1 THEN a ELSE b] : a, b \in MCWords} >>

\* counts[i] is the count of the i-th symbol used, every step-th one.
Spread(counts, first, step) ==
    [s \in 0..17 |-> IF s >= first /\ (s - first) % step = 0 /\ (s - first) \div step < Len(counts)
                     THEN counts[(s - first) \div step + 1] ELSE 0]

\* Fibonacci numbers make the deepest tree, of 9 or 11 bits; 18 is one more
\* than fits in a run of zeros; others have runs of equal lengths.
MCCounts == { Spread(<<1, 1, 2, 3, 5, 8, 13, 21, 34, 55>>, 0, 1),
              Spread(<<55, 34, 21, 13, 8, 5, 3, 2, 1, 1>>, 0, 1),
              Spread(<<1, 1, 2, 3, 5, 8, 13, 21, 34, 55>>, 1, 1),
              Spread(<<8, 1, 1, 2, 3, 5, 8, 13, 21, 34, 55, 89>>, 0, 1),
              Spread(<<5>>, 3, 1), Spread(<<>>, 0, 1),
              Spread(<<2, 1>>, 4, 13), Spread(<<3, 1, 1>>, 0, 4),
              Spread([i \in 1..18 |-> 2], 0, 1),
              Spread([i \in 1..16 |-> 3], 1, 1),
              Spread([i \in 1..9 |-> i], 0, 2),
              Spread(<<40, 41, 42, 3, 64>>, 0, 1) }
=============================================================================
