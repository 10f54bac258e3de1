------------------------------- MODULE Rfc1951 -------------------------------
(***************************************************************************)
(* What the format says of codes: which ones a decoder takes from their    *)
(* lengths, and which lengths of repetitions the symbols stand for.        *)
(***************************************************************************)
EXTENDS Sums, Sequences

\* The code of symbol i of an alphabet given by its lengths: codes of one
\* length are consecutive numbers in the order of their symbols, and follow
\* those of the lengths before.
CanonicalCode(lengths, i) ==
    LET l == lengths[i]
        value == SumOf([j \in 1..Len(lengths) |->
                    IF lengths[j] \in 1..(l - 1) THEN 2^(l - lengths[j])
                    ELSE IF lengths[j] = l /\ j < i THEN 1 ELSE 0], Len(lengths))
    IN  [b \in 1..l |-> (value \div 2^(l - b)) % 2]

\* Length symbols, counted from the one after EndOfBlock: the shortest length
\* of each, and the bits that say how much longer.
LengthBase == <<3, 4, 5, 6, 7, 8, 9, 10, 11, 13, 15, 17, 19, 23, 27, 31, 35, 43, 51, 59,
                67, 83, 99, 115, 131, 163, 195, 227, 258>>
LengthExtra == <<0, 0, 0, 0, 0, 0, 0, 0, 1, 1, 1, 1, 2, 2, 2, 2, 3, 3, 3, 3,
                 4, 4, 4, 4, 5, 5, 5, 5, 0>>
=============================================================================
