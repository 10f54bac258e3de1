------------------------------- MODULE Inflate -------------------------------
(***************************************************************************)
(* The decoder the encoder writes for: a block of RFC 1951 with dynamic    *)
(* Huffman codes, from a sequence of bits.  The firmware has none; what is *)
(* here follows the format, and shares no table with the encoder.          *)
(***************************************************************************)
EXTENDS Rfc1951, SequencesExt, FiniteSetsExt

CONSTANTS
    EndOfBlock,     \* the symbol after the literals: 256
    RepeatBits      \* bits that count a long run of zero lengths: 7

\* The number in the n bits from position p on, lowest bit first; bits behind
\* the end are 0.
NumberAt(bits, p, n) ==
    FoldLeft(+, 0, [i \in 1..n |->
        IF p + i - 1 \in DOMAIN bits THEN bits[p + i - 1] * 2^(i - 1) ELSE 0])

Alphabet(lengths) == [i \in 1..Len(lengths) |-> CanonicalCode(lengths, i)]

\* The symbols, from 0, whose code is at position p; one, if the bits are
\* valid.
SymbolsAt(bits, p, alphabet) ==
    {i - 1 : i \in {j \in 1..Len(alphabet) :
        /\ alphabet[j] # << >>
        /\ p + Len(alphabet[j]) - 1 <= Len(bits)
        /\ SubSeq(bits, p, p + Len(alphabet[j]) - 1) = alphabet[j]}}

Failed == [ok |-> FALSE, next |-> 1, out |-> << >>]

\* n code lengths from position p on, after those in out.
RECURSIVE ReadLengths(_, _, _, _, _)
ReadLengths(bits, p, alphabet, n, out) ==
    IF Len(out) = n THEN [ok |-> TRUE, next |-> p, out |-> out]
    ELSE
    LET found == SymbolsAt(bits, p, alphabet)
    IN  IF Len(out) > n \/ Cardinality(found) # 1 THEN Failed
        ELSE
        LET s == CHOOSE s \in found : TRUE
            q == p + Len(alphabet[s + 1])
            More(m, value) == out \o [i \in 1..m |-> value]
        IN  CASE s < 16 -> ReadLengths(bits, q, alphabet, n, Append(out, s))
              [] s = 16 /\ out = << >> -> Failed
              [] s = 16 /\ out # << >> ->
                    ReadLengths(bits, q + 2, alphabet, n, More(3 + NumberAt(bits, q, 2), Last(out)))
              [] s = 17 ->
                    ReadLengths(bits, q + 3, alphabet, n, More(3 + NumberAt(bits, q, 3), 0))
              [] s = 18 ->
                    ReadLengths(bits, q + RepeatBits, alphabet, n,
                                More(11 + NumberAt(bits, q, RepeatBits), 0))

\* The order in which the lengths of the code-length alphabet are sent.
LengthOrder == <<16, 17, 18, 0, 8, 7, 9, 6, 10, 5, 11, 4, 12, 3, 13, 2, 14, 1, 15>>

\* The description of the alphabets at position p: HLIT, HDIST and HCLEN, the
\* code-length alphabet, then all lengths in one sequence.
ReadAlphabets(bits, p) ==
    LET literals  == EndOfBlock + 1 + NumberAt(bits, p, 5)
        distances == 1 + NumberAt(bits, p + 5, 5)
        sent      == 4 + NumberAt(bits, p + 10, 4)
        lengths   == [i \in 1..19 |->
            LET k == CHOOSE k \in 1..19 : LengthOrder[k] = i - 1
            IN  IF k <= sent THEN NumberAt(bits, p + 14 + 3 * (k - 1), 3) ELSE 0]
        read == ReadLengths(bits, p + 14 + 3 * sent, Alphabet(lengths),
                            literals + distances, << >>)
    IN  [ok |-> read.ok, next |-> read.next,
         literals  |-> IF read.ok THEN SubSeq(read.out, 1, literals) ELSE << >>,
         distances |-> IF read.ok THEN SubSeq(read.out, literals + 1, Len(read.out)) ELSE << >>]

\* out and a copy of n bytes from d bytes back, which may overlap its end.
RECURSIVE Copied(_, _, _)
Copied(out, n, d) == IF n = 0 THEN out ELSE Copied(Append(out, out[Len(out) + 1 - d]), n - 1, d)

\* The bytes of a block from position p on, after those in out.
RECURSIVE ReadBlock(_, _, _, _, _)
ReadBlock(bits, p, literals, distances, out) ==
    LET found == SymbolsAt(bits, p, literals)
    IN  IF Cardinality(found) # 1 THEN Failed
        ELSE
        LET s == CHOOSE s \in found : TRUE
            q == p + Len(literals[s + 1])
        IN  CASE s < EndOfBlock -> ReadBlock(bits, q, literals, distances, Append(out, s))
              [] s = EndOfBlock -> [ok |-> TRUE, next |-> q, out |-> out]
              [] s > EndOfBlock ->
                 LET extra == LengthExtra[s - EndOfBlock]
                     n     == LengthBase[s - EndOfBlock] + NumberAt(bits, q, extra)
                     back  == SymbolsAt(bits, q + extra, distances)
                 IN  IF Cardinality(back) # 1 \/ ~(back \subseteq 0..3) THEN Failed
                     ELSE
                     LET d == CHOOSE d \in back : TRUE
                     IN  IF d + 1 > Len(out) THEN Failed
                         ELSE ReadBlock(bits, q + extra + Len(distances[d + 1]),
                                        literals, distances, Copied(out, n, d + 1))

\* The whole of a block: its 3 bits say that it is the last one and has
\* alphabets of its own.
Inflated(bits) ==
    LET read == ReadAlphabets(bits, 4)
    IN  IF SubSeq(bits, 1, 3) = <<1, 0, 1>> /\ read.ok
        THEN ReadBlock(bits, read.next, Alphabet(read.literals), Alphabet(read.distances), << >>)
        ELSE Failed
=============================================================================
