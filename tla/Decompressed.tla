---------------------------- MODULE Decompressed ----------------------------
(***************************************************************************)
(* What a decoder makes of the output of Deflate: the lengths of the codes *)
(* and the words that were compressed.                                     *)
(***************************************************************************)
EXTENDS Deflate

Decoder == INSTANCE Inflate WITH EndOfBlock <- Literals, RepeatBits <- ZeroBits

(* A decoder reads from what huffman_write_alphabet has written the lengths *)
(* of all codes, whatever runs of equal lengths there are.                 *)
DescribesLengths ==
    stage = "ready" /\ calls = 0 =>
        LET read == Decoder!ReadAlphabets(Contents(stream), 4)
        IN  /\ read.ok
            /\ read.literals = [i \in 1..CodeCount |-> length[i - 1]]
            /\ read.distances = <<1, 0, 0, 1>>
            /\ read.next = Len(Contents(stream)) + 1

\* The lengths of repetitions that deflate_compress can write.
SentLengths == {3} \cup {4 * n : n \in 1..((MaxRepeat - 4) \div 4 + 1)}

(* Counts that deflate_init can produce, however lopsided its samples are, *)
(* never give a code of the greatest length, for which assign_bitstrings_  *)
(* to_symbols would go wrong, nor leave a symbol without a code that       *)
(* deflate_compress can write.                                             *)
DeflateLengths ==
    Initialized /\ stage \notin {"start", "leaves", "combine"} =>
        /\ \A s \in Symbols : length[s] < MaxBits
        /\ \A s \in (0..Literals) \cup {LengthIndex(n) : n \in SentLengths} : length[s] > 0

\* What deflate_compress sends of a word.  It is the word preprocessed, as
\* deflate.h says, but for one of four equal bytes whose first byte the
\* preprocessor keeps: that is sent as it is, even if other bytes were masked.
Sent(word) == IF word = Uniform(Preprocess[word][1]) THEN word ELSE Preprocess[word]

(* What deflate_end_block leaves in the buffer, if it fits, is a block that *)
(* decompresses to what is sent of the words deflate_compress says it has   *)
(* read.                                                                    *)
InflatesToInput ==
    stage = "ended" /\ StoredWords(stream) <= stream.limit + 4 =>
        LET read == Decoder!Inflated(Contents(stream))
        IN  read.ok /\ read.out = FlattenSeq([k \in DOMAIN consumed |-> Sent(consumed[k])])
=============================================================================
