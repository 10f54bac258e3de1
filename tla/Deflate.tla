------------------------------- MODULE Deflate -------------------------------
(***************************************************************************)
(* The run-length encoder over the Huffman code (deflate.c), one iteration *)
(* of the loop of deflate_compress a step.  A word is a tuple of its four  *)
(* bytes, the lowest first.  The caller makes an alphabet from some words  *)
(* and then compresses others, or calls huffman_create_alphabet on counts  *)
(* of its own as huffman_tests.c does.                                     *)
(***************************************************************************)
EXTENDS Huffman

CONSTANTS
    Words,          \* the words of the input
    Zero,           \* the word 0
    FirstInvalid,   \* the word 0xFFFF, first in the cache entry of Zero
    Preprocess,     \* state->preprocessor
    Keys, Hash,     \* DEFLATE_HASH
    MaxRepeat,      \* HUFFMAN_MAX_REPEAT_LEN: 257
    CombinedBits,   \* COMBINED_CODE_BITS: 27
    Samples,        \* words sampled for the counts: 256
    Trainings,      \* bound: words given to deflate_init
    Counts,         \* bound: counts given to huffman_create_alphabet
    BufferWords,    \* bound: sizes of the output buffer
    Inputs          \* bound: what each call may be given to compress

Uniform(b) == <<b, b, b, b>>

\* The preprocessor is idempotent, as deflate.h asks for, and no more.
ASSUME DeflateAssumption ==
    /\ Words \subseteq [1..4 -> 0..(Literals - 1)]
    /\ {Zero, FirstInvalid} \subseteq Words /\ Zero = Uniform(0)
    /\ Preprocess \in [Words -> [1..4 -> 0..(Literals - 1)]]
    /\ \A v, w \in Words : Preprocess[v] = w => Preprocess[w] = w
    /\ Hash \in [Words -> Keys] /\ Hash[FirstInvalid] # Hash[Zero]
    /\ MaxRepeat \in 13..257 /\ CombinedBits \in 0..(WordBits - 1)
    /\ Samples \in Nat \ {0}
    /\ \A words \in Trainings : words \in Seq(Words)
    /\ Counts \subseteq [Symbols -> Nat]
    /\ \A n \in BufferWords : n \in Nat /\ n > 4
    /\ Inputs \in Seq(SUBSET (Seq(Words) \ {<< >>}))

VARIABLES
    cache,          \* state->cache; << >> before deflate_init
    stream,         \* state->stream
    data,           \* the input of the current call
    index,          \* words of it read
    prev,           \* prev_word
    space,          \* space_remain
    calls,          \* calls of deflate_compress
    consumed        \* the words read by all calls

input  == <<data, index, prev, space>>
vars == <<huffmanVars, cache, stream, input, calls, consumed>>

NoWord == << >>

Init ==
    /\ stage = "start" /\ HuffmanIdle
    /\ cache = << >>
    /\ stream = NewStream(0)
    /\ data = << >> /\ index = 0 /\ prev = NoWord /\ space = TRUE
    /\ calls = 0 /\ consumed = << >>

-----------------------------------------------------------------------------
(* Symbols for the lengths of repetitions, with the bits that follow them. *)

\* (Mutant: the fourth branch starts one late.)
BranchLate(n) ==
    CASE n < 11  -> <<3, 1, 0>>
      [] n \in 11..18  -> <<11, 9, 1>>
      [] n \in 19..35  -> <<19, 13, 2>>
      [] n \in 36..66  -> <<35, 17, 3>>
      [] n \in 67..130 -> <<67, 21, 4>>
      [] n > 130       -> <<131, 25, 5>>

\* What each branch of repeat_length_code_index takes off: the first length
\* of the branch, its first symbol, and how many bits follow.
Branch(n) ==
    CASE n < 11  -> <<3, 1, 0>>
      [] n \in 11..18  -> <<11, 9, 1>>
      [] n \in 19..34  -> <<19, 13, 2>>
      [] n \in 35..66  -> <<35, 17, 3>>
      [] n \in 67..130 -> <<67, 21, 4>>
      [] n > 130       -> <<131, 25, 5>>

\* repeat_length_code_index
LengthIndex(n) == Literals + Branch(n)[2] + (n - Branch(n)[1]) \div 2^Branch(n)[3]

\* Every length of a repetition has a symbol.
ASSUME LengthAssumption ==
    \A n \in 1..MaxRepeat : 4 * (n - 1) <= MaxRepeat - 4 => LengthIndex(4 * n) \in Symbols

\* repeat_length_code
LengthCode(n) == codes[LengthIndex(n)] \o Field(n - Branch(n)[1], Branch(n)[3])

-----------------------------------------------------------------------------
(* deflate_init *)

\* The lengths the encoder uses get a count: 3 and the multiples of 4.
UsedLengths == {3} \cup {n \in 4..(MaxRepeat - 1) : n % 4 = 0}

InitialCounts ==
    [s \in Symbols |-> IF s <= Literals \/ s \in {LengthIndex(n) : n \in UsedLengths}
                       THEN 1 ELSE 0]

\* The symbols one sampled word counts: its bytes, or one and a repetition;
\* and a repetition of this word if it follows, preprocessed, on itself.
SymbolsOf(words, i) ==
    LET word == Preprocess[words[i + 1]]
        run  == Max({n \in 0..4 : \A k \in 1..n : words[i + 1 - k] = word})
    IN  (IF word = Uniform(word[1]) THEN <<word[1], LengthIndex(3)>> ELSE word)
        \o (IF run \in 1..3 THEN <<LengthIndex(4 * run)>> ELSE << >>)

\* (Mutant: up to twice as many words are sampled.)
SampleStepHalved(words) == Len(words) \div (2 * Samples) + 1

SampleStep(words) == Len(words) \div Samples + 1

Counted(words) ==
    LET sampled == {i \in 4..(Len(words) - 1) : (i - 4) % SampleStep(words) = 0}
        Is(i, k, s) == k \in DOMAIN SymbolsOf(words, i) /\ SymbolsOf(words, i)[k] = s
    IN  [s \in Symbols |-> InitialCounts[s]
            + Cardinality({p \in sampled \X (1..5) : Is(p[1], p[2], s)})]

\* (Mutant: all entries are cleared alike.)
EmptyCacheZeros == [k \in Keys |-> [literal |-> Zero, code |-> << >>]]

\* The cache holds nothing: entries of 0 are never looked up for another
\* word, and the entry where 0 belongs gets another word.
EmptyCache ==
    [k \in Keys |-> [literal |-> IF k = Hash[Zero] THEN FirstInvalid ELSE Zero,
                     code    |-> << >>]]

DeflateInit ==
    /\ stage = "start"
    /\ \E words \in Trainings : StartTree(Counted(words))
    /\ cache' = EmptyCache
    /\ UNCHANGED <<balance, length, codes, unwritten, stream, input, calls, consumed>>

\* huffman_create_alphabet, called for its own sake: no cache is set up.
CreateAlphabet ==
    /\ stage = "start"
    /\ \E counts \in Counts : StartTree(counts)
    /\ UNCHANGED <<balance, length, codes, unwritten, cache, stream, input, calls, consumed>>

\* The loops of huffman_create_alphabet and huffman_write_alphabet.
HuffmanStep ==
    /\ InsertLeaf \/ Combine \/ MeasureLengths \/ Balance \/ AssignBitstrings
       \/ DescribeLengths \/ DescribeDistances
    /\ UNCHANGED <<cache, stream, input, calls, consumed>>

Initialized == cache # << >>

-----------------------------------------------------------------------------
\* Write codes and look only at the result of the last write.
Write(list) ==
    LET before == PutFirst(stream, list, Len(list) - 1)
        after  == Put(before, list[Len(list)])
    IN  stream' = after /\ space' = HasRoom(before, after)

\* Write codes and look at no result.
WriteBlindly(list) == stream' = PutFirst(stream, list, Len(list))

\* deflate_start_block: 4 words of the buffer are kept back.  The codes of the
\* alphabet are written one by one.
StartBlock ==
    /\ stage = "created"
    /\ \E n \in BufferWords : stream' = NewStream(n - 4)
    /\ unwritten' = <<Field(5, 3)>> \o Header
    /\ at' = 0
    /\ stage' = "describe"
    /\ UNCHANGED <<tree, tooLong, longest, length, codes, cache, input, calls, consumed>>

WriteCode ==
    /\ stage \in {"describe", "described"} /\ unwritten # << >>
    /\ WriteBlindly(<<Head(unwritten)>>)
    /\ unwritten' = Tail(unwritten)
    /\ stage' = IF stage = "described" /\ Tail(unwritten) = << >> THEN "ready" ELSE stage
    /\ UNCHANGED <<tree, balance, length, codes, cache, input, calls, consumed>>

\* A call of deflate_compress.  prev_word starts as ~data[0], which only has
\* to differ from data[0].
DeflateCompress ==
    /\ stage = "ready" /\ Initialized /\ calls < Len(Inputs)
    /\ data' \in Inputs[calls + 1]
    /\ index' = 0 /\ prev' = NoWord /\ space' = TRUE
    /\ calls' = calls + 1
    /\ stage' = "loop"
    /\ UNCHANGED <<tree, balance, length, codes, unwritten, cache, stream, consumed>>

Continue == index < Len(data) /\ space

Iterating == stage = "loop" /\ Continue

Word == data[index + 1]

\* n words from the current one on repeat, and no more, or a repetition can
\* be no longer.
RunIs(n) ==
    /\ index + n <= Len(data)
    /\ \A k \in 1..n : data[index + k] = prev
    /\ 4 * (n - 1) <= MaxRepeat - 4
    /\ (index + n < Len(data) /\ data[index + n + 1] = prev) => 4 * n > MaxRepeat - 4

\* The current word is the one before: count how many repeat.
CompressRepeat ==
    /\ Iterating /\ Word = prev
    /\ \E n \in 1..Len(data) :
        /\ RunIs(n)
        /\ Write(<<LengthCode(4 * n), Distance4>>)
        /\ index' = index + n
    /\ UNCHANGED <<huffmanVars, cache, data, prev, calls, consumed>>

InCache(w) == cache[Hash[w]].literal = w

CompressCached ==
    /\ Iterating /\ Word # prev /\ InCache(Word)
    /\ Write(<<cache[Hash[Word]].code>>)
    /\ index' = index + 1 /\ prev' = Word
    /\ UNCHANGED <<huffmanVars, cache, data, calls, consumed>>

\* The codes of a word: of one byte and three repetitions of it, or of four.
CodesOf(w) ==
    LET bytes == Preprocess[w]
    IN  IF w = Uniform(bytes[1])
        THEN <<codes[bytes[1]], codes[Literals + 1], Distance1>>
        ELSE [k \in 1..4 |-> codes[bytes[k]]]

\* huffman_code_append, for up to four codes.
Joined(list) ==
    LET Code(k) == IF k <= Len(list) THEN list[k] ELSE << >>
    IN  Code(1) \o Code(2) \o Code(3) \o Code(4)

\* They are joined and cached if they fit in huffman_code_t.
CompressWord ==
    /\ Iterating /\ Word # prev /\ ~InCache(Word)
    /\ LET joined == Joined(CodesOf(Word))
       IN  IF Len(joined) <= CombinedBits
           THEN /\ Write(<<joined>>)
                /\ cache' = [cache EXCEPT ![Hash[Word]] = [literal |-> Word, code |-> joined]]
           ELSE Write(CodesOf(Word)) /\ UNCHANGED cache
    /\ index' = index + 1 /\ prev' = Word
    /\ UNCHANGED <<huffmanVars, data, calls, consumed>>

\* deflate_compress returns the number of words read.
CompressReturn ==
    /\ stage = "loop" /\ ~Continue
    /\ consumed' = consumed \o [k \in 1..index |-> data[k]]
    /\ stage' = "ready"
    /\ data' = << >> /\ index' = 0 /\ prev' = NoWord
    /\ UNCHANGED <<tree, balance, length, codes, unwritten, cache, stream, space, calls>>

\* deflate_end_block: the end of the block, and 0 bits to fill the word.  The
\* field for the length has 5 bits: 32 of them, for an empty word, are none.
EndBlock ==
    /\ stage = "ready" /\ calls > 0
    /\ LET ended == Put(stream, codes[Literals])
       IN  WriteBlindly(<<codes[Literals], Field(0, (WordBits - ended.used) % WordBits)>>)
    /\ stage' = "ended"
    /\ UNCHANGED <<tree, balance, length, codes, unwritten, cache, input, calls, consumed>>

Next ==
    \/ DeflateInit \/ CreateAlphabet \/ HuffmanStep
    \/ StartBlock \/ WriteCode \/ DeflateCompress \/ CompressReturn \/ EndBlock
    \/ CompressRepeat \/ CompressCached \/ CompressWord

Spec == Init /\ [][Next]_vars

-----------------------------------------------------------------------------
Codes == Seq({0, 1})

TypeOK ==
    /\ stage \in {"start", "leaves", "combine", "balance", "created",
                  "describe", "described", "ready", "loop", "ended"}
    /\ length \in [Symbols -> 0..MaxBits] /\ codes \in [Symbols -> Codes]
    /\ stage # "start" =>
        /\ DOMAIN weight = DOMAIN parent
        /\ \A n \in DOMAIN weight :
            /\ weight[n] \in 0..(WeightLimit - 1)
            /\ parent[n] \in {NoNode} \cup (DOMAIN parent \ Symbols)
        /\ heap \in Seq(DOMAIN weight)
    /\ longest \in Symbols /\ at \in 0..CodeCount
    /\ unwritten \in Seq(Codes)
    /\ stream.out \in Seq(MachineWords) /\ stream.buf \in MachineWords
    /\ stream.used \in Positions
    /\ index \in 0..Len(data) /\ space \in BOOLEAN

(* The symbols and extra bits of repeat_length_code mean the length they   *)
(* were asked for, by the tables of RFC 1951, for every length a           *)
(* repetition can have in the code.                                        *)
LengthCodesAgree ==
    stage = "start" => \A n \in 3..257 :
        LET s == LengthIndex(n) - Literals
        IN  /\ Branch(n)[3] = LengthExtra[s]
            /\ n - LengthBase[s] = (n - Branch(n)[1]) % 2^Branch(n)[3]

(* A word found in the cache has the code it would be given without one,   *)
(* although the entries of the cache start out uninitialized or invalid.   *)
CacheValid ==
    Initialized /\ stage \in {"ready", "loop"} =>
        \A w \in Words : InCache(w) => cache[Hash[w]].code = Joined(CodesOf(w))

(* deflate.h says that deflate_compress reads its input until the buffer   *)
(* has less than 4 words remaining, so that it never stores behind it.     *)
StaysInBuffer == stage = "loop" => StoredWords(stream) <= stream.limit + 4
=============================================================================
