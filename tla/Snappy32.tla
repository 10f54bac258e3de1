------------------------------ MODULE Snappy32 ------------------------------
(***************************************************************************)
(* The compressor of digital packets (snappy32.c), one loop iteration of   *)
(* snappy_compress a step, together with a decoder that follows it element *)
(* by element as the Snappy format prescribes.                             *)
(*                                                                         *)
(* An element is a literal block or a copy of words seen before; of its    *)
(* bytes the model keeps the count.  Positions count words of input or     *)
(* bytes of output, from 0 as in the code.  What lies in memory past the   *)
(* wordcount words of input is part of data, since the code looks at it.   *)
(***************************************************************************)
EXTENDS Integers, Sequences

CONSTANTS
    Words,          \* the values of a 32-bit word
    Complement,     \* ~w
    Preprocess,     \* the preprocessor: quadspi_preprocess, with or without mask
    Keys, Hash,     \* SNAPPY_HASH
    CopyWords,      \* words in the longest copy: 16
    LiteralWords,   \* words in the longest literal block: 15
    ShortDelta,     \* copies from nearer than this take 2 bytes: 512
    OffsetLimit,    \* the words a 16-bit byte offset can reach back: 2^14
    HistoryLimit,   \* the history keeps positions in 16 bits: 2^16
    Invalid,        \* what a decoder makes of a copy from nowhere
    LengthLimit,    \* the 21-bit length prefix counts fewer words: 2^19
    Runover,        \* SNAPPY_RUNOVER_LEN: 16
    BufLens,        \* bound: sizes of output buffer
    WordCounts,     \* bound: sizes of input
    MaxCalls,       \* bound: calls of snappy_compress for one packet
    StaleHistory    \* bound: what the history may hold, never initialized

ASSUME SnappyAssumption ==
    /\ Complement \in [Words -> Words]
    /\ \A w \in Words : Complement[w] # w
    /\ DOMAIN Preprocess = Words
    /\ Hash \in [Words -> Keys]
    /\ CopyWords \in Nat /\ CopyWords >= 3
    /\ LiteralWords \in Nat /\ LiteralWords >= 2
    /\ OffsetLimit \in Nat \ {0} /\ HistoryLimit \in Nat \ {0}
    /\ ShortDelta \in 0..OffsetLimit /\ LengthLimit \in Nat \ {0}
    /\ \A w \in Words : Preprocess[w] # Invalid
    /\ Runover \in Nat /\ Runover >= 6
    /\ WordCounts \subseteq Nat \ {0}
    /\ BufLens \subseteq Nat /\ \A n \in BufLens : n > Runover + 3
    /\ StaleHistory \subseteq 0..HistoryLimit - 1
    /\ MaxCalls \in Nat

VARIABLES
    pc,             \* "ready" between calls, "loop" inside one, "finished"
    data,           \* the input of this call and what follows it in memory
    wordcount,      \* words in it
    index,          \* words of it compressed
    prev,           \* prev_word
    history,        \* state->history
    literal,        \* words of the literal block whose tag is still open
    wrpos,          \* bytes written, the 3 reserved for the length included
    endpos,         \* where to stop writing
    uncompressed,   \* state->uncompressed_len, in words
    prefix,         \* the length snappy_finish writes, in words
    calls,          \* calls of snappy_compress
    consumed,       \* words consumed by earlier calls, preprocessed
    decoded,        \* what the decoder has produced
    copyDelta,      \* the decoder's current copy: its distance,
    copyLeft        \* and the words it has still to produce

input   == <<data, wordcount>>
caller  == <<calls, consumed, uncompressed, prefix>>
decoder == <<decoded, copyDelta, copyLeft>>
vars == <<pc, input, index, prev, history, literal, wrpos, endpos, caller, decoder>>

-----------------------------------------------------------------------------
\* snappy_init.  It leaves the history, a local variable of the thread, as
\* it was.
Init ==
    /\ pc = "ready"
    /\ data = << >> /\ wordcount = 0 /\ index = 0
    /\ prev \in Words
    /\ history \in [Keys -> StaleHistory]
    /\ literal = << >>
    /\ wrpos = 3
    /\ endpos \in {n - Runover : n \in BufLens}
    /\ uncompressed = 0 /\ prefix = 0 /\ calls = 0 /\ consumed = << >>
    /\ decoded = << >> /\ copyDelta = 1 /\ copyLeft = 0

\* A call of snappy_compress; it returns 0 at once, and changes nothing, if
\* the length could exceed the prefix.
SnappyCompress ==
    /\ pc = "ready" /\ calls < MaxCalls
    /\ \E n \in WordCounts :
        /\ uncompressed + n < LengthLimit
        /\ wordcount' = n
        /\ data' \in [0..(n + CopyWords - 1) -> Words]
    /\ index' = 0
    /\ prev' = Complement[data'[0]]
    /\ calls' = calls + 1
    /\ pc' = "loop"
    /\ UNCHANGED <<history, literal, wrpos, endpos, consumed, uncompressed, prefix, decoder>>

\* The condition of the loop.  (The decoder has caught up.)
Continue == index < wordcount /\ wrpos < endpos

Iterating == pc = "loop" /\ copyLeft = 0 /\ Continue

\* Write a copy of n words from delta words back in the given bytes; this
\* ends an open literal block, whose tag is filled in.
Copy(delta, n, bytes) ==
    /\ decoded' = decoded \o literal
    /\ literal' = << >>
    /\ copyDelta' = delta /\ copyLeft' = n
    /\ wrpos' = wrpos + bytes

\* n words of input from position i on are prev_word.
AllPrev(i, n) == \A j \in 0..(n - 1) : data[i + j] = prev

(* The current word repeats the one before it. *)
Repeating == Iterating /\ data[index] = prev

RepeatOnce ==
    /\ Repeating
    /\ ~(index + 1 < wordcount /\ data[index + 1] = prev)
    /\ Copy(1, 1, 2)
    /\ index' = index + 1
    /\ UNCHANGED <<pc, input, prev, history, endpos, caller>>

RepeatTwice ==
    /\ Repeating
    /\ index + 1 < wordcount /\ data[index + 1] = prev
    /\ ~(index + 2 < wordcount /\ data[index + 2] = prev)
    /\ Copy(1, 2, 2)
    /\ index' = index + 2
    /\ UNCHANGED <<pc, input, prev, history, endpos, caller>>

\* r more words repeat; how many is not looked into near the end of the input.
ReplenIs(r) ==
    /\ index + 2 < wordcount /\ AllPrev(index + 1, 2)
    /\ IF index + CopyWords >= wordcount
       THEN r = 1
       ELSE /\ r \in 2..(CopyWords - 1) /\ AllPrev(index + 1, r)
            /\ r < CopyWords - 1 => data[index + 1 + r] # prev

\* After a copy of full length, another CopyWords words repeat.
RunGoesOn(i) == i + CopyWords <= wordcount /\ AllPrev(i, CopyWords)

RepeatMore ==
    /\ Repeating
    /\ \E r \in 1..(CopyWords - 1) :
        /\ ReplenIs(r)
        /\ ~(r = CopyWords - 1 /\ RunGoesOn(index + 1 + r))
        /\ Copy(1, r + 1, 3)
        /\ index' = index + r + 1
    /\ UNCHANGED <<pc, input, prev, history, endpos, caller>>

\* (Mutant: the inner loop does not look at the end of the output buffer.)
RunLimitInput(i, w) == (wordcount - i) \div CopyWords

\* maxcount: how many further copies the input and the output allow, the
\* next word being number i and the next byte number w.
RunLimit(i, w) ==
    LET byInput  == (wordcount - i) \div CopyWords
        byOutput == (endpos - w) \div 3
    IN  IF byOutput < byInput THEN byOutput ELSE byInput

\* A long run: one copy of full length, a second one, and k more.
RepeatRun ==
    /\ Repeating
    /\ ReplenIs(CopyWords - 1) /\ RunGoesOn(index + CopyWords)
    /\ LET next  == index + 2 * CopyWords
           limit == RunLimit(next, wrpos + 6)
       IN  \E k \in 0..(wordcount \div CopyWords) :
            /\ k = 0 \/ k <= limit
            /\ AllPrev(next, k * CopyWords)
            /\ k < limit => ~AllPrev(next + k * CopyWords, CopyWords)
            /\ Copy(1, (k + 2) * CopyWords, 3 * (k + 2))
            /\ index' = next + k * CopyWords
    /\ UNCHANGED <<pc, input, prev, history, endpos, caller>>

-----------------------------------------------------------------------------
(* It does not.  Look it up in the history, and enter it there. *)
NewWord == Iterating /\ data[index] # prev

Offset == history[Hash[data[index]]]

\* The position is stored in a uint16_t.
Remember == history' = [history EXCEPT ![Hash[data[index]]] = index % HistoryLimit]

Found == Offset < index /\ data[Offset] = data[index]

\* The n words from index on equal those from Offset on, and the next one
\* does not unless n is the most a copy can hold.  The code compares them
\* without regard to the end of the input.
MatchIs(n) ==
    /\ \A j \in 0..(n - 1) : data[index + j] = data[Offset + j]
    /\ n < CopyWords => data[index + n] # data[Offset + n]

\* (Mutant: prev_word stays the first word of the copy.)
LastOfCopyFirst(n) == data[index]

\* What prev_word becomes after a copy of n words.
LastOfCopy(n) == data[index + n - 1]

\* (Mutant: every match of two words gets the short form.)
WriteCopyShort(delta, n) ==
    IF n <= 2 THEN Copy(delta % ShortDelta, n, 2) ELSE Copy(delta % OffsetLimit, n, 3)

\* The offset in bytes goes into 11 bits or, shifted, into 16.
WriteCopy(delta, n) ==
    IF n <= 2 /\ delta < ShortDelta
    THEN Copy(delta, n, 2)
    ELSE Copy(delta % OffsetLimit, n, 3)

BackReference ==
    /\ NewWord /\ Found
    /\ \E n \in 1..CopyWords :
        /\ MatchIs(n)
        /\ WriteCopy(index - Offset, n)
        /\ index' = index + n
        /\ prev' = LastOfCopy(n)
    /\ Remember
    /\ UNCHANGED <<pc, input, endpos, caller>>

\* A literal word, and the tag of its block before the first one.  A full
\* block is ended at once.
Literal ==
    /\ NewWord /\ ~Found
    /\ LET block == Append(literal, Preprocess[data[index]])
       IN  IF Len(block) = LiteralWords
           THEN decoded' = decoded \o block /\ literal' = << >>
           ELSE decoded' = decoded /\ literal' = block
    /\ wrpos' = wrpos + (IF literal = << >> THEN 5 ELSE 4)
    /\ index' = index + 1
    /\ prev' = data[index]
    /\ Remember
    /\ UNCHANGED <<pc, input, endpos, caller, copyDelta, copyLeft>>

-----------------------------------------------------------------------------
\* The input words before position n, preprocessed.
Read(n) == [k \in 1..n |-> Preprocess[data[k - 1]]]

\* End of the loop: end an open literal block and return the words consumed.
Return ==
    /\ pc = "loop" /\ copyLeft = 0 /\ ~Continue
    /\ decoded' = decoded \o literal
    /\ literal' = << >>
    /\ uncompressed' = uncompressed + index
    /\ consumed' = consumed \o Read(index)
    /\ index' = 0 /\ data' = << >> /\ wordcount' = 0
    /\ pc' = "ready"
    /\ UNCHANGED <<prev, history, wrpos, endpos, calls, prefix, copyDelta, copyLeft>>

\* snappy_finish
SnappyFinish ==
    /\ pc = "ready" /\ calls > 0
    /\ prefix' = uncompressed % LengthLimit
    /\ pc' = "finished"
    /\ UNCHANGED <<input, index, prev, history, literal, wrpos, endpos, calls,
                   consumed, uncompressed, decoder>>

\* The decoder produces the next word of a copy.
DecodeWord ==
    /\ copyLeft > 0
    /\ decoded' = Append(decoded, IF copyDelta \in 1..Len(decoded)
                                  THEN decoded[Len(decoded) + 1 - copyDelta]
                                  ELSE Invalid)
    /\ copyLeft' = copyLeft - 1
    /\ UNCHANGED <<pc, input, index, prev, history, literal, wrpos, endpos, caller, copyDelta>>

Next ==
    \/ SnappyCompress \/ SnappyFinish \/ Return
    \/ RepeatOnce \/ RepeatTwice \/ RepeatMore \/ RepeatRun
    \/ BackReference \/ Literal
    \/ DecodeWord

Spec == Init /\ [][Next]_vars

-----------------------------------------------------------------------------
\* No call is for more words than an offset reaches back.
ShortCalls == \A n \in WordCounts : n <= OffsetLimit

(* Decompressing what snappy_compress has written gives the preprocessed   *)
(* words it says it has consumed, whatever the data, the preprocessor and  *)
(* the stale history; and snappy_finish announces their number, as long as *)
(* its 21 bits can.  (It holds only of short calls.)                       *)
RoundTrip ==
    /\ pc \in {"ready", "finished"} => decoded = consumed
    /\ pc = "finished" /\ Len(decoded) < LengthLimit => prefix = Len(decoded)

\* All stores of snappy_compress are inside the output buffer, although it
\* compares wrpos with endpos only once per iteration: a store reaches at
\* most one byte past the new wrpos, when 4 bytes are stored for 3.
StoresInBuffer == wrpos + 1 <= endpos + Runover

\* What snappy32.h says: "Compresses up to wordcount on input".
ConsumedInInput == index <= wordcount
-----------------------------------------------------------------------------
(* The inductive invariant behind RoundTrip. *)

Outputs == {Preprocess[w] : w \in Words}

TypeOK ==
    /\ pc \in {"ready", "loop", "finished"}
    /\ index \in Nat /\ prev \in Words
    /\ pc = "loop" => /\ wordcount \in Nat \ {0}
                      /\ wordcount <= OffsetLimit
                      /\ data \in [0..(wordcount + CopyWords - 1) -> Words]
    /\ history \in [Keys -> Nat]
    /\ literal \in Seq(Outputs) /\ consumed \in Seq(Outputs)
    /\ decoded \in Seq(Outputs)
    /\ copyDelta \in Nat /\ copyLeft \in Nat
    /\ wrpos \in Nat /\ endpos \in Nat
    /\ calls \in Nat /\ uncompressed \in Nat /\ prefix \in Nat

\* What the decoder should produce as word number k.
Expected(k) == IF k <= Len(consumed) THEN consumed[k]
               ELSE Preprocess[data[k - Len(consumed) - 1]]

\* Inside a call the decoder has produced what it should, and the words of
\* its current copy and of the open literal block make up the rest.
LoopInv ==
    /\ index < wordcount + CopyWords
    /\ index > 0 => prev = data[index - 1]
    /\ index = 0 => prev # data[0]
    /\ Len(decoded) + copyLeft + Len(literal) = Len(consumed) + index
    /\ \A k \in 1..Len(decoded) : decoded[k] = Expected(k)
    /\ \A k \in 1..Len(literal) : literal[k] = Expected(Len(decoded) + k)
    /\ copyLeft > 0 =>
        /\ literal = << >>
        /\ copyDelta \in 1..Len(decoded)
        /\ \A k \in (Len(decoded) + 1)..(Len(decoded) + copyLeft) :
                Expected(k) = Expected(k - copyDelta)

\* Between calls everything written has been decoded.
ReadyInv ==
    /\ index = 0 /\ copyLeft = 0 /\ literal = << >>
    /\ decoded = consumed
    /\ pc = "finished" => prefix = uncompressed % LengthLimit

SnappyInv ==
    /\ TypeOK
    /\ IF pc = "loop" THEN LoopInv ELSE ReadyInv
    /\ uncompressed = Len(consumed)
    /\ wrpos <= endpos + 5

\* What StoresInBuffer needs of it, for calls of any size.
BufferInv ==
    /\ index \in Nat /\ wordcount \in Nat
    /\ wrpos \in Nat /\ endpos \in Nat /\ wrpos <= endpos + 5
=============================================================================
