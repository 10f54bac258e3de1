------------------------------- MODULE Huffman -------------------------------
(***************************************************************************)
(* huffman_create_alphabet (huffman.c): the lengths of a Huffman code from *)
(* the counts of the symbols, one iteration of each loop a step, and the   *)
(* code of those lengths; and what huffman_write_alphabet writes.          *)
(***************************************************************************)
EXTENDS BitStream, Rfc1951, SequencesExt

CONSTANTS
    Literals,       \* literal symbols: 256; the next one ends the block
    CodeCount,      \* HUFFMAN_CODE_COUNT: 285
    MaxBits,        \* HUFFMAN_MAX_CODE_BITS: 15
    WeightLimit,    \* weights are uint16_t: 2^16
    ZeroBits        \* bits that count a long run of zeros: 7

\* Every code, with the bits that may follow it, is shorter than a word.  The
\* last conjunct is true of any number; the provers have no facts on powers.
ASSUME HuffmanAssumption ==
    /\ Literals \in Nat /\ CodeCount \in Nat /\ CodeCount > Literals + 1
    /\ MaxBits \in 2..15 /\ WeightLimit \in Nat \ {0} /\ ZeroBits \in Nat
    /\ MaxBits + 5 < WordBits /\ ZeroBits < WordBits
    /\ 2^ZeroBits \in Nat \ {0}

Symbols == 0..(CodeCount - 1)

VARIABLES
    stage,          \* what the encoder does next
    weight,         \* nodes[].weight, for the leaves and the nodes made so far
    parent,         \* nodes[].parent
    heap,           \* minheap[], its root first
    length,         \* alphabet.codes[].len
    tooLong,        \* count_too_long_codes
    at,             \* i of the loop over the symbols that is running
    longest,        \* of the one that balances: the symbol of greatest
                    \* length below the maximum
    codes,          \* alphabet.codes[]
    unwritten       \* the codes to be written next by huffman_write_alphabet

tree    == <<weight, parent, heap>>
balance == <<tooLong, at, longest>>
huffmanVars == <<stage, tree, balance, length, codes, unwritten>>

NoNode == -1

HuffmanIdle ==
    /\ weight = << >> /\ parent = << >> /\ heap = << >>
    /\ length = [s \in Symbols |-> 0] /\ codes = [s \in Symbols |-> << >>]
    /\ tooLong = 0 /\ at = 0 /\ longest = 0 /\ unwritten = << >>

-----------------------------------------------------------------------------
(* The heap of nodes, ordered by the weights w.  Entry i is above entries  *)
(* 2 * i and 2 * i + 1.                                                    *)

\* Entry i and those above it.
UpFrom(i) ==
    LET path[j \in 0..i] == IF j = 0 THEN {} ELSE {j} \cup path[j \div 2]
    IN  path[i]

\* The node at entry child goes up as long as the one above it is heavier:
\* those it meets move down.
SiftUp(w, h, child) ==
    LET node     == h[child]
        Rises(i) == i > 1 /\ w[h[i \div 2]] > w[node]
        met      == {i \in UpFrom(child) : \A j \in UpFrom(child) : j > i => Rises(j)}
    IN  [i \in DOMAIN h |-> IF i \notin met THEN h[i]
                            ELSE IF Rises(i) THEN h[i \div 2] ELSE node]

\* (Mutant: the new entry stays where it was appended.)
InsertedLast(w, h, node) == Append(h, node)

\* heap_insert
Inserted(w, h, node) == SiftUp(w, Append(h, node), Len(h) + 1)

\* The root goes down, to the side of the lower weight, unless it is below
\* both: those it meets move up.
SiftDown(w, h) ==
    LET node     == h[1]
        left(i)  == 2 * i
        right(i) == IF 2 * i < Len(h) THEN 2 * i + 1 ELSE 2 * i
        lower(i) == IF w[h[left(i)]] < w[h[right(i)]] THEN left(i) ELSE right(i)
        Sinks(i) == /\ left(i) <= Len(h)
                    /\ ~(w[node] < w[h[left(i)]] /\ w[node] < w[h[right(i)]])
        met      == {i \in DOMAIN h : \A j \in UpFrom(i) \ {1} :
                        Sinks(j \div 2) /\ j = lower(j \div 2)}
    IN  [i \in DOMAIN h |-> IF i \notin met THEN h[i]
                            ELSE IF Sinks(i) THEN h[lower(i)] ELSE node]

\* heap_remove: what is left without the root, where the last entry goes.
Removed(w, h) ==
    SiftDown(w, [i \in 1..(Len(h) - 1) |-> IF i = 1 THEN Last(h) ELSE h[i]])

-----------------------------------------------------------------------------
(* calculate_lengths_from_counts *)

\* The leaves.
StartTree(counts) ==
    /\ weight' = [s \in Symbols |-> counts[s] % WeightLimit]
    /\ parent' = [s \in Symbols |-> NoNode]
    /\ heap' = << >>
    /\ stage' = "leaves"

\* Those with a count go into the heap.
InsertLeaf ==
    /\ stage = "leaves"
    /\ heap' = IF weight[at] > 0 THEN Inserted(weight, heap, at) ELSE heap
    /\ IF at = CodeCount - 1 THEN at' = 0 /\ stage' = "combine"
                             ELSE at' = at + 1 /\ UNCHANGED stage
    /\ UNCHANGED <<weight, parent, tooLong, longest, length, codes, unwritten>>

\* Combine the two nodes of least weight.
Combine ==
    /\ stage = "combine" /\ Len(heap) > 1
    /\ LET first    == heap[1]
           without  == Removed(weight, heap)
           second   == without[1]
           combined == Cardinality(DOMAIN weight)
           w == [n \in 0..combined |->
                    IF n = combined THEN (weight[first] + weight[second]) % WeightLimit
                                    ELSE weight[n]]
       IN  /\ weight' = w
           /\ parent' = [n \in 0..combined |->
                            CASE n = combined -> NoNode
                              [] n \in {first, second} -> combined
                              [] OTHER -> parent[n]]
           /\ heap' = Inserted(w, Removed(weight, without), combined)
    /\ UNCHANGED <<stage, balance, length, codes, unwritten>>

\* The distance of a node from the root of its tree.
Depth[node \in DOMAIN parent] ==
    IF parent[node] = NoNode THEN 0 ELSE 1 + Depth[parent[node]]

\* (Mutant: the lengths are not cut.)
MeasureLengthsUncut ==
    /\ stage = "combine" /\ Len(heap) <= 1
    /\ length' = [s \in Symbols |-> Depth[s]]
    /\ tooLong' = 0 /\ longest' = 0 /\ at' = 1
    /\ stage' = "balance"
    /\ UNCHANGED <<tree, codes, unwritten>>

\* (Mutant: the codes that are cut are not counted.)
MeasureLengthsUncounted ==
    /\ stage = "combine" /\ Len(heap) <= 1
    /\ length' = [s \in Symbols |-> IF Depth[s] > MaxBits THEN MaxBits ELSE Depth[s]]
    /\ tooLong' = 0 /\ longest' = 0 /\ at' = 1
    /\ stage' = "balance"
    /\ UNCHANGED <<tree, codes, unwritten>>

\* The lengths are the depths, as far as the maximum allows.
MeasureLengths ==
    /\ stage = "combine" /\ Len(heap) <= 1
    /\ length' = [s \in Symbols |-> IF Depth[s] > MaxBits THEN MaxBits ELSE Depth[s]]
    /\ tooLong' = Cardinality({s \in Symbols : Depth[s] > MaxBits})
    /\ longest' = 0 /\ at' = 1
    /\ stage' = "balance"
    /\ UNCHANGED <<tree, codes, unwritten>>

\* How much making a code of length l longer by n bits makes up for.
MakesUp(l, n) == 2^(MaxBits - l) - 2^(MaxBits - l - n)

\* One iteration of the for loop.  The longest code below the maximum that
\* has been met is made longer until the codes cut off are made up for, but
\* after one of length MaxBits - 1 is found the search starts again.
Balance ==
    /\ stage = "balance" /\ tooLong > 0
    /\ LET longer == length[at] < MaxBits /\ length[at] > length[longest]
           target == IF longer THEN at ELSE longest
           found  == longer /\ length[at] = MaxBits - 1
           room   == MaxBits - length[target]
           extra  == IF found THEN 0
                     ELSE Min({n \in 0..room : n = room \/ MakesUp(length[target], n) >= tooLong})
           again  == found \/ at = CodeCount - 1
       IN  /\ length' = [length EXCEPT ![target] = @ + extra]
           /\ tooLong' = tooLong - MakesUp(length[target], extra)
           /\ longest' = IF again THEN 0 ELSE target
           /\ at' = IF again THEN 1 ELSE at + 1
    /\ UNCHANGED <<stage, tree, codes, unwritten>>

-----------------------------------------------------------------------------
(* assign_bitstrings_to_symbols.  The loop that finds the first code of    *)
(* each length ends before MaxBits, whose first code so stays 0.           *)

OfLength(l) == {s \in Symbols : length[s] = l}

NextCode[l \in 0..MaxBits] ==
    IF l \in {0, 1, MaxBits} THEN 0
    ELSE 2 * (NextCode[l - 1] + Cardinality(OfLength(l - 1)))

\* (Mutant: the bits are not reversed.)
BitstringForward(s) ==
    Field(NextCode[length[s]] + Cardinality({t \in OfLength(length[s]) : t < s}), length[s])

\* The code of a symbol, its highest bit sent first.
Bitstring(s) ==
    LET value == NextCode[length[s]] + Cardinality({t \in OfLength(length[s]) : t < s})
    IN  [i \in 1..length[s] |-> Bit(value, length[s] - i)]

AssignBitstrings ==
    /\ stage = "balance" /\ tooLong <= 0
    /\ codes' = [s \in Symbols |-> Bitstring(s)]
    /\ stage' = "created"
    /\ UNCHANGED <<tree, balance, length, unwritten>>

\* The distance codes, of 1 and of 4 bytes back.
Distance1 == <<0>>
Distance4 == <<1>>

-----------------------------------------------------------------------------
(* huffman_write_alphabet *)

\* code_length_alphabet: a fixed code for lengths 0 to 15, 16: copy the last
\* length 3-6 times, 17 and 18: repeat 0.
LengthAlphabet ==
    << <<0, 3>>, <<11, 5>>, <<2, 4>>, <<10, 4>>, <<6, 4>>, <<14, 4>>, <<1, 4>>,
       <<9, 4>>, <<5, 4>>, <<13, 4>>, <<3, 4>>, <<27, 5>>, <<7, 5>>, <<23, 5>>,
       <<15, 6>>, <<47, 6>>, <<4, 3>>, <<31, 6>>, <<63, 6>> >>

LengthSymbol(k) == Field(LengthAlphabet[k + 1][1], LengthAlphabet[k + 1][2])

Zigzag == <<16, 17, 18, 0, 8, 7, 9, 6, 10, 5, 11, 4, 12, 3, 13, 2, 14, 1, 15>>

\* The longest run of zeros one code can stand for: 138.
LongestZeros == 11 + 2^ZeroBits - 1

\* Symbols from s on that have the same length.
Repeats(s) ==
    Max({n \in 1..(CodeCount - s) : \A k \in 0..(n - 1) : length[s + k] = length[s]})

\* (Mutant: runs from 7 on are written with the field of two bits.)
CopyCountsWhole(n) == IF n > 3 THEN <<n>> ELSE << >>

\* How the n repetitions of a length that is not 0 are divided into copies,
\* and how many are copied: up to 3 are left for the next iteration.
Sixes(n)      == IF n >= 9 THEN (n - 9) \div 6 + 1 ELSE 0
AfterSixes(n) == n - 6 * Sixes(n)
AfterThree(n) == IF AfterSixes(n) > 6 THEN AfterSixes(n) - 3 ELSE AfterSixes(n)

CopyCounts(n) ==
    [i \in 1..Sixes(n) |-> 6]
    \o (IF AfterSixes(n) > 6 THEN <<3>> ELSE << >>)
    \o (IF AfterThree(n) > 3 THEN <<AfterThree(n)>> ELSE << >>)

Copied(n) == IF AfterThree(n) > 3 THEN n ELSE n - AfterThree(n)

\* Each copy is the symbol 16 and how many there are.
Copies(counts) ==
    [j \in 1..(2 * Len(counts)) |->
        IF j % 2 = 1 THEN LengthSymbol(16) ELSE Field(counts[j \div 2] - 3, 2)]

\* One iteration of the loop over the lengths: the codes that describe those
\* from symbol s on, and how many they describe.
Run(s) ==
    LET n     == Repeats(s)
        zeros == IF n > LongestZeros THEN LongestZeros ELSE n
        Of(list, symbols) == [codes |-> list, symbols |-> symbols]
    IN  CASE n < 3 -> Of(<<LengthSymbol(length[s])>>, 1)
          [] n \in 3..10 /\ length[s] = 0 -> Of(<<LengthSymbol(17), Field(n - 3, 3)>>, n)
          [] n > 10 /\ length[s] = 0 -> Of(<<LengthSymbol(18), Field(zeros - 11, ZeroBits)>>, zeros)
          [] OTHER -> Of(<<LengthSymbol(length[s])>> \o Copies(CopyCounts(n - 1)),
                         1 + Copied(n - 1))

\* What comes before the lengths: how many there are of each kind, and the
\* code they are written in.
Header ==
    <<Field(CodeCount - Literals - 1, 5), Field(4 - 1, 5), Field(19 - 4, 4)>>
    \o [i \in 1..19 |-> Field(LengthAlphabet[Zigzag[i] + 1][2], 3)]

DescribeLengths ==
    /\ stage = "describe" /\ unwritten = << >> /\ at < CodeCount
    /\ unwritten' = Run(at).codes
    /\ at' = at + Run(at).symbols
    /\ UNCHANGED <<stage, tree, tooLong, longest, length, codes>>

\* After them, the lengths of the distance codes.
DescribeDistances ==
    /\ stage = "describe" /\ unwritten = << >> /\ at = CodeCount
    /\ unwritten' = <<LengthSymbol(1), LengthSymbol(0), LengthSymbol(0), LengthSymbol(1)>>
    /\ stage' = "described"
    /\ UNCHANGED <<tree, balance, length, codes>>

-----------------------------------------------------------------------------
Used == {s \in Symbols : weight[s] > 0}

\* The least total of weights times lengths, for a bag of weights given as
\* a sequence.
LeastCost[bag \in Seq(Nat)] ==
    IF Len(bag) < 2 THEN 0
    ELSE LET s == SortSeq(bag, <)
             w == s[1] + s[2]
         IN  w + LeastCost[<<w>> \o SubSeq(s, 3, Len(s))]

\* calculate_lengths_from_counts finds the lengths that encode the counted
\* symbols in the fewest bits, and none for a symbol that does not occur, if
\* no length had to be cut and the counts add up in 16 bits.
LengthsOptimal ==
    (/\ stage = "balance" /\ tooLong = 0
     /\ SumOf([i \in 1..CodeCount |-> weight[i - 1]], CodeCount) < WeightLimit
     /\ \A s \in Symbols : Depth[s] <= MaxBits) =>
        /\ \A s \in Symbols : length[s] > 0 => s \in Used
        /\ SumOf([i \in 1..CodeCount |-> weight[i - 1] * length[i - 1]], CodeCount)
            = LeastCost[SelectSeq([i \in 1..CodeCount |-> weight[i - 1]], LAMBDA w : w > 0)]

\* The share of all codes of MaxBits bits that one of length l takes up, and
\* that all codes take up.
Share(l) == IF l = 0 THEN 0 ELSE 2^(MaxBits - l)
Taken    == SumOf([i \in 1..CodeCount |-> Share(length[i - 1])], CodeCount)

\* Once the lengths are balanced there is a prefix code with these lengths,
\* however many were cut off, for alphabets in which symbol 0 occurs.  The
\* search for the longest code starts there, and lengthens symbol 0 even if
\* it has no code.
KraftHolds == stage = "created" /\ 0 \in Used => Taken <= 2^MaxBits

NoneIsPrefix ==
    \A s, t \in Symbols : s # t /\ length[s] > 0 /\ length[t] > 0 =>
        ~IsPrefix(codes[s], codes[t])

\* No code is the beginning of another, if none has the greatest length.
PrefixFree ==
    stage = "created" /\ (\A s \in Symbols : length[s] < MaxBits) => NoneIsPrefix

\* The codes are those that a decoder takes from the lengths, if none has the
\* greatest length.
CodesCanonical ==
    stage = "created" /\ (\A s \in Symbols : length[s] < MaxBits) =>
        \A s \in Symbols : codes[s] = CanonicalCode([i \in 1..CodeCount |-> length[i - 1]], s + 1)

\* The two trees that are combined are no heavier than those left.
LightestCombined ==
    [][stage = "combine" /\ stage' = "combine" =>
        \A i, j \in DOMAIN heap :
            parent'[heap[i]] # NoNode /\ parent'[heap[j]] = NoNode =>
                weight[heap[i]] <= weight[heap[j]]]_huffmanVars
=============================================================================
