------------------------------ MODULE BitStream ------------------------------
(***************************************************************************)
(* The stream of bits of the deflate encoder (huffman.h).  A code is given *)
(* as the sequence of its bits, the lowest first, which is the order they  *)
(* are sent in; huffman_code_append is concatenation.  A machine word is   *)
(* the function that gives the bit at each position, and the shifts of     *)
(* bitstream_write are shifts of words.                                    *)
(***************************************************************************)
EXTENDS Integers, Sequences

CONSTANT WordBits       \* bits in a word of the output: 32

ASSUME WordBitsAssumption == WordBits \in Nat \ {0}

Bit(v, i) == IF (v \div 2^i) % 2 = 0 THEN 0 ELSE 1

\* The low n bits of v, as the initializers of huffman_code_t give them.
Field(v, n) == [i \in 1..n |-> Bit(v, i - 1)]

-----------------------------------------------------------------------------
(* Words, and the operators of C on them. *)

Positions == 0..(WordBits - 1)
MachineWords == [Positions -> {0, 1}]

ZeroWord == [p \in Positions |-> 0]

\* a | b
Or(a, b) == [p \in Positions |-> IF a[p] = 1 \/ b[p] = 1 THEN 1 ELSE 0]

\* w << n and w >> n: bits shifted out are gone, and zeros come in.
ShiftLeft(w, n)  == [p \in Positions |-> IF p >= n THEN w[p - n] ELSE 0]
ShiftRight(w, n) == [p \in Positions |-> IF p + n < WordBits THEN w[p + n] ELSE 0]

\* C leaves it open what a shift by less than 0 or more than 31 bits does.
\* The processors Makefile.tests builds for take the count modulo 32.
ShiftCount(n) == n % WordBits

\* The field bits of a huffman_code_t.
BitsOf(code) == [p \in Positions |-> IF p < Len(code) THEN code[p + 1] ELSE 0]

-----------------------------------------------------------------------------
\* bitstream_init.  out is what has been stored before wr_pos, used is
\* bits_in_buf, and limit is the number of words up to end_pos.
NewStream(words) == [out |-> << >>, buf |-> ZeroWord, used |-> 0, limit |-> words]

\* Words stored so far, within the buffer or behind it.
StoredWords(s) == Len(s.out)

\* (Mutant: what did not fit is shifted by how much did not fit.)
PutRest(s, code) ==
    LET buf  == Or(s.buf, ShiftLeft(BitsOf(code), s.used))
        used == s.used + Len(code)
    IN  IF used < WordBits
        THEN [s EXCEPT !.buf = buf, !.used = used]
        ELSE [s EXCEPT !.out  = Append(@, buf),
                       !.buf  = ShiftRight(BitsOf(code), ShiftCount(used - WordBits)),
                       !.used = used - WordBits]

\* bitstream_write.  By code.len - bits_in_buf, where bits_in_buf has code.len
\* added already, the code is shifted by minus the old bits_in_buf.
Put(s, code) ==
    LET buf  == Or(s.buf, ShiftLeft(BitsOf(code), s.used))
        used == s.used + Len(code)
    IN  IF used < WordBits
        THEN [s EXCEPT !.buf = buf, !.used = used]
        ELSE [s EXCEPT !.out  = Append(@, buf),
                       !.buf  = ShiftRight(BitsOf(code), ShiftCount(Len(code) - used)),
                       !.used = used - WordBits]

\* What bitstream_write returns: end_pos is compared with only when a word
\* has been stored.
HasRoom(before, after) ==
    \/ StoredWords(after) = StoredWords(before)
    \/ StoredWords(after) < after.limit

\* The first n codes of a list of up to four, written one after the other.
PutFirst(s, list, n) ==
    LET Step(t, k) == IF k <= n THEN Put(t, list[k]) ELSE t
    IN  Step(Step(Step(Step(s, 1), 2), 3), 4)

\* All the bits written so far, in the order they are read in: the words of
\* the buffer from the lowest bit on, and those that are still kept back.
Contents(s) ==
    LET stored == WordBits * Len(s.out)
    IN  [i \in 1..(stored + s.used) |->
            IF i <= stored THEN s.out[(i - 1) \div WordBits + 1][(i - 1) % WordBits]
                           ELSE s.buf[(i - 1) - stored]]
=============================================================================
