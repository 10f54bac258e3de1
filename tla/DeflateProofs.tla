---------------------------- MODULE DeflateProofs ----------------------------
(***************************************************************************)
(* The bit stream of huffman.h loses and invents no bits; huffman_create_  *)
(* alphabet and deflate.c keep their types, for any counts, words and      *)
(* inputs; the cache of codes is right although it is never cleared.       *)
(***************************************************************************)
EXTENDS Deflate, Remainders, SequenceTheorems, FiniteSetTheorems, TLAPS

Bits == {0, 1}

-----------------------------------------------------------------------------
(* The bit stream. *)

LEMMA WordSize == WordBits \in Positive /\ WordBits \in Nat /\ WordBits > 0
BY WordBitsAssumption DEF Positive

\* A stream between two writes: less than a word is kept back, and the rest
\* of the word it is kept in is 0.
WellFormed(st) ==
    /\ st = [out |-> st.out, buf |-> st.buf, used |-> st.used, limit |-> st.limit]
    /\ st.out \in Seq(MachineWords) /\ st.buf \in MachineWords /\ st.used \in Positions
    /\ \A p \in Positions : p >= st.used => st.buf[p] = 0

LEMMA StreamFacts ==
    ASSUME NEW st, WellFormed(st)
    PROVE  /\ Len(st.out) \in Nat /\ WordBits * Len(st.out) \in Nat
           /\ st.used \in Nat /\ st.used < WordBits
           /\ \A k \in 1..Len(st.out) : st.out[k] \in MachineWords
<1>1. Len(st.out) \in Nat /\ \A k \in 1..Len(st.out) : st.out[k] \in MachineWords
  BY LenProperties DEF WellFormed
<1>2. st.used \in Nat /\ st.used < WordBits
  BY WordSize DEF WellFormed, Positions
<1> DEFINE n == Len(st.out)
<1>3. n \in Nat
  BY <1>1
<1> HIDE DEF n
<1>4. WordBits * n \in Nat
  BY <1>3, WordSize, SMT
<1> QED BY <1>1, <1>2, <1>4 DEF n

\* Where the bit i of a stream lies that has n words stored.
LEMMA StoredBit ==
    ASSUME NEW n \in Nat, NEW i \in 1..(WordBits * n)
    PROVE  (i - 1) \div WordBits \in 0..(n - 1) /\ (i - 1) % WordBits \in Positions
<1> DEFINE q == (i - 1) \div WordBits
           r == (i - 1) % WordBits
           a == i - 1
<1>1. a \in Int /\ 0 <= a /\ a < WordBits * n /\ WordBits * n \in Int
  BY WordSize, SMT
<1>2. q \in Int /\ r \in Int /\ 0 <= r /\ r < WordBits /\ a = WordBits * q + r
      /\ WordBits * q \in Int
  <2> HIDE DEF a
  <2>1. /\ a \div WordBits \in Int /\ WordBits * (a \div WordBits) \in Int
        /\ a % WordBits \in Int /\ 0 <= a % WordBits /\ a % WordBits < WordBits
        /\ a = WordBits * (a \div WordBits) + (a % WordBits)
    BY <1>1, WordSize, Division
  <2> QED BY <2>1 DEF a
<1> HIDE DEF q, r, a
<1>3. ~(q < 0)
  <2> SUFFICES ASSUME q < 0 PROVE FALSE
    OBVIOUS
  <2>1. WordBits * q + WordBits <= WordBits * 0
    BY <1>2, WordSize, Multiples
  <2>2. WordBits * 0 = 0
    BY WordSize, SMT
  <2> QED BY <1>1, <1>2, <2>1, <2>2, WordSize, SMT
<1>4. ~(n <= q)
  <2> SUFFICES ASSUME n <= q PROVE FALSE
    OBVIOUS
  <2>1. n < q => WordBits * n + WordBits <= WordBits * q
    BY <1>2, WordSize, Multiples
  <2>2. WordBits * n <= WordBits * q
    BY <1>1, <1>2, <2>1, WordSize, SMT
  <2> QED BY <1>1, <1>2, <2>2, SMT
<1>5. q \in 0..(n - 1) /\ r \in Positions
  BY <1>2, <1>3, <1>4, WordSize, SMT DEF Positions
<1> QED BY <1>5 DEF q, r

LEMMA ContentsIs ==
    ASSUME NEW st, WellFormed(st)
    PROVE  /\ Contents(st) \in Seq(Bits)
           /\ Len(Contents(st)) = WordBits * Len(st.out) + st.used
           /\ \A i \in 1..(WordBits * Len(st.out) + st.used) :
                 Contents(st)[i] =
                    IF i <= WordBits * Len(st.out)
                    THEN st.out[(i - 1) \div WordBits + 1][(i - 1) % WordBits]
                    ELSE st.buf[(i - 1) - WordBits * Len(st.out)]
<1> DEFINE n == Len(st.out)
           stored == WordBits * n
           bit(i) == IF i <= stored THEN st.out[(i - 1) \div WordBits + 1][(i - 1) % WordBits]
                                    ELSE st.buf[(i - 1) - stored]
<1>1. /\ n \in Nat /\ stored \in Nat /\ st.used \in Nat /\ st.used < WordBits
      /\ \A k \in 1..n : st.out[k] \in MachineWords
  BY StreamFacts
<1>2. Contents(st) = [i \in 1..(stored + st.used) |-> bit(i)]
  BY DEF Contents
<1>3. ASSUME NEW i \in 1..(stored + st.used) PROVE bit(i) \in Bits
  <2>1. CASE i <= stored
    <3>1. i \in 1..stored
      BY <1>1, <2>1
    <3> HIDE DEF n
    <3>2. (i - 1) \div WordBits \in 0..(n - 1) /\ (i - 1) % WordBits \in Positions
      BY <1>1, <3>1, StoredBit
    <3> DEFINE q == (i - 1) \div WordBits
               r == (i - 1) % WordBits
    <3>3. bit(i) = st.out[q + 1][r]
      BY <2>1
    <3>4. q \in 0..(n - 1) /\ r \in Positions
      BY <3>2
    <3> HIDE DEF q, r
    <3>5. q + 1 \in 1..n
      BY <1>1, <3>4
    <3>6. st.out[q + 1] \in MachineWords
      BY <1>1, <3>5
    <3> HIDE DEF bit
    <3> QED BY <3>3, <3>4, <3>6 DEF MachineWords, Bits
  <2>2. CASE ~(i <= stored)
    <3> DEFINE r == (i - 1) - stored
    <3>1. bit(i) = st.buf[r]
      BY <2>2
    <3>2. r \in Positions
      <4> HIDE DEF n, stored, bit
      <4> QED BY <1>1, <2>2, WordSize DEF Positions
    <3> HIDE DEF r
    <3>3. st.buf \in MachineWords
      BY DEF WellFormed
    <3> HIDE DEF bit
    <3> QED BY <3>1, <3>2, <3>3 DEF MachineWords, Bits
  <2> QED BY <2>1, <2>2
<1> HIDE DEF bit
<1>4. stored + st.used \in Nat
  <2> HIDE DEF stored
  <2> QED BY <1>1
<1> DEFINE size == stored + st.used
<1> HIDE DEF size
<1>5. [i \in 1..size |-> bit(i)] \in Seq(Bits) /\ Len([i \in 1..size |-> bit(i)]) = size
  BY <1>3, <1>4, SMT DEF size
<1>6. \A i \in 1..size : Contents(st)[i] = bit(i)
  BY <1>2 DEF size
<1> QED BY <1>2, <1>5, <1>6 DEF size, bit, stored, n

\* bitstream_init makes a stream of nothing.
LEMMA NewIsEmpty ==
    ASSUME NEW words
    PROVE  WellFormed(NewStream(words)) /\ Contents(NewStream(words)) = << >>
<1> DEFINE st == NewStream(words)
<1>1. /\ st = [out |-> << >>, buf |-> ZeroWord, used |-> 0, limit |-> words]
      /\ st.out = << >> /\ st.buf = ZeroWord /\ st.used = 0 /\ st.limit = words
  BY DEF NewStream
<1>2. << >> \in Seq(MachineWords) /\ Len(<< >>) = 0
  OBVIOUS
<1>3. ZeroWord \in MachineWords /\ 0 \in Positions /\ \A p \in Positions : ZeroWord[p] = 0
  BY WordSize DEF ZeroWord, MachineWords, Positions
<1> HIDE DEF st
<1>4. WellFormed(st)
  BY <1>1, <1>2, <1>3 DEF WellFormed
<1>5. WordBits * 0 + 0 = 0
  BY WordSize, SMT
<1>6. Contents(st) \in Seq(Bits) /\ Len(Contents(st)) = 0
  <2>1. /\ Contents(st) \in Seq(Bits)
        /\ Len(Contents(st)) = WordBits * Len(st.out) + st.used
    BY <1>4, ContentsIs
  <2> QED BY <1>1, <1>2, <1>5, <2>1
<1>7. Contents(st) = << >>
  BY <1>6, EmptySeq
<1> QED BY <1>4, <1>7 DEF st

\* What is kept back, with the code shifted behind it.
LEMMA FilledWord ==
    ASSUME NEW st, WellFormed(st), NEW code \in Seq(Bits), NEW buf,
           buf = Or(st.buf, ShiftLeft(BitsOf(code), st.used))
    PROVE  /\ buf \in MachineWords
           /\ \A p \in Positions : p < st.used => buf[p] = st.buf[p]
           /\ \A p \in Positions : p >= st.used /\ p - st.used < Len(code) =>
                 buf[p] = code[(p - st.used) + 1]
           /\ \A p \in Positions : p >= st.used + Len(code) => buf[p] = 0
<1> DEFINE u == st.used
           shifted == ShiftLeft(BitsOf(code), u)
           bit(p) == IF p >= u THEN BitsOf(code)[p - u] ELSE 0
<1>1. u \in Nat /\ u < WordBits /\ Len(code) \in Nat /\ WordBits \in Nat
  BY StreamFacts, LenProperties, WordSize
<1>2. /\ st.buf \in MachineWords
      /\ \A p \in Positions : p >= u => st.buf[p] = 0
  BY DEF WellFormed
<1>3. \A p \in Positions : st.buf[p] \in {0, 1}
  BY <1>2 DEF MachineWords
<1>4. \A k \in 1..Len(code) : code[k] \in {0, 1}
  BY DEF Bits
<1>5. ASSUME NEW p \in Positions
      PROVE  /\ bit(p) \in {0, 1}
             /\ p < u => bit(p) = 0
             /\ p >= u /\ p - u < Len(code) => bit(p) = code[(p - u) + 1]
             /\ p >= u + Len(code) => bit(p) = 0
  <2>1. p \in Nat /\ p < WordBits
    BY <1>1 DEF Positions
  <2>2. CASE p < u
    <3>1. ~(p >= u) /\ ~(p >= u + Len(code))
      BY <1>1, <2>1, <2>2
    <3> QED BY <2>2, <3>1
  <2>3. CASE p >= u
    <3>1. p - u \in Positions /\ ~(p < u)
      BY <1>1, <2>1, <2>3 DEF Positions
    <3> DEFINE k == p - u
    <3>2. bit(p) = BitsOf(code)[k] /\ k \in Positions
      BY <2>3, <3>1
    <3>3. (p >= u + Len(code)) <=> ~(k < Len(code))
      BY <1>1, <2>1
    <3> HIDE DEF k
    <3>4. BitsOf(code)[k] = IF k < Len(code) THEN code[k + 1] ELSE 0
      BY <3>2 DEF BitsOf
    <3>5. k < Len(code) => k + 1 \in 1..Len(code)
      BY <1>1, <3>2 DEF Positions
    <3>6. k < Len(code) => code[k + 1] \in {0, 1}
      BY <1>4, <3>5
    <3> HIDE DEF bit
    <3>7. /\ bit(p) \in {0, 1} /\ (k < Len(code) => bit(p) = code[k + 1])
          /\ (~(k < Len(code)) => bit(p) = 0)
      BY <3>2, <3>4, <3>6
    <3> QED BY <3>1, <3>3, <3>7 DEF k
  <2>4. p < u \/ p >= u
    BY <1>1, <2>1
  <2> QED BY <2>2, <2>3, <2>4
<1>6. \A p \in Positions : shifted[p] = bit(p)
  BY DEF ShiftLeft
<1> HIDE DEF bit, shifted
<1>7. buf = [p \in Positions |-> IF st.buf[p] = 1 \/ shifted[p] = 1 THEN 1 ELSE 0]
  BY DEF Or, shifted
<1>8. buf \in MachineWords
  BY <1>7 DEF MachineWords
<1>9. \A p \in Positions : buf[p] = IF st.buf[p] = 1 \/ bit(p) = 1 THEN 1 ELSE 0
  BY <1>6, <1>7
<1>10. ASSUME NEW p \in Positions
       PROVE  /\ p < u => buf[p] = st.buf[p]
              /\ p >= u /\ p - u < Len(code) => buf[p] = code[(p - u) + 1]
              /\ p >= u + Len(code) => buf[p] = 0
  <2>1. buf[p] = IF st.buf[p] = 1 \/ bit(p) = 1 THEN 1 ELSE 0
    BY <1>9
  <2>2. st.buf[p] \in {0, 1} /\ bit(p) \in {0, 1}
    BY <1>3, <1>5
  <2>3. p >= u => st.buf[p] = 0
    BY <1>2
  <2>4. p >= u + Len(code) => p >= u
    BY <1>1 DEF Positions
  <2>5. p < u => buf[p] = st.buf[p]
    BY <1>5, <2>1, <2>2
  <2>6. p >= u => buf[p] = bit(p)
    BY <2>1, <2>2, <2>3
  <2> QED BY <1>5, <2>4, <2>5, <2>6
<1> QED BY <1>8, <1>10

\* What is left of a code by a shift of minus the number of bits kept back.
LEMMA RestOfCode ==
    ASSUME NEW st, WellFormed(st), NEW code \in Seq(Bits), Len(code) < WordBits,
           NEW used, used = st.used + Len(code), used >= WordBits,
           NEW rest, rest = ShiftRight(BitsOf(code), ShiftCount(Len(code) - used))
    PROVE  /\ rest \in MachineWords /\ used - WordBits \in Positions
           /\ \A p \in Positions : p < used - WordBits =>
                 rest[p] = code[(p + (WordBits - st.used)) + 1]
           /\ \A p \in Positions : p >= used - WordBits => rest[p] = 0
<1> DEFINE u == st.used
           back == WordBits - u
<1>1. u \in Nat /\ u < WordBits /\ Len(code) \in Nat /\ WordBits \in Nat
  BY StreamFacts, LenProperties, WordSize
<1>2. back \in 1..(WordBits - 1) /\ Len(code) - used = WordBits * (-1) + back
  BY <1>1, SMT
<1>3. ShiftCount(Len(code) - used) = back
  <2> DEFINE a == Len(code) - used
  <2>1. a \in Int /\ back \in Int /\ 0 <= back /\ back < WordBits
    BY <1>1, <1>2
  <2>2. a = WordBits * (-1) + back
    BY <1>2
  <2> HIDE DEF a, back
  <2>3. a % WordBits = back
    BY <2>1, <2>2, WordSize, RemainderIs
  <2> QED BY <2>3 DEF ShiftCount, a
<1>4. used - WordBits = Len(code) - back /\ used - WordBits \in Positions
  BY <1>1 DEF Positions
<1> HIDE DEF back
<1>5. \A k \in 1..Len(code) : code[k] \in {0, 1}
  BY DEF Bits
<1>6. rest = [p \in Positions |-> IF p + back < WordBits THEN BitsOf(code)[p + back] ELSE 0]
  BY <1>3 DEF ShiftRight
<1>7. ASSUME NEW p \in Positions
      PROVE  /\ rest[p] \in {0, 1}
             /\ p < used - WordBits => rest[p] = code[(p + back) + 1]
             /\ p >= used - WordBits => rest[p] = 0
  <2> DEFINE k == p + back
  <2>1. k \in Nat /\ p \in Nat
    BY <1>2 DEF Positions
  <2>2. rest[p] = IF k < WordBits THEN BitsOf(code)[k] ELSE 0
    BY <1>6
  <2>3. (p < used - WordBits <=> k < Len(code)) /\ (p >= used - WordBits <=> ~(k < Len(code)))
    BY <1>1, <1>2, <1>4, <2>1
  <2> HIDE DEF k
  <2>4. k < WordBits => k \in Positions
    BY <1>1, <2>1 DEF Positions
  <2>5. k < WordBits => BitsOf(code)[k] = IF k < Len(code) THEN code[k + 1] ELSE 0
    BY <2>4 DEF BitsOf
  <2>6. k < Len(code) => k < WordBits /\ k + 1 \in 1..Len(code)
    BY <1>1, <2>1
  <2>7. k < Len(code) => code[k + 1] \in {0, 1}
    BY <1>5, <2>6
  <2>8. /\ k < Len(code) => rest[p] = code[k + 1]
        /\ ~(k < Len(code)) => rest[p] = 0
    BY <2>2, <2>5, <2>6
  <2> QED BY <2>3, <2>7, <2>8 DEF k
<1>8. rest \in MachineWords
  <2> DEFINE bit(p) == IF p + back < WordBits THEN BitsOf(code)[p + back] ELSE 0
  <2>1. rest = [p \in Positions |-> bit(p)]
    BY <1>6
  <2>2. \A p \in Positions : rest[p] = bit(p)
    BY <2>1
  <2> HIDE DEF bit
  <2>3. \A p \in Positions : bit(p) \in {0, 1}
    BY <1>7, <2>2
  <2> QED BY <2>1, <2>3 DEF MachineWords
<1> QED BY <1>4, <1>7, <1>8 DEF back

\* A write appends the code to all that was written before, whether it fits
\* into the word or not, and keeps back less than a word, for any code that is
\* shorter than a word: neither the shift that puts it behind what was kept
\* back nor the one that keeps the rest of it loses or moves a bit
\* (bitstream_write).
THEOREM WriteAppends ==
    ASSUME NEW st, WellFormed(st), NEW code \in Seq(Bits), Len(code) < WordBits
    PROVE  /\ WellFormed(Put(st, code))
           /\ Contents(Put(st, code)) = Contents(st) \o code
<1> DEFINE u == st.used
           n == Len(st.out)
           size == Len(code)
           used == u + size
           stored == WordBits * n
           buf == Or(st.buf, ShiftLeft(BitsOf(code), st.used))
           rest == ShiftRight(BitsOf(code), ShiftCount(Len(code) - used))
           t == Put(st, code)
           before == Contents(st)
<1>1. /\ u \in Nat /\ u < WordBits /\ n \in Nat /\ stored \in Nat /\ size \in Nat
      /\ WordBits \in Nat /\ WordBits > 0 /\ size < WordBits
  BY StreamFacts, LenProperties, WordSize
<1>2. /\ before \in Seq(Bits) /\ Len(before) = stored + u
      /\ \A i \in 1..(stored + u) :
            before[i] = IF i <= stored
                        THEN st.out[(i - 1) \div WordBits + 1][(i - 1) % WordBits]
                        ELSE st.buf[(i - 1) - stored]
  BY ContentsIs
<1>3. /\ before \o code \in Seq(Bits) /\ Len(before \o code) = (stored + u) + size
      /\ \A i \in 1..((stored + u) + size) :
            (before \o code)[i] = IF i <= stored + u THEN before[i] ELSE code[i - (stored + u)]
  <2>1. before \in Seq(Bits) /\ code \in Seq(Bits) /\ Len(before) = stored + u /\ Len(code) = size
    BY <1>2
  <2> HIDE DEF before, stored, u, size
  <2>2. /\ before \o code \in Seq(Bits) /\ Len(before \o code) = Len(before) + Len(code)
        /\ \A i \in 1..(Len(before) + Len(code)) :
              (before \o code)[i] = IF i <= Len(before) THEN before[i] ELSE code[i - Len(before)]
    BY <2>1, ConcatProperties
  <2> QED BY <2>1, <2>2
<1>4. /\ buf \in MachineWords
      /\ \A p \in Positions : p < u => buf[p] = st.buf[p]
      /\ \A p \in Positions : p >= u /\ p - u < size => buf[p] = code[(p - u) + 1]
      /\ \A p \in Positions : p >= used => buf[p] = 0
  BY FilledWord
<1>5. st = [out |-> st.out, buf |-> st.buf, used |-> st.used, limit |-> st.limit]
      /\ st.out \in Seq(MachineWords)
  BY DEF WellFormed
<1>6. \A i \in 1..stored : (i - 1) \div WordBits \in 0..(n - 1) /\ (i - 1) % WordBits \in Positions
  BY <1>1, StoredBit
<1>7. SUFFICES /\ WellFormed(t) /\ Len(Contents(t)) = (stored + u) + size
               /\ \A i \in 1..((stored + u) + size) : Contents(t)[i] = (before \o code)[i]
  <2>1. ASSUME WellFormed(t), Len(Contents(t)) = (stored + u) + size,
               \A i \in 1..((stored + u) + size) : Contents(t)[i] = (before \o code)[i]
        PROVE  Contents(t) = before \o code
    <3> DEFINE new == Contents(t)
               old == before \o code
    <3>1. new \in Seq(Bits)
      BY <2>1, ContentsIs
    <3>2. old \in Seq(Bits) /\ Len(new) = Len(old) /\ \A i \in 1..Len(new) : new[i] = old[i]
      BY <1>3, <2>1
    <3> HIDE DEF new, old
    <3>3. new = old
      BY <3>1, <3>2, SeqEqual
    <3> QED BY <3>3 DEF new, old
  <2> HIDE DEF before, stored, u, size
  <2> QED BY <2>1 DEF t, before
<1>8. CASE used < WordBits
  <2>1. t = [out |-> st.out, buf |-> buf, used |-> used, limit |-> st.limit]
    BY <1>5, <1>8 DEF Put
  <2> HIDE DEF t, buf
  <2>2. t.out = st.out /\ t.buf = buf /\ t.used = used
    BY <2>1
  <2>3. WellFormed(t)
    <3>1. used \in Positions
      BY <1>1, <1>8 DEF Positions
    <3> HIDE DEF used
    <3> QED BY <1>4, <1>5, <2>1, <2>2, <3>1 DEF WellFormed
  <2>4. /\ Len(Contents(t)) = stored + used
        /\ \A i \in 1..(stored + used) :
              Contents(t)[i] = IF i <= stored
                               THEN st.out[(i - 1) \div WordBits + 1][(i - 1) % WordBits]
                               ELSE buf[(i - 1) - stored]
    <3> HIDE DEF used
    <3>1. /\ Len(Contents(t)) = WordBits * Len(t.out) + t.used
          /\ \A i \in 1..(WordBits * Len(t.out) + t.used) :
                Contents(t)[i] =
                    IF i <= WordBits * Len(t.out)
                    THEN t.out[(i - 1) \div WordBits + 1][(i - 1) % WordBits]
                    ELSE t.buf[(i - 1) - WordBits * Len(t.out)]
      BY <2>3, ContentsIs
    <3> QED BY <2>2, <3>1
  <2>5. stored + used = (stored + u) + size
    <3> HIDE DEF stored, u, size
    <3> QED BY <1>1
  <2>6. ASSUME NEW i \in 1..((stored + u) + size)
        PROVE  Contents(t)[i] = (before \o code)[i]
    <3>1. Contents(t)[i] = IF i <= stored
                           THEN st.out[(i - 1) \div WordBits + 1][(i - 1) % WordBits]
                           ELSE buf[(i - 1) - stored]
      BY <2>4, <2>5
    <3>2. (before \o code)[i] = IF i <= stored + u THEN before[i] ELSE code[i - (stored + u)]
      BY <1>3
    <3>3. i \in Nat /\ 1 <= i /\ i <= (stored + u) + size
      <4> HIDE DEF stored, u, size
      <4> QED BY <1>1
    <3>4. CASE i <= stored
      <4>1. i <= stored + u /\ i \in 1..(stored + u)
        <5> HIDE DEF stored, u, size
        <5> QED BY <1>1, <3>3, <3>4
      <4>2. before[i] = st.out[(i - 1) \div WordBits + 1][(i - 1) % WordBits]
        BY <1>2, <3>4, <4>1
      <4> HIDE DEF before, stored, u
      <4> QED BY <3>1, <3>2, <3>4, <4>1, <4>2
    <3>5. CASE ~(i <= stored)
      <4> DEFINE p == (i - 1) - stored
      <4>1. /\ p \in Positions /\ (i <= stored + u <=> p < u) /\ (p >= u <=> ~(i <= stored + u))
            /\ p - u < size /\ (p - u) + 1 = i - (stored + u)
        <5> HIDE DEF stored, u, size
        <5> QED BY <1>1, <1>8, <3>3, <3>5 DEF Positions
      <4>2. CASE p < u
        <5>1. i <= stored + u /\ i \in 1..(stored + u)
          <6> HIDE DEF stored, u, size, p
          <6> QED BY <3>3, <4>1, <4>2
        <5>2. before[i] = st.buf[p] /\ buf[p] = st.buf[p]
          BY <1>2, <1>4, <3>5, <4>1, <4>2, <5>1
        <5> HIDE DEF before, stored, u
        <5> QED BY <3>1, <3>2, <3>5, <5>1, <5>2
      <4>3. CASE p >= u
        <5>1. buf[p] = code[(p - u) + 1]
          BY <1>4, <4>1, <4>3
        <5>2. ~(i <= stored + u) /\ (p - u) + 1 = i - (stored + u)
          BY <4>1, <4>3
        <5> HIDE DEF before, stored, u
        <5> QED BY <3>1, <3>2, <3>5, <5>1, <5>2
      <4>4. p < u \/ p >= u
        <5> HIDE DEF u, p
        <5> QED BY <1>1, <4>1 DEF Positions
      <4> QED BY <4>2, <4>3, <4>4
    <3> QED BY <3>4, <3>5
  <2> QED BY <2>3, <2>4, <2>5, <2>6
<1>9. CASE ~(used < WordBits)
  <2>1. /\ rest \in MachineWords /\ used - WordBits \in Positions
        /\ \A p \in Positions : p < used - WordBits => rest[p] = code[(p + (WordBits - u)) + 1]
        /\ \A p \in Positions : p >= used - WordBits => rest[p] = 0
    <3>1. used >= WordBits
      BY <1>1, <1>9
    <3> QED BY <3>1, RestOfCode
  <2>2. t = [out |-> Append(st.out, buf), buf |-> rest, used |-> used - WordBits,
             limit |-> st.limit]
    BY <1>5, <1>9 DEF Put
  <2> HIDE DEF t, buf, rest
  <2>3. t.out = Append(st.out, buf) /\ t.buf = rest /\ t.used = used - WordBits
    BY <2>2
  <2>4. /\ t.out \in Seq(MachineWords) /\ Len(t.out) = n + 1 /\ t.out[n + 1] = buf
        /\ \A k \in 1..n : t.out[k] = st.out[k]
    <3>1. st.out \in Seq(MachineWords) /\ buf \in MachineWords
      BY <1>4, <1>5
    <3> QED BY <2>3, <3>1, AppendProperties
  <2>5. WellFormed(t)
    <3> HIDE DEF used
    <3> QED BY <2>1, <2>2, <2>3, <2>4 DEF WellFormed
  <2>6. WordBits * (n + 1) = stored + WordBits
    <3> HIDE DEF n
    <3> QED BY <1>1, SMT
  <2>7. /\ Len(Contents(t)) = (stored + WordBits) + (used - WordBits)
        /\ \A i \in 1..((stored + WordBits) + (used - WordBits)) :
              Contents(t)[i] = IF i <= stored + WordBits
                               THEN t.out[(i - 1) \div WordBits + 1][(i - 1) % WordBits]
                               ELSE rest[(i - 1) - (stored + WordBits)]
    <3>1. /\ Len(Contents(t)) = WordBits * Len(t.out) + t.used
          /\ \A i \in 1..(WordBits * Len(t.out) + t.used) :
                Contents(t)[i] =
                    IF i <= WordBits * Len(t.out)
                    THEN t.out[(i - 1) \div WordBits + 1][(i - 1) % WordBits]
                    ELSE t.buf[(i - 1) - WordBits * Len(t.out)]
      BY <2>5, ContentsIs
    <3>2. WordBits * Len(t.out) = stored + WordBits
      BY <2>4, <2>6
    <3> HIDE DEF used, stored
    <3> QED BY <2>3, <3>1, <3>2
  <2>8. (stored + WordBits) + (used - WordBits) = (stored + u) + size
    <3> HIDE DEF stored, u, size
    <3> QED BY <1>1
  <2>9. ASSUME NEW i \in 1..((stored + u) + size)
        PROVE  Contents(t)[i] = (before \o code)[i]
    <3>1. Contents(t)[i] = IF i <= stored + WordBits
                           THEN t.out[(i - 1) \div WordBits + 1][(i - 1) % WordBits]
                           ELSE rest[(i - 1) - (stored + WordBits)]
      BY <2>7, <2>8
    <3>2. (before \o code)[i] = IF i <= stored + u THEN before[i] ELSE code[i - (stored + u)]
      BY <1>3
    <3>3. i \in Nat /\ 1 <= i /\ i <= (stored + u) + size
      <4> HIDE DEF stored, u, size
      <4> QED BY <1>1
    <3>4. CASE i <= stored
      <4>1. i <= stored + u /\ i \in 1..(stored + u) /\ i <= stored + WordBits /\ i \in 1..stored
        <5> HIDE DEF stored, u, size
        <5> QED BY <1>1, <3>3, <3>4
      <4>2. before[i] = st.out[(i - 1) \div WordBits + 1][(i - 1) % WordBits]
        BY <1>2, <3>4, <4>1
      <4> DEFINE q == (i - 1) \div WordBits
      <4>3. q \in 0..(n - 1)
        BY <1>6, <4>1
      <4> HIDE DEF q
      <4>4. q + 1 \in 1..n
        <5> HIDE DEF n
        <5> QED BY <1>1, <4>3
      <4>5. t.out[q + 1] = st.out[q + 1]
        BY <2>4, <4>4
      <4>6. t.out[(i - 1) \div WordBits + 1] = st.out[(i - 1) \div WordBits + 1]
        BY <4>5 DEF q
      <4> HIDE DEF before, stored, u
      <4> QED BY <3>1, <3>2, <4>1, <4>2, <4>6
    <3>5. CASE ~(i <= stored) /\ i <= stored + WordBits
      <4> DEFINE p == (i - 1) - stored
                 a == i - 1
      <4>1. /\ p \in Positions /\ (i <= stored + u <=> p < u) /\ (p >= u <=> ~(i <= stored + u))
            /\ p - u < size /\ (p - u) + 1 = i - (stored + u)
        <5> HIDE DEF stored, u, size
        <5> QED BY <1>1, <3>3, <3>5 DEF Positions
      <4>2. a \in Int /\ a = WordBits * n + p /\ p \in Int /\ 0 <= p /\ p < WordBits
        <5>1. a \in Int /\ a = stored + p /\ p \in Int /\ 0 <= p /\ p < WordBits
          <6> HIDE DEF stored, u, size
          <6> QED BY <1>1, <3>3, <3>5
        <5> QED BY <5>1
      <4> HIDE DEF a, p
      <4>3. a % WordBits = p /\ a \div WordBits = n
        <5>1. n \in Int
          BY <1>1
        <5> HIDE DEF n
        <5> QED BY <4>2, <5>1, WordSize, RemainderIs
      <4>4. Contents(t)[i] = buf[p]
        <5>1. Contents(t)[i] = t.out[a \div WordBits + 1][a % WordBits]
          BY <3>1, <3>5 DEF a
        <5> QED BY <2>4, <4>3, <5>1
      <4>5. CASE p < u
        <5>1. i <= stored + u /\ i \in 1..(stored + u)
          <6> HIDE DEF stored, u, size
          <6> QED BY <3>3, <4>1, <4>5
        <5>2. before[i] = st.buf[p] /\ buf[p] = st.buf[p]
          BY <1>2, <1>4, <3>5, <4>1, <4>5, <5>1 DEF p
        <5> HIDE DEF before, stored, u
        <5> QED BY <3>2, <4>4, <5>1, <5>2
      <4>6. CASE p >= u
        <5>1. buf[p] = code[(p - u) + 1]
          BY <1>4, <4>1, <4>6
        <5>2. ~(i <= stored + u) /\ (p - u) + 1 = i - (stored + u)
          BY <4>1, <4>6
        <5> HIDE DEF before, stored, u
        <5> QED BY <3>2, <4>4, <5>1, <5>2
      <4>7. p < u \/ p >= u
        <5> HIDE DEF u
        <5> QED BY <1>1, <4>2
      <4> QED BY <4>5, <4>6, <4>7
    <3>6. CASE ~(i <= stored + WordBits)
      <4> DEFINE p == (i - 1) - (stored + WordBits)
      <4>1. /\ p \in Nat /\ p < used - WordBits /\ ~(i <= stored + u)
            /\ (p + (WordBits - u)) + 1 = i - (stored + u)
        <5> HIDE DEF stored, u, size
        <5> QED BY <1>1, <3>3, <3>6
      <4>2. p \in Positions
        <5>1. used - WordBits \in Nat /\ used - WordBits < WordBits
          BY <1>1, <2>1 DEF Positions
        <5> HIDE DEF used, p
        <5> QED BY <1>1, <4>1, <5>1 DEF Positions
      <4>3. rest[p] = code[(p + (WordBits - u)) + 1]
        BY <2>1, <4>1, <4>2
      <4>4. Contents(t)[i] = rest[p]
        BY <3>1, <3>6
      <4> HIDE DEF before, stored, u, p
      <4> QED BY <3>2, <4>1, <4>3, <4>4
    <3> QED BY <3>4, <3>5, <3>6
  <2> QED BY <2>5, <2>7, <2>8, <2>9
<1> QED BY <1>8, <1>9
-----------------------------------------------------------------------------
(* Writing several codes. *)

ShortCodes == {code \in Codes : Len(code) < WordBits}

\* A write leaves a stream, and where it ends.
LEMMA PutLeavesStream ==
    ASSUME NEW st, WellFormed(st), NEW code \in ShortCodes
    PROVE  WellFormed(Put(st, code))
<1>1. code \in Seq(Bits) /\ Len(code) < WordBits
  BY DEF ShortCodes, Codes, Bits
<1> QED BY <1>1, WriteAppends

\* The first n codes of a list, written one after the other.
LEMMA PutFirstLeavesStream ==
    ASSUME NEW st, WellFormed(st), NEW list \in Seq(ShortCodes), NEW n \in 0..4, n <= Len(list)
    PROVE  WellFormed(PutFirst(st, list, n))
<1> DEFINE Step(t, k) == IF k <= n THEN Put(t, list[k]) ELSE t
<1>1. ASSUME NEW t, WellFormed(t), NEW k \in 1..4 PROVE WellFormed(Step(t, k))
  <2>1. CASE k <= n
    <3>1. list[k] \in ShortCodes
      BY <2>1, LenProperties
    <3> QED BY <1>1, <2>1, <3>1, PutLeavesStream
  <2>2. CASE ~(k <= n)
    BY <1>1, <2>2
  <2> QED BY <2>1, <2>2
<1> HIDE DEF Step
<1>2. WellFormed(Step(Step(Step(Step(st, 1), 2), 3), 4))
  <2>1. WellFormed(Step(st, 1))
    BY <1>1
  <2>2. WellFormed(Step(Step(st, 1), 2))
    BY <1>1, <2>1
  <2>3. WellFormed(Step(Step(Step(st, 1), 2), 3))
    BY <1>1, <2>2
  <2> QED BY <1>1, <2>3
<1>3. PutFirst(st, list, n) = Step(Step(Step(Step(st, 1), 2), 3), 4)
  BY DEF PutFirst, Step
<1> QED BY <1>2, <1>3

LEMMA BlindWrites ==
    ASSUME WellFormed(stream), NEW list \in Seq(ShortCodes), Len(list) \in 0..4,
           WriteBlindly(list)
    PROVE  WellFormed(stream')
<1>1. Len(list) <= Len(list)
  OBVIOUS
<1> QED BY <1>1, PutFirstLeavesStream DEF WriteBlindly

LEMMA Writes ==
    ASSUME WellFormed(stream), NEW list \in Seq(ShortCodes), Len(list) \in 1..4, Write(list)
    PROVE  WellFormed(stream')
<1> DEFINE b == PutFirst(stream, list, Len(list) - 1)
<1>1. WellFormed(b)
  <2>1. Len(list) - 1 \in 0..4 /\ Len(list) - 1 <= Len(list)
    OBVIOUS
  <2> QED BY <2>1, PutFirstLeavesStream
<1>2. list[Len(list)] \in ShortCodes
  <2>1. Len(list) \in 1..Len(list)
    OBVIOUS
  <2> HIDE DEF b
  <2> QED BY <2>1, ElementOfSeq
<1>3. stream' = Put(b, list[Len(list)])
  BY DEF Write
<1> HIDE DEF b
<1> QED BY <1>1, <1>2, <1>3, PutLeavesStream
-----------------------------------------------------------------------------
(* The heap: whatever the weights, its entries stay nodes. *)

LEMMA SiftUpKeeps ==
    ASSUME NEW w, NEW D, NEW h \in Seq(D), NEW child \in 1..Len(h)
    PROVE  SiftUp(w, h, child) \in Seq(D) /\ Len(SiftUp(w, h, child)) = Len(h)
<1> DEFINE rises(i) == i > 1 /\ w[h[i \div 2]] > w[h[child]]
           met      == {i \in UpFrom(child) : \A j \in UpFrom(child) : j > i => rises(j)}
           entry(i) == IF i \notin met THEN h[i]
                       ELSE IF rises(i) THEN h[i \div 2] ELSE h[child]
<1>1. SiftUp(w, h, child) = [i \in DOMAIN h |-> entry(i)]
  BY DEF SiftUp
<1>2. Len(h) \in Nat /\ DOMAIN h = 1..Len(h) /\ \A i \in 1..Len(h) : h[i] \in D
  BY LenProperties
<1> HIDE DEF met
<1>3. ASSUME NEW i \in 1..Len(h) PROVE entry(i) \in D
  <2>1. i > 1 => i \div 2 \in 1..Len(h)
    BY <1>2
  <2>2. h[i] \in D /\ h[child] \in D /\ (i > 1 => h[i \div 2] \in D)
    BY <1>2, <2>1
  <2> QED BY <2>2
<1> HIDE DEF entry
<1>4. [i \in 1..Len(h) |-> entry(i)] \in [1..Len(h) -> D]
  BY <1>3
<1> QED BY <1>1, <1>2, <1>4, LenProperties

LEMMA SiftDownKeeps ==
    ASSUME NEW w, NEW D, NEW h \in Seq(D)
    PROVE  SiftDown(w, h) \in Seq(D) /\ Len(SiftDown(w, h)) = Len(h)
<1> DEFINE left(i)  == 2 * i
           right(i) == IF 2 * i < Len(h) THEN 2 * i + 1 ELSE 2 * i
           lower(i) == IF w[h[left(i)]] < w[h[right(i)]] THEN left(i) ELSE right(i)
           sinks(i) == /\ left(i) <= Len(h)
                       /\ ~(w[h[1]] < w[h[left(i)]] /\ w[h[1]] < w[h[right(i)]])
           met      == {i \in DOMAIN h : \A j \in UpFrom(i) \ {1} :
                           sinks(j \div 2) /\ j = lower(j \div 2)}
           entry(i) == IF i \notin met THEN h[i]
                       ELSE IF sinks(i) THEN h[lower(i)] ELSE h[1]
<1>1. SiftDown(w, h) = [i \in DOMAIN h |-> entry(i)]
  BY DEF SiftDown
<1>2. Len(h) \in Nat /\ DOMAIN h = 1..Len(h) /\ \A i \in 1..Len(h) : h[i] \in D
  BY LenProperties
<1> HIDE DEF met
<1>3. ASSUME NEW i \in 1..Len(h) PROVE entry(i) \in D
  <2>1. left(i) <= Len(h) => lower(i) \in 1..Len(h)
    BY <1>2
  <2>2. h[i] \in D /\ h[1] \in D /\ (left(i) <= Len(h) => h[lower(i)] \in D)
    BY <1>2, <2>1
  <2> HIDE DEF left, lower
  <2> QED BY <2>2
<1> HIDE DEF entry
<1>4. [i \in 1..Len(h) |-> entry(i)] \in [1..Len(h) -> D]
  BY <1>3
<1> QED BY <1>1, <1>2, <1>4, LenProperties

LEMMA InsertedKeeps ==
    ASSUME NEW w, NEW D, NEW h \in Seq(D), NEW node \in D
    PROVE  Inserted(w, h, node) \in Seq(D)
<1>1. Append(h, node) \in Seq(D) /\ Len(Append(h, node)) = Len(h) + 1 /\ Len(h) \in Nat
  BY AppendProperties, LenProperties
<1>2. Len(h) + 1 \in 1..Len(Append(h, node))
  BY <1>1
<1> QED BY <1>1, <1>2, SiftUpKeeps DEF Inserted

LEMMA RemovedKeeps ==
    ASSUME NEW w, NEW D, NEW h \in Seq(D), Len(h) > 0
    PROVE  Removed(w, h) \in Seq(D) /\ Len(Removed(w, h)) = Len(h) - 1
<1> DEFINE rest == [i \in 1..(Len(h) - 1) |-> IF i = 1 THEN Last(h) ELSE h[i]]
<1>1. Len(h) \in Nat /\ \A i \in 1..Len(h) : h[i] \in D
  BY LenProperties
<1>2. Last(h) \in D
  BY <1>1 DEF Last
<1>3. rest \in [1..(Len(h) - 1) -> D] /\ Len(h) - 1 \in Nat
  BY <1>1, <1>2
<1>4. rest \in Seq(D) /\ Len(rest) = Len(h) - 1
  BY <1>3, LenProperties
<1> HIDE DEF rest
<1>5. SiftDown(w, rest) \in Seq(D) /\ Len(SiftDown(w, rest)) = Len(rest)
  BY <1>4, SiftDownKeeps
<1>6. Removed(w, h) = SiftDown(w, rest)
  BY DEF Removed, rest
<1> QED BY <1>4, <1>5, <1>6

-----------------------------------------------------------------------------
(* The tree: a node's parent comes after it, and so every leaf has a depth. *)

Nodes == DOMAIN parent

Upward(m) ==
    /\ m \in Nat /\ Nodes = 0..(m - 1)
    /\ \A n \in 0..(m - 1) : parent[n] = NoNode \/ parent[n] \in (n + 1)..(m - 1)

LEMMA DepthIsNumber ==
    ASSUME NEW m, Upward(m)
    PROVE  /\ \A n \in Nodes : Depth[n] \in Nat
           /\ \A n \in Nodes : Depth[n] = IF parent[n] = NoNode THEN 0 ELSE 1 + Depth[parent[n]]
<1> DEFINE value(f, n) == IF parent[n] = NoNode THEN 0 ELSE 1 + f[parent[n]]
           found(k) == \E f \in [(m - k)..(m - 1) -> Nat] :
                          \A n \in (m - k)..(m - 1) : f[n] = value(f, n)
           none == {k \in 0..m : ~found(k)}
<1>1. none = {}
  <2> SUFFICES ASSUME none # {} PROVE FALSE
    OBVIOUS
  <2>1. m \in Nat /\ none \subseteq Nat
    BY DEF Upward
  <2>2. PICK k \in none : \A j \in none : k <= j
    <3> HIDE DEF none
    <3> QED BY <2>1, LeastNumber
  <2>3. k \in 0..m /\ ~found(k)
    OBVIOUS
  <2>4. k # 0
    <3>1. ASSUME k = 0 PROVE found(k)
      <4>1. (m - k)..(m - 1) = {}
        BY <2>1, <3>1
      <4>2. [n \in {} |-> 0] \in [{} -> Nat]
        OBVIOUS
      <4> QED BY <4>1, <4>2
    <3> QED BY <2>3, <3>1
  <2>5. found(k - 1)
    <3>1. k - 1 \in 0..m /\ ~(k <= k - 1)
      BY <2>1, <2>3, <2>4
    <3>2. k - 1 \notin none
      <4> HIDE DEF none
      <4> QED BY <2>2, <3>1
    <3> HIDE DEF found
    <3> QED BY <3>1, <3>2
  <2> DEFINE n0 == m - k
  <2>6. n0 \in 0..(m - 1) /\ m - (k - 1) = n0 + 1
    BY <2>1, <2>3, <2>4
  <2>7. PICK f \in [(n0 + 1)..(m - 1) -> Nat] : \A n \in (n0 + 1)..(m - 1) : f[n] = value(f, n)
    BY <2>5, <2>6
  <2> DEFINE g == [n \in n0..(m - 1) |-> IF n = n0 THEN value(f, n0) ELSE f[n]]
  <2> HIDE DEF n0
  <2>8. value(f, n0) \in Nat
    BY <2>6, <2>7 DEF Upward
  <2>9. \A n \in n0..(m - 1) : n = n0 \/ n \in (n0 + 1)..(m - 1)
    BY <2>1, <2>6
  <2>10. g \in [n0..(m - 1) -> Nat]
    <3> HIDE DEF value
    <3> QED BY <2>7, <2>8, <2>9
  <2>11. ASSUME NEW n \in n0..(m - 1) PROVE g[n] = value(g, n)
    <3>1. parent[n] # NoNode => /\ parent[n] \in (n0 + 1)..(m - 1)
                                /\ parent[n] \in n0..(m - 1) /\ parent[n] # n0
      BY <2>1, <2>6 DEF Upward
    <3>2. value(g, n) = value(f, n)
      BY <3>1
    <3>3. CASE n = n0
      BY <3>2, <3>3
    <3>4. CASE n \in (n0 + 1)..(m - 1)
      <4>1. n # n0
        BY <2>6, <3>4
      <4> QED BY <2>7, <3>2, <3>4, <4>1
    <3> QED BY <2>9, <3>3, <3>4
  <2>12. found(k)
    <3> HIDE DEF g, value
    <3> QED BY <2>10, <2>11 DEF n0
  <2> QED BY <2>3, <2>12
<1>2. \E f : f = [n \in Nodes |-> value(f, n)]
  <2>1. m \in 0..m /\ m - m = 0 /\ Nodes = 0..(m - 1)
    BY DEF Upward
  <2>2. found(m)
    <3> HIDE DEF found
    <3> QED BY <1>1, <2>1
  <2>3. PICK f \in [0..(m - 1) -> Nat] : \A n \in 0..(m - 1) : f[n] = value(f, n)
    BY <2>1, <2>2
  <2>4. f = [n \in Nodes |-> value(f, n)]
    <3> HIDE DEF value
    <3> QED BY <2>1, <2>3
  <2> QED BY <2>4
<1>3. Depth = [n \in Nodes |-> value(Depth, n)]
  BY <1>2 DEF Depth, Nodes
<1> DEFINE odd == {n \in Nodes : Depth[n] \notin Nat}
<1>4. odd = {}
  <2> SUFFICES ASSUME odd # {} PROVE FALSE
    OBVIOUS
  <2>1. odd \subseteq 0..m /\ m \in Nat
    BY DEF Upward
  <2>2. PICK n \in odd : \A j \in odd : n >= j
    <3> HIDE DEF odd
    <3> QED BY <2>1, GreatestNumber
  <2>3. n \in Nodes /\ Depth[n] \notin Nat /\ Depth[n] = value(Depth, n)
    BY <1>3
  <2>4. parent[n] # NoNode /\ Depth[n] = 1 + Depth[parent[n]]
    BY <2>3
  <2>5. parent[n] \in (n + 1)..(m - 1) /\ n \in 0..(m - 1) /\ Nodes = 0..(m - 1)
    BY <2>1, <2>3, <2>4 DEF Upward
  <2>6. parent[n] \in Nodes /\ ~(n >= parent[n])
    BY <2>1, <2>5
  <2>7. Depth[parent[n]] \in Nat
    BY <2>2, <2>6
  <2>8. 1 + Depth[parent[n]] \in Nat
    BY <2>7
  <2> QED BY <2>3, <2>4, <2>8
<1> HIDE DEF value
<1>5. \A n \in Nodes : Depth[n] = value(Depth, n)
  BY <1>3
<1> QED BY <1>4, <1>5 DEF value
-----------------------------------------------------------------------------
(* The codes that are written: all are shorter than a word. *)

LEMMA Sizes ==
    /\ CodeCount \in Nat /\ Literals \in Nat /\ CodeCount > Literals + 1
    /\ MaxBits \in Nat /\ MaxBits >= 2 /\ MaxBits <= 15 /\ MaxBits + 5 < WordBits /\ WordBits \in Nat
    /\ ZeroBits \in Nat /\ ZeroBits < WordBits
    /\ LongestZeros \in Nat /\ LongestZeros >= 11
    /\ WeightLimit \in Positive
BY HuffmanAssumption, WordBitsAssumption DEF HuffmanAssumption, LongestZeros, Positive

LEMMA FieldIs ==
    ASSUME NEW v, NEW n \in Nat
    PROVE  Field(v, n) \in Codes /\ Len(Field(v, n)) = n
<1> DEFINE bit(i) == Bit(v, i - 1)
<1>1. \A i \in 1..n : bit(i) \in {0, 1}
  BY DEF Bit
<1> HIDE DEF bit
<1>2. [i \in 1..n |-> bit(i)] \in [1..n -> {0, 1}]
  BY <1>1
<1>3. Field(v, n) = [i \in 1..n |-> bit(i)]
  BY DEF Field, bit
<1> QED BY <1>2, <1>3, LenProperties DEF Codes

LEMMA ShortField ==
    ASSUME NEW v, NEW n \in Nat, n < WordBits
    PROVE  Field(v, n) \in ShortCodes
BY FieldIs DEF ShortCodes

LEMMA ShortLengthSymbol ==
    ASSUME NEW k \in 0..18
    PROVE  LengthSymbol(k) \in ShortCodes
<1>1. LengthAlphabet[k + 1][2] \in 3..6
  <2>1. \/ k = 0 \/ k = 1 \/ k = 2 \/ k = 3 \/ k = 4 \/ k = 5 \/ k = 6 \/ k = 7 \/ k = 8 \/ k = 9
        \/ k = 10 \/ k = 11 \/ k = 12 \/ k = 13 \/ k = 14 \/ k = 15 \/ k = 16 \/ k = 17 \/ k = 18
    OBVIOUS
  <2> QED BY <2>1 DEF LengthAlphabet
<1>2. LengthAlphabet[k + 1][2] \in Nat /\ LengthAlphabet[k + 1][2] < WordBits
  BY <1>1, Sizes
<1> QED BY <1>2, ShortField DEF LengthSymbol

LEMMA ShortHeader == <<Field(5, 3)>> \o Header \in Seq(ShortCodes)
<1> DEFINE width(i) == Field(LengthAlphabet[Zigzag[i] + 1][2], 3)
           counts == <<Field(CodeCount - Literals - 1, 5), Field(4 - 1, 5), Field(19 - 4, 4)>>
           widths == [i \in 1..19 |-> width(i)]
<1>1. 3 < WordBits /\ 4 < WordBits /\ 5 < WordBits
  BY Sizes
<1>2. \A i \in 1..19 : width(i) \in ShortCodes
  BY <1>1, ShortField
<1> HIDE DEF width
<1>3. widths \in Seq(ShortCodes)
  BY <1>2
<1> HIDE DEF widths
<1>4. counts \in Seq(ShortCodes) /\ <<Field(5, 3)>> \in Seq(ShortCodes)
  BY <1>1, ShortField
<1> HIDE DEF counts
<1>5. counts \o widths \in Seq(ShortCodes)
  BY <1>3, <1>4, ConcatProperties
<1>6. Header = counts \o widths
  BY DEF Header, counts, widths, width
<1> QED BY <1>4, <1>5, <1>6, ConcatProperties

\* Runs of equal lengths are in the alphabet.
LEMMA RunFits ==
    ASSUME NEW s \in Symbols
    PROVE  Repeats(s) \in 1..(CodeCount - s)
<1> DEFINE S == {n \in 1..(CodeCount - s) : \A k \in 0..(n - 1) : length[s + k] = length[s]}
<1>1. s \in Nat /\ CodeCount - s \in Nat /\ CodeCount - s >= 1
  BY Sizes DEF Symbols
<1>2. 1 \in S
  <2>1. \A k \in 0..(1 - 1) : k = 0
    OBVIOUS
  <2>2. s + 0 = s
    BY <1>1
  <2> QED BY <1>1, <2>1, <2>2
<1>3. S \subseteq 0..(CodeCount - s)
  BY <1>1
<1>4. PICK n \in S : \A m \in S : n >= m
  <2> HIDE DEF S
  <2> QED BY <1>1, <1>2, <1>3, GreatestNumber
<1>5. Max(S) \in S
  <2> HIDE DEF S
  <2> QED BY <1>4, Zenon DEF Max
<1> QED BY <1>5 DEF Repeats

LEMMA CopyFacts ==
    ASSUME NEW n \in Nat
    PROVE  /\ Sixes(n) \in Nat /\ AfterSixes(n) \in 0..n
           /\ AfterThree(n) \in 0..n /\ Copied(n) \in 0..n
           /\ CopyCounts(n) \in Seq(Nat)
<1>1. Sixes(n) \in Nat /\ 6 * Sixes(n) <= n
  <2>1. CASE n >= 9
    <3>1. /\ (n - 9) \div 6 \in Int /\ 6 * ((n - 9) \div 6) \in Int
          /\ n - 9 = 6 * ((n - 9) \div 6) + ((n - 9) % 6)
          /\ 0 <= (n - 9) % 6 /\ (n - 9) % 6 \in Int
      <4>1. 6 \in Positive /\ n - 9 \in Int
        BY DEF Positive
      <4> QED BY <4>1, Division
    <3>2. (n - 9) \div 6 >= 0
      BY <2>1
    <3> QED BY <2>1, <3>1, <3>2 DEF Sixes
  <2>2. CASE ~(n >= 9)
    BY <2>2 DEF Sixes
  <2> QED BY <2>1, <2>2
<1>2. AfterSixes(n) \in 0..n
  BY <1>1 DEF AfterSixes
<1>3. AfterThree(n) \in 0..n
  BY <1>2 DEF AfterThree
<1>4. Copied(n) \in 0..n
  BY <1>3 DEF Copied
<1> DEFINE sixes == [i \in 1..Sixes(n) |-> 6]
           three == IF AfterSixes(n) > 6 THEN <<3>> ELSE << >>
           rest  == IF AfterThree(n) > 3 THEN <<AfterThree(n)>> ELSE << >>
<1>5. sixes \in Seq(Nat)
  BY <1>1
<1>6. three \in Seq(Nat)
  OBVIOUS
<1>7. rest \in Seq(Nat)
  <2>1. AfterThree(n) \in Nat
    BY <1>3
  <2> QED BY <2>1
<1> HIDE DEF sixes, three, rest
<1>8. sixes \o three \o rest \in Seq(Nat)
  BY <1>5, <1>6, <1>7
<1>9. CopyCounts(n) = sixes \o three \o rest
  BY DEF CopyCounts, sixes, three, rest
<1> QED BY <1>1, <1>2, <1>3, <1>4, <1>8, <1>9

LEMMA ShortCopies ==
    ASSUME NEW counts \in Seq(Nat)
    PROVE  Copies(counts) \in Seq(ShortCodes)
<1> DEFINE code(j) == IF j % 2 = 1 THEN LengthSymbol(16) ELSE Field(counts[j \div 2] - 3, 2)
<1>1. \A j \in 1..(2 * Len(counts)) : code(j) \in ShortCodes
  <2>1. LengthSymbol(16) \in ShortCodes
    BY ShortLengthSymbol
  <2>2. 2 \in Nat /\ 2 < WordBits
    BY Sizes
  <2> QED BY <2>1, <2>2, ShortField
<1>2. 2 * Len(counts) \in Nat
  OBVIOUS
<1> HIDE DEF code
<1>3. [j \in 1..(2 * Len(counts)) |-> code(j)] \in Seq(ShortCodes)
  BY <1>1, <1>2
<1> QED BY <1>3 DEF Copies, code

\* One iteration of the loop of huffman_write_alphabet.
LEMMA RunWrites ==
    ASSUME NEW s \in Symbols, length[s] \in 0..MaxBits
    PROVE  Run(s).codes \in Seq(ShortCodes) /\ Run(s).symbols \in 1..(CodeCount - s)
<1> DEFINE n == Repeats(s)
           zeros == IF n > LongestZeros THEN LongestZeros ELSE n
<1>1. n \in 1..(CodeCount - s) /\ n \in Nat /\ s \in Nat
  BY RunFits DEF Symbols
<1>2. LengthSymbol(length[s]) \in ShortCodes
  <2>1. length[s] \in 0..18
    BY Sizes
  <2> QED BY <2>1, ShortLengthSymbol
<1> HIDE DEF n
<1>3. CASE n < 3
  <2>1. Run(s) = [codes |-> <<LengthSymbol(length[s])>>, symbols |-> 1]
    <3>1. n \notin 3..10 /\ ~(n > 10)
      BY <1>1, <1>3
    <3> QED BY <1>3, <3>1 DEF Run, n
  <2>2. 1 \in 1..(CodeCount - s)
    BY <1>1, Sizes
  <2> QED BY <1>2, <2>1, <2>2
<1>4. CASE n \in 3..10 /\ length[s] = 0
  <2>1. ~(n < 3)
    BY <1>1, <1>4
  <2>2. Run(s) = [codes |-> <<LengthSymbol(17), Field(n - 3, 3)>>, symbols |-> n]
    BY <1>4, <2>1 DEF Run, n
  <2>3. LengthSymbol(17) \in ShortCodes /\ Field(n - 3, 3) \in ShortCodes
    BY Sizes, ShortField, ShortLengthSymbol
  <2> QED BY <1>1, <2>2, <2>3
<1>5. CASE n > 10 /\ length[s] = 0
  <2>1. ~(n < 3) /\ n \notin 3..10
    BY <1>1, <1>5
  <2>2. Run(s) = [codes |-> <<LengthSymbol(18), Field(zeros - 11, ZeroBits)>>, symbols |-> zeros]
    BY <1>5, <2>1 DEF Run, n
  <2>3. LengthSymbol(18) \in ShortCodes /\ Field(zeros - 11, ZeroBits) \in ShortCodes
    <3> HIDE DEF zeros
    <3> QED BY Sizes, ShortField, ShortLengthSymbol
  <2>4. zeros \in 1..(CodeCount - s)
    BY <1>1, Sizes
  <2> QED BY <2>2, <2>3, <2>4
<1>6. CASE n >= 3 /\ length[s] # 0
  <2>1. ~(n < 3)
    BY <1>1, <1>6
  <2>2. Run(s) = [codes   |-> <<LengthSymbol(length[s])>> \o Copies(CopyCounts(n - 1)),
                  symbols |-> 1 + Copied(n - 1)]
    BY <1>6, <2>1 DEF Run, n
  <2>3. n - 1 \in Nat
    BY <1>1
  <2>4. Copies(CopyCounts(n - 1)) \in Seq(ShortCodes) /\ Copied(n - 1) \in 0..(n - 1)
    BY <2>3, CopyFacts, ShortCopies
  <2>5. <<LengthSymbol(length[s])>> \o Copies(CopyCounts(n - 1)) \in Seq(ShortCodes)
    BY <1>2, <2>4, ConcatProperties
  <2>6. 1 + Copied(n - 1) \in 1..(CodeCount - s)
    BY <1>1, <2>4, Sizes
  <2> QED BY <2>2, <2>5, <2>6
<1>7. n < 3 \/ n \in 3..10 \/ n > 10
  BY <1>1
<1>8. n >= 3 \/ n < 3
  BY <1>1
<1> QED BY <1>3, <1>4, <1>5, <1>6, <1>7, <1>8
-----------------------------------------------------------------------------
(* The codes deflate_compress puts together. *)

AlphabetCodes == {code \in Codes : Len(code) <= MaxBits}

AlphabetInv ==
    /\ length \in [Symbols -> 0..MaxBits]
    /\ codes \in [Symbols -> AlphabetCodes]

LEMMA Shorter ==
    /\ AlphabetCodes \subseteq ShortCodes /\ AlphabetCodes \subseteq Codes
    /\ ShortCodes \subseteq Codes
    /\ {code \in Codes : Len(code) <= CombinedBits} \subseteq ShortCodes
<1>1. \A code \in Codes : Len(code) \in Nat
  BY LenProperties DEF Codes
<1>2. /\ WordBits \in Nat /\ MaxBits \in Nat /\ MaxBits < WordBits
      /\ CombinedBits \in Nat /\ CombinedBits < WordBits
  BY Sizes, DeflateAssumption DEF DeflateAssumption
<1> QED BY <1>1, <1>2 DEF AlphabetCodes, ShortCodes

LEMMA Concatenated ==
    ASSUME NEW a \in Codes, NEW b \in Codes
    PROVE  a \o b \in Codes /\ Len(a \o b) = Len(a) + Len(b) /\ Len(a) \in Nat /\ Len(b) \in Nat
BY ConcatProperties, LenProperties DEF Codes

LEMMA DistanceCodes == Distance1 \in AlphabetCodes /\ Distance4 \in AlphabetCodes
BY Sizes DEF Distance1, Distance4, AlphabetCodes, Codes

LEMMA LengthCodeIsShort ==
    ASSUME AlphabetInv, NEW n \in Nat, n >= 1, 4 * (n - 1) <= MaxRepeat - 4
    PROVE  LengthCode(4 * n) \in ShortCodes
<1>1. MaxRepeat \in 13..257
  BY DeflateAssumption DEF DeflateAssumption
<1>2. n \in 1..MaxRepeat
  BY <1>1
<1>3. LengthIndex(4 * n) \in Symbols
  BY <1>2, LengthAssumption DEF LengthAssumption
<1> DEFINE m == 4 * n
<1>4. m \in 4..257
  BY <1>1
<1> HIDE DEF m
<1>5. Branch(m)[3] \in 0..5
  <2>1. CASE m < 11
    <3>1. /\ m \notin 11..18 /\ m \notin 19..34 /\ m \notin 35..66
          /\ m \notin 67..130 /\ ~(m > 130)
      BY <1>4, <2>1
    <3> QED BY <2>1, <3>1 DEF Branch
  <2>2. CASE m \in 11..18
    <3>1. /\ ~(m < 11) /\ m \notin 19..34 /\ m \notin 35..66
          /\ m \notin 67..130 /\ ~(m > 130)
      BY <2>2
    <3> QED BY <2>2, <3>1 DEF Branch
  <2>3. CASE m \in 19..34
    <3>1. /\ ~(m < 11) /\ m \notin 11..18 /\ m \notin 35..66
          /\ m \notin 67..130 /\ ~(m > 130)
      BY <2>3
    <3> QED BY <2>3, <3>1 DEF Branch
  <2>4. CASE m \in 35..66
    <3>1. /\ ~(m < 11) /\ m \notin 11..18 /\ m \notin 19..34
          /\ m \notin 67..130 /\ ~(m > 130)
      BY <2>4
    <3> QED BY <2>4, <3>1 DEF Branch
  <2>5. CASE m \in 67..130
    <3>1. /\ ~(m < 11) /\ m \notin 11..18 /\ m \notin 19..34
          /\ m \notin 35..66 /\ ~(m > 130)
      BY <2>5
    <3> QED BY <2>5, <3>1 DEF Branch
  <2>6. CASE m > 130
    <3>1. /\ ~(m < 11) /\ m \notin 11..18 /\ m \notin 19..34
          /\ m \notin 35..66 /\ m \notin 67..130
      BY <1>4, <2>6
    <3> QED BY <2>6, <3>1 DEF Branch
  <2> QED BY <1>4, <2>1, <2>2, <2>3, <2>4, <2>5, <2>6
<1> DEFINE extra == Field(m - Branch(m)[1], Branch(m)[3])
           first == codes[LengthIndex(m)]
<1>6. extra \in Codes /\ Len(extra) <= 5
  BY <1>5, FieldIs
<1>7. first \in Codes /\ Len(first) <= MaxBits
  BY <1>3 DEF m, AlphabetInv, AlphabetCodes
<1> HIDE DEF extra, first
<1>8. first \o extra \in Codes /\ Len(first \o extra) <= MaxBits + 5
  <2>1. /\ first \o extra \in Codes /\ Len(first \o extra) = Len(first) + Len(extra)
        /\ Len(first) \in Nat /\ Len(extra) \in Nat
    BY <1>6, <1>7, Concatenated
  <2>2. MaxBits \in Nat
    BY Sizes
  <2> QED BY <1>6, <1>7, <2>1, <2>2
<1>9. LengthCode(m) = first \o extra
  BY DEF LengthCode, extra, first
<1>10. LengthCode(m) \in ShortCodes
  <2>1. Len(LengthCode(m)) \in Nat
    BY <1>8, <1>9, LenProperties DEF Codes
  <2> QED BY <1>8, <1>9, <2>1, Sizes DEF ShortCodes
<1> QED BY <1>10 DEF m

LEMMA CodesOfWord ==
    ASSUME AlphabetInv, NEW w \in Words
    PROVE  CodesOf(w) \in Seq(AlphabetCodes) /\ Len(CodesOf(w)) \in 1..4
<1>1. \A k \in 1..4 : Preprocess[w][k] \in Symbols
  <2>1. Preprocess[w] \in [1..4 -> 0..(Literals - 1)]
    BY DeflateAssumption DEF DeflateAssumption
  <2> QED BY <2>1, Sizes DEF Symbols
<1>2. Literals + 1 \in Symbols
  BY Sizes DEF Symbols
<1>3. CASE w = Uniform(Preprocess[w][1])
  <2>1. CodesOf(w) = <<codes[Preprocess[w][1]], codes[Literals + 1], Distance1>>
    BY <1>3 DEF CodesOf
  <2>2. codes[Preprocess[w][1]] \in AlphabetCodes /\ codes[Literals + 1] \in AlphabetCodes
    BY <1>1, <1>2 DEF AlphabetInv
  <2> QED BY <2>1, <2>2, DistanceCodes
<1>4. CASE w # Uniform(Preprocess[w][1])
  <2>1. CodesOf(w) = [k \in 1..4 |-> codes[Preprocess[w][k]]]
    BY <1>4 DEF CodesOf
  <2>2. CodesOf(w) \in [1..4 -> AlphabetCodes]
    BY <1>1, <2>1 DEF AlphabetInv
  <2> DEFINE list == CodesOf(w)
  <2> HIDE DEF list
  <2>3. list \in [1..4 -> AlphabetCodes]
    BY <2>2 DEF list
  <2>4. ASSUME NEW n \in Nat, n = 4 PROVE list \in Seq(AlphabetCodes) /\ Len(list) = n
    <3>1. list \in [1..n -> AlphabetCodes]
      BY <2>3, <2>4
    <3> QED BY <3>1, LenProperties
  <2>5. list \in Seq(AlphabetCodes) /\ Len(list) = 4
    BY <2>4
  <2> QED BY <2>5 DEF list
<1> QED BY <1>3, <1>4

LEMMA JoinedIsCode ==
    ASSUME NEW list \in Seq(Codes)
    PROVE  Joined(list) \in Codes
<1> DEFINE code(k) == IF k <= Len(list) THEN list[k] ELSE << >>
<1>1. \A k \in 1..4 : code(k) \in Codes
  BY LenProperties DEF Codes
<1> HIDE DEF code
<1>2. code(1) \o code(2) \in Codes
  BY <1>1, Concatenated
<1>3. code(1) \o code(2) \o code(3) \in Codes
  BY <1>1, <1>2, Concatenated
<1>4. code(1) \o code(2) \o code(3) \o code(4) \in Codes
  BY <1>1, <1>3, Concatenated
<1> QED BY <1>4 DEF Joined, code

\* The counts deflate_init makes.
LEMMA CountedIs ==
    ASSUME NEW words \in Seq(Words)
    PROVE  Counted(words) \in [Symbols -> Nat]
<1> DEFINE sampled == {i \in 4..(Len(words) - 1) : (i - 4) % SampleStep(words) = 0}
           Is(i, k, s) == k \in DOMAIN SymbolsOf(words, i) /\ SymbolsOf(words, i)[k] = s
           pairs(s) == {p \in sampled \X (1..5) : Is(p[1], p[2], s)}
<1>1. IsFiniteSet(sampled)
  <2>1. 4 \in Int /\ Len(words) - 1 \in Int
    BY LenProperties
  <2>2. IsFiniteSet(4..(Len(words) - 1))
    BY <2>1, FS_Interval
  <2>3. sampled \in SUBSET (4..(Len(words) - 1))
    OBVIOUS
  <2> HIDE DEF sampled
  <2> QED BY <2>2, <2>3, FS_Subset
<1> HIDE DEF sampled
<1>2. IsFiniteSet(1..5)
  <2>1. 1 \in Int /\ 5 \in Int
    OBVIOUS
  <2> QED BY <2>1, FS_Interval
<1>3. IsFiniteSet(sampled \X (1..5))
  BY <1>1, <1>2, FS_Product
<1>4. \A s \in Symbols : Cardinality(pairs(s)) \in Nat
  <2> SUFFICES ASSUME NEW s \in Symbols PROVE Cardinality(pairs(s)) \in Nat
    OBVIOUS
  <2>1. pairs(s) \in SUBSET (sampled \X (1..5))
    BY Zenon
  <2> HIDE DEF pairs
  <2> QED BY <1>3, <2>1, FS_Subset, FS_CardinalityType
<1>5. \A s \in Symbols : InitialCounts[s] \in Nat
  BY DEF InitialCounts
<1> DEFINE count(s) == InitialCounts[s] + Cardinality(pairs(s))
<1>6. \A s \in Symbols : count(s) \in Nat
  BY <1>4, <1>5
<1>7. Counted(words) = [s \in Symbols |-> count(s)]
  BY DEF Counted, sampled
<1> HIDE DEF count
<1> QED BY <1>6, <1>7
-----------------------------------------------------------------------------
(* The invariants. *)

Stages == {"start", "leaves", "combine", "balance", "created",
           "describe", "described", "ready", "loop", "ended"}

\* Where the loops over the symbols are, and what they leave to be written.
LoopInv ==
    /\ stage \in Stages
    /\ at \in 0..CodeCount /\ longest \in Symbols
    /\ stage = "start" => at = 0
    /\ stage \in {"leaves", "balance"} => at < CodeCount
    /\ unwritten \in Seq(ShortCodes)

TreeInv ==
    stage # "start" =>
        \E m \in Nat :
            /\ m >= CodeCount /\ Upward(m)
            /\ \A n \in 0..(m - 1) : parent[n] \notin Symbols
            /\ weight \in [0..(m - 1) -> 0..(WeightLimit - 1)]
            /\ heap \in Seq(0..(m - 1))

InputInv ==
    /\ data \in Seq(Words) /\ index \in 0..Len(data) /\ space \in BOOLEAN
    /\ calls \in Nat

StreamInv == WellFormed(stream)

ShortEnough == {code \in Codes : Len(code) <= CombinedBits}

Caches == [Keys -> [literal : Words, code : ShortEnough]]

\* Until the alphabet has been written the cache holds no word; after that it
\* holds words with the codes they have.
CacheInv ==
    /\ Initialized => cache \in Caches
    /\ stage = "loop" => cache \in Caches
    /\ cache \in Caches /\ stage \notin {"ready", "loop", "ended"} =>
          \A w \in Words : ~InCache(w)
    /\ cache \in Caches /\ stage \in {"ready", "loop"} =>
          \A w \in Words : InCache(w) => cache[Hash[w]].code = Joined(CodesOf(w))

DeflateInv == LoopInv /\ TreeInv /\ AlphabetInv /\ InputInv /\ StreamInv /\ CacheInv

LEMMA SymbolFacts ==
    /\ Symbols = 0..(CodeCount - 1) /\ 0 \in Symbols /\ 0 < CodeCount /\ 1 < CodeCount
    /\ Literals \in Symbols /\ CodeCount \in Nat
BY Sizes DEF Symbols

LEMMA WordFacts ==
    /\ Zero \in Words /\ FirstInvalid \in Words /\ Hash \in [Words -> Keys]
    /\ Hash[FirstInvalid] # Hash[Zero]
BY DeflateAssumption DEF DeflateAssumption

LEMMA NoCache == << >> \notin Caches
<1>1. Hash[Zero] \in Keys
  BY WordFacts
<1>2. \A c \in Caches : DOMAIN c = Keys
  BY DEF Caches
<1>3. DOMAIN << >> = {}
  OBVIOUS
<1> QED BY <1>1, <1>2, <1>3

LEMMA InvInit == Init => DeflateInv
<1> SUFFICES ASSUME Init PROVE DeflateInv
  OBVIOUS
<1>1. << >> \in Seq(ShortCodes) /\ << >> \in Seq(Words) /\ Len(<< >>) = 0
  OBVIOUS
<1>2. LoopInv
  BY <1>1, SymbolFacts DEF Init, HuffmanIdle, LoopInv, Stages
<1>3. TreeInv
  BY DEF Init, TreeInv
<1>4. AlphabetInv
  <2>1. 0 \in 0..MaxBits /\ << >> \in AlphabetCodes
    BY Sizes DEF AlphabetCodes, Codes
  <2> QED BY <2>1 DEF Init, HuffmanIdle, AlphabetInv
<1>5. InputInv
  BY <1>1 DEF Init, InputInv
<1>6. StreamInv
  BY NewIsEmpty DEF Init, StreamInv
<1>7. CacheInv
  BY NoCache DEF Init, CacheInv, Initialized
<1> QED BY <1>2, <1>3, <1>4, <1>5, <1>6, <1>7 DEF DeflateInv

\* The steps that leave the alphabet and the tree alone.
LEMMA Unchanging ==
    ASSUME AlphabetInv, UNCHANGED <<length, codes>>
    PROVE  AlphabetInv'
BY DEF AlphabetInv

LEMMA TreeStays ==
    ASSUME TreeInv, stage # "start", UNCHANGED tree
    PROVE  TreeInv'
BY DEF TreeInv, tree, Upward, Nodes

LEMMA LoopNext ==
    ASSUME DeflateInv, Next
    PROVE  LoopInv'
<1> USE DEF tree, balance, huffmanVars, input
<1>1. LoopInv /\ AlphabetInv
  BY DEF DeflateInv
<1>2. CASE DeflateInit \/ CreateAlphabet
  BY <1>1, <1>2, SymbolFacts DEF LoopInv, Stages, DeflateInit, CreateAlphabet, StartTree
<1>3. CASE InsertLeaf
  BY <1>1, <1>3, SymbolFacts DEF LoopInv, Stages, InsertLeaf
<1>4. CASE Combine
  BY <1>1, <1>4 DEF LoopInv, Stages, Combine
<1>5. CASE MeasureLengths
  BY <1>1, <1>5, SymbolFacts DEF LoopInv, Stages, MeasureLengths
<1>6. CASE Balance
  <2>1. at' \in 0..(CodeCount - 1) /\ longest' \in Symbols
    BY <1>1, <1>6, SymbolFacts DEF LoopInv, Balance
  <2> QED BY <1>1, <1>6, <2>1, SymbolFacts DEF LoopInv, Stages, Balance
<1>7. CASE AssignBitstrings
  BY <1>1, <1>7 DEF LoopInv, Stages, AssignBitstrings
<1>8. CASE DescribeLengths
  <2>1. at \in Symbols /\ length[at] \in 0..MaxBits /\ at \in Nat
    BY <1>1, <1>8, SymbolFacts DEF LoopInv, AlphabetInv, DescribeLengths
  <2>2. Run(at).codes \in Seq(ShortCodes) /\ Run(at).symbols \in 1..(CodeCount - at)
    BY <2>1, RunWrites
  <2>3. at' \in 0..CodeCount /\ unwritten' \in Seq(ShortCodes)
    BY <1>8, <2>1, <2>2, SymbolFacts DEF DescribeLengths
  <2> QED BY <1>1, <1>8, <2>3 DEF LoopInv, Stages, DescribeLengths
<1>9. CASE DescribeDistances
  <2>1. /\ LengthSymbol(0) \in ShortCodes /\ LengthSymbol(1) \in ShortCodes
    BY ShortLengthSymbol
  <2>2. unwritten' \in Seq(ShortCodes)
    BY <1>9, <2>1 DEF DescribeDistances
  <2> QED BY <1>1, <1>9, <2>2 DEF LoopInv, Stages, DescribeDistances
<1>10. CASE StartBlock
  BY <1>1, <1>10, ShortHeader, SymbolFacts DEF LoopInv, Stages, StartBlock
<1>11. CASE WriteCode
  <2>1. unwritten' \in Seq(ShortCodes)
    BY <1>1, <1>11, HeadTailProperties DEF LoopInv, WriteCode
  <2> QED BY <1>1, <1>11, <2>1 DEF LoopInv, Stages, WriteCode
<1>12. CASE DeflateCompress \/ CompressReturn \/ EndBlock
  BY <1>1, <1>12 DEF LoopInv, Stages, DeflateCompress, CompressReturn, EndBlock
<1>13. CASE CompressRepeat \/ CompressCached \/ CompressWord
  BY <1>1, <1>13 DEF LoopInv, Stages, CompressRepeat, CompressCached, CompressWord
<1> QED BY <1>2, <1>3, <1>4, <1>5, <1>6, <1>7, <1>8, <1>9, <1>10, <1>11, <1>12, <1>13
        DEF Next, HuffmanStep

\* The least number of a set that Balance looks for.
LEMMA LeastIs ==
    ASSUME NEW S, S \subseteq Nat, S # {}
    PROVE  Min(S) \in S
<1>1. PICK n \in S : \A m \in S : n <= m
  BY LeastNumber
<1> QED BY <1>1, Zenon DEF Min

LEMMA AlphabetNext ==
    ASSUME DeflateInv, Next
    PROVE  AlphabetInv'
<1>1. /\ length \in [Symbols -> 0..MaxBits] /\ codes \in [Symbols -> AlphabetCodes]
      /\ AlphabetInv /\ LoopInv
  BY DEF DeflateInv, AlphabetInv
<1>2. CASE MeasureLengths
  <2>1. PICK m \in Nat : m >= CodeCount /\ Upward(m)
    BY <1>2 DEF DeflateInv, TreeInv, MeasureLengths
  <2>2. \A s \in Symbols : Depth[s] \in Nat
    <3>1. \A n \in Nodes : Depth[n] \in Nat
      BY <2>1, DepthIsNumber
    <3>2. Symbols \subseteq Nodes
      BY <2>1, SymbolFacts DEF Upward
    <3> QED BY <3>1, <3>2
  <2>3. \A s \in Symbols : (IF Depth[s] > MaxBits THEN MaxBits ELSE Depth[s]) \in 0..MaxBits
    BY <2>2, Sizes
  <2>4. /\ length' = [s \in Symbols |-> IF Depth[s] > MaxBits THEN MaxBits ELSE Depth[s]]
        /\ codes' = codes
    BY <1>2 DEF MeasureLengths
  <2> QED BY <1>1, <2>3, <2>4 DEF AlphabetInv
<1>3. CASE Balance
  <2> DEFINE longer == length[at] < MaxBits /\ length[at] > length[longest]
             target == IF longer THEN at ELSE longest
             found  == longer /\ length[at] = MaxBits - 1
             room   == MaxBits - length[target]
             enough == {n \in 0..room : n = room \/ MakesUp(length[target], n) >= tooLong}
             extra  == IF found THEN 0 ELSE Min(enough)
  <2>1. at \in Symbols /\ longest \in Symbols
    BY <1>1, <1>3, SymbolFacts DEF LoopInv, Balance
  <2>2. target \in Symbols
    BY <2>1
  <2>3. length' = [length EXCEPT ![target] = @ + extra] /\ codes' = codes
    BY <1>3 DEF Balance
  <2> HIDE DEF target, found
  <2>4. length[target] \in 0..MaxBits /\ room \in Nat
    BY <1>1, <2>2, Sizes
  <2>5. Min(enough) \in 0..room
    <3>1. enough \subseteq Nat /\ room \in enough
      BY <2>4
    <3>2. Min(enough) \in enough
      <4> HIDE DEF enough
      <4> QED BY <3>1, LeastIs
    <3> QED BY <3>2
  <2>6. extra \in 0..room
    <3> HIDE DEF enough
    <3> QED BY <2>4, <2>5
  <2> HIDE DEF extra
  <2>7. length[target] + extra \in 0..MaxBits
    BY <2>4, <2>6, Sizes
  <2> QED BY <1>1, <2>2, <2>3, <2>7 DEF AlphabetInv
<1>4. CASE AssignBitstrings
  <2>1. ASSUME NEW s \in Symbols PROVE Bitstring(s) \in AlphabetCodes
    <3> DEFINE value == NextCode[length[s]] + Cardinality({t \in OfLength(length[s]) : t < s})
               n == length[s]
               bit(i) == Bit(value, n - i)
    <3>1. n \in Nat /\ n <= MaxBits
      BY <1>1, Sizes
    <3>2. Bitstring(s) = [i \in 1..n |-> bit(i)]
      BY DEF Bitstring
    <3>3. \A i \in 1..n : bit(i) \in {0, 1}
      BY DEF Bit
    <3> HIDE DEF value, n, bit
    <3>4. [i \in 1..n |-> bit(i)] \in [1..n -> {0, 1}]
      BY <3>3
    <3>5. Bitstring(s) \in Seq({0, 1}) /\ Len(Bitstring(s)) = n
      BY <3>1, <3>2, <3>4, LenProperties
    <3> QED BY <3>1, <3>5 DEF AlphabetCodes, Codes
  <2>2. codes' = [s \in Symbols |-> Bitstring(s)] /\ length' = length
    BY <1>4 DEF AssignBitstrings, balance
  <2> QED BY <1>1, <2>1, <2>2 DEF AlphabetInv
<1>5. CASE DeflateInit \/ CreateAlphabet \/ InsertLeaf \/ Combine
  BY <1>1, <1>5, Unchanging DEF DeflateInit, CreateAlphabet, InsertLeaf, Combine
<1>6. CASE DescribeLengths \/ DescribeDistances \/ StartBlock \/ WriteCode
  BY <1>1, <1>6, Unchanging DEF DescribeLengths, DescribeDistances, StartBlock, WriteCode
<1>7. CASE DeflateCompress \/ CompressReturn \/ EndBlock
  BY <1>1, <1>7, Unchanging DEF DeflateCompress, CompressReturn, EndBlock
<1>8. CASE CompressRepeat \/ CompressCached \/ CompressWord
  BY <1>1, <1>8, Unchanging DEF CompressRepeat, CompressCached, CompressWord, huffmanVars
<1> QED BY <1>2, <1>3, <1>4, <1>5, <1>6, <1>7, <1>8 DEF Next, HuffmanStep

\* The leaves, with counts cut to 16 bits.
LEMMA LeavesAreTree ==
    ASSUME NEW counts \in [Symbols -> Nat], StartTree(counts)
    PROVE  TreeInv'
<1> DEFINE m == CodeCount
           w == [s \in 0..(m - 1) |-> counts[s] % WeightLimit]
           p == [s \in 0..(m - 1) |-> NoNode]
<1>1. m \in Nat /\ Symbols = 0..(m - 1)
  BY SymbolFacts
<1>2. weight' = w /\ parent' = p /\ heap' = << >>
  BY <1>1 DEF StartTree
<1>3. w \in [0..(m - 1) -> 0..(WeightLimit - 1)]
  <2>1. ASSUME NEW s \in 0..(m - 1) PROVE counts[s] % WeightLimit \in 0..(WeightLimit - 1)
    <3>1. counts[s] \in Int /\ WeightLimit \in Positive
      BY <1>1, Sizes
    <3>2. /\ WeightLimit \in Int /\ counts[s] % WeightLimit \in Int
          /\ 0 <= counts[s] % WeightLimit /\ counts[s] % WeightLimit < WeightLimit
      BY <3>1, Division
    <3> QED BY <3>2
  <2> QED BY <2>1
<1>4. NoNode \notin Symbols
  BY <1>1 DEF NoNode
<1>5. Upward(m)'
  BY <1>1, <1>2 DEF Upward, Nodes
<1> HIDE DEF m, w
<1>6. /\ m >= CodeCount /\ heap' \in Seq(0..(m - 1))
      /\ \A n \in 0..(m - 1) : parent'[n] \notin Symbols
  BY <1>1, <1>2, <1>4 DEF m
<1> QED BY <1>1, <1>2, <1>3, <1>5, <1>6 DEF TreeInv

\* The new node is the last one, and the parent of the two it was made from.
LEMMA CombinedIsTree ==
    ASSUME TreeInv, Combine
    PROVE  TreeInv'
<1> DEFINE first    == heap[1]
           without  == Removed(weight, heap)
           second   == without[1]
           combined == Cardinality(DOMAIN weight)
           sum == (weight[first] + weight[second]) % WeightLimit
           w == [n \in 0..combined |-> IF n = combined THEN sum ELSE weight[n]]
           p == [n \in 0..combined |->
                    CASE n = combined -> NoNode
                      [] n \in {first, second} -> combined
                      [] OTHER -> parent[n]]
<1>1. /\ weight' = w /\ parent' = p
      /\ heap' = Inserted(w, Removed(weight, without), combined)
      /\ Len(heap) > 1
  BY DEF Combine
<1>2. PICK m \in Nat :
        /\ m >= CodeCount /\ Upward(m)
        /\ \A n \in 0..(m - 1) : parent[n] \notin Symbols
        /\ weight \in [0..(m - 1) -> 0..(WeightLimit - 1)]
        /\ heap \in Seq(0..(m - 1))
  BY DEF TreeInv, Combine
<1>3. combined = m
  <2>1. 0 \in Int /\ m - 1 \in Int /\ m - 1 - 0 + 1 = m /\ CodeCount \in Nat /\ CodeCount > 0
    BY SymbolFacts
  <2>2. 0 <= m - 1
    BY <1>2, <2>1
  <2>3. Cardinality(0..(m - 1)) = IF 0 > m - 1 THEN 0 ELSE m - 1 - 0 + 1
    BY <2>1, FS_Interval
  <2>4. DOMAIN weight = 0..(m - 1)
    BY <1>2
  <2> QED BY <2>1, <2>2, <2>3, <2>4
<1>4. Len(heap) \in Nat /\ Len(heap) > 1 /\ first \in 0..(m - 1)
  BY <1>1, <1>2, LenProperties
<1>5. without \in Seq(0..(m - 1)) /\ Len(without) = Len(heap) - 1
  BY <1>2, <1>4, RemovedKeeps
<1> HIDE DEF without
<1>6. second \in 0..(m - 1)
  BY <1>4, <1>5, LenProperties
<1>7. Removed(weight, without) \in Seq(0..(m - 1))
  BY <1>4, <1>5, RemovedKeeps
<1>8. sum \in 0..(WeightLimit - 1)
  <2>1. weight[first] + weight[second] \in Int /\ WeightLimit \in Positive
    BY <1>2, <1>4, <1>6, Sizes
  <2>2. WeightLimit \in Int /\ sum \in Int /\ 0 <= sum /\ sum < WeightLimit
    BY <2>1, Division
  <2> QED BY <2>2
<1> HIDE DEF sum, combined
<1>9. \A n \in 0..m : n = m \/ n \in 0..(m - 1)
  BY <1>2
<1>10. w \in [0..m -> 0..(WeightLimit - 1)]
  BY <1>2, <1>3, <1>8, <1>9
<1> HIDE DEF w
<1>11. heap' \in Seq(0..m)
  <2> DEFINE rest == Removed(weight, without)
  <2>1. rest \in Seq(0..(m - 1)) /\ 0..(m - 1) \subseteq 0..m /\ m \in 0..m
    BY <1>2, <1>7
  <2> HIDE DEF rest
  <2>2. rest \in Seq(0..m)
    BY <2>1, LenProperties
  <2>3. Inserted(w, rest, m) \in Seq(0..m)
    BY <2>1, <2>2, InsertedKeeps
  <2> QED BY <1>1, <1>3, <2>3 DEF rest
<1>12. Nodes = 0..(m - 1) /\ \A n \in 0..(m - 1) : parent[n] = NoNode \/ parent[n] \in (n + 1)..(m - 1)
  BY <1>2 DEF Upward
<1>13. ASSUME NEW n \in 0..m
       PROVE  /\ p[n] = NoNode \/ p[n] \in (n + 1)..m
              /\ p[n] \notin Symbols
  <2>1. m \notin Symbols /\ NoNode \notin Symbols
    BY <1>2, SymbolFacts DEF NoNode
  <2>2. CASE n = m
    <3>0. n \notin {first, second}
      BY <1>2, <1>4, <1>6, <2>2
    <3>1. p[n] = NoNode
      BY <1>3, <2>2, <3>0
    <3> QED BY <2>1, <3>1
  <2>3. CASE n # m /\ n \in {first, second}
    <3>1. p[n] = m
      BY <1>3, <2>3
    <3>2. n \in 0..(m - 1)
      BY <1>9, <2>3
    <3> QED BY <1>2, <2>1, <3>1, <3>2
  <2>4. CASE n # m /\ n \notin {first, second}
    <3>1. p[n] = parent[n]
      BY <1>3, <2>4
    <3>2. n \in 0..(m - 1)
      BY <1>9, <2>4
    <3>3. p[n] = NoNode \/ p[n] \in (n + 1)..(m - 1)
      BY <1>12, <3>1, <3>2
    <3>4. p[n] \notin Symbols
      BY <1>2, <3>1, <3>2
    <3> QED BY <1>2, <3>2, <3>3, <3>4
  <2> QED BY <2>2, <2>3, <2>4
<1>14. DOMAIN parent' = 0..m /\ parent' = p
  BY <1>1, <1>3
<1> HIDE DEF p
<1>15. m + 1 \in Nat /\ m + 1 >= CodeCount /\ (m + 1) - 1 = m
  BY <1>2, SymbolFacts
<1>16. Upward(m + 1)'
  BY <1>13, <1>14, <1>15 DEF Upward, Nodes
<1>17. \A n \in 0..((m + 1) - 1) : parent'[n] \notin Symbols
  BY <1>13, <1>14, <1>15
<1> QED BY <1>1, <1>10, <1>11, <1>15, <1>16, <1>17 DEF TreeInv

LEMMA TreeNext ==
    ASSUME DeflateInv, Next
    PROVE  TreeInv'
<1>1. TreeInv /\ LoopInv
  BY DEF DeflateInv
<1>2. CASE DeflateInit
  <2>1. PICK words \in Trainings : StartTree(Counted(words))
    BY <1>2 DEF DeflateInit
  <2>2. Counted(words) \in [Symbols -> Nat]
    BY CountedIs, DeflateAssumption DEF DeflateAssumption
  <2> QED BY <2>1, <2>2, LeavesAreTree
<1>3. CASE CreateAlphabet
  <2>1. PICK counts \in Counts : StartTree(counts)
    BY <1>3 DEF CreateAlphabet
  <2>2. counts \in [Symbols -> Nat]
    BY DeflateAssumption DEF DeflateAssumption
  <2> QED BY <2>1, <2>2, LeavesAreTree
<1>4. CASE InsertLeaf
  <2>1. PICK m \in Nat :
          /\ m >= CodeCount /\ Upward(m)
          /\ \A n \in 0..(m - 1) : parent[n] \notin Symbols
          /\ weight \in [0..(m - 1) -> 0..(WeightLimit - 1)]
          /\ heap \in Seq(0..(m - 1))
    BY <1>1, <1>4 DEF TreeInv, InsertLeaf
  <2>2. at \in 0..(m - 1)
    BY <1>1, <1>4, <2>1, SymbolFacts DEF LoopInv, InsertLeaf
  <2>3. Inserted(weight, heap, at) \in Seq(0..(m - 1))
    BY <2>1, <2>2, InsertedKeeps
  <2>4. heap' \in Seq(0..(m - 1)) /\ UNCHANGED <<weight, parent>>
    BY <1>4, <2>1, <2>3 DEF InsertLeaf
  <2>5. Upward(m)'
    BY <2>1, <2>4 DEF Upward, Nodes
  <2> QED BY <2>1, <2>4, <2>5 DEF TreeInv
<1>5. CASE Combine
  BY <1>1, <1>5, CombinedIsTree
<1>6. CASE MeasureLengths \/ Balance \/ AssignBitstrings \/ DescribeLengths \/ DescribeDistances
  BY <1>1, <1>6, TreeStays
     DEF MeasureLengths, Balance, AssignBitstrings, DescribeLengths, DescribeDistances
<1>7. CASE StartBlock \/ WriteCode \/ DeflateCompress \/ CompressReturn \/ EndBlock
  BY <1>1, <1>7, TreeStays DEF StartBlock, WriteCode, DeflateCompress, CompressReturn, EndBlock
<1>8. CASE CompressRepeat \/ CompressCached \/ CompressWord
  BY <1>1, <1>8, TreeStays
     DEF CompressRepeat, CompressCached, CompressWord, Iterating, huffmanVars
<1> QED BY <1>2, <1>3, <1>4, <1>5, <1>6, <1>7, <1>8 DEF Next, HuffmanStep

\* An iteration of deflate_compress reads a word of its input and writes one
\* to four codes, each shorter than a word.
LEMMA IterationWrites ==
    ASSUME DeflateInv, CompressRepeat \/ CompressCached \/ CompressWord
    PROVE  /\ index + 1 \in 1..Len(data) /\ Word \in Words /\ cache \in Caches
           /\ \E list \in Seq(ShortCodes) : Len(list) \in 1..4 /\ Write(list)
<1>1. stage = "loop" /\ index < Len(data)
  BY DEF CompressRepeat, CompressCached, CompressWord, Iterating, Continue
<1>2. AlphabetInv /\ data \in Seq(Words) /\ index \in 0..Len(data) /\ cache \in Caches
  BY <1>1 DEF DeflateInv, InputInv, CacheInv
<1>3. index + 1 \in 1..Len(data) /\ Word \in Words
  <2>1. Len(data) \in Nat /\ \A i \in 1..Len(data) : data[i] \in Words
    BY <1>2, LenProperties
  <2> QED BY <1>1, <1>2, <2>1 DEF Word
<1>4. CASE CompressRepeat
  <2>1. PICK n \in 1..Len(data) : RunIs(n) /\ Write(<<LengthCode(4 * n), Distance4>>)
    BY <1>4 DEF CompressRepeat
  <2>2. n \in Nat /\ n >= 1 /\ 4 * (n - 1) <= MaxRepeat - 4
    BY <2>1 DEF RunIs
  <2>3. LengthCode(4 * n) \in ShortCodes /\ Distance4 \in ShortCodes
    BY <1>2, <2>2, LengthCodeIsShort, DistanceCodes, Shorter
  <2>4. /\ <<LengthCode(4 * n), Distance4>> \in Seq(ShortCodes)
        /\ Len(<<LengthCode(4 * n), Distance4>>) \in 1..4
    BY <2>3
  <2> QED BY <1>2, <1>3, <2>1, <2>4
<1>5. CASE CompressCached
  <2>1. Hash[Word] \in Keys
    BY <1>3, WordFacts
  <2>2. cache[Hash[Word]].code \in ShortEnough
    BY <1>2, <2>1 DEF Caches
  <2>3. cache[Hash[Word]].code \in ShortCodes
    BY <2>2, Shorter DEF ShortEnough
  <2>4. /\ <<cache[Hash[Word]].code>> \in Seq(ShortCodes)
        /\ Len(<<cache[Hash[Word]].code>>) \in 1..4
    BY <2>3
  <2> QED BY <1>2, <1>3, <1>5, <2>4 DEF CompressCached
<1>6. CASE CompressWord
  <2> DEFINE list == CodesOf(Word)
             joined == Joined(list)
  <2>1. list \in Seq(AlphabetCodes) /\ Len(list) \in 1..4
    BY <1>2, <1>3, CodesOfWord
  <2>2. /\ Len(joined) <= CombinedBits => Write(<<joined>>)
        /\ ~(Len(joined) <= CombinedBits) => Write(list)
    BY <1>6 DEF CompressWord
  <2> HIDE DEF list
  <2>3. list \in Seq(ShortCodes) /\ list \in Seq(Codes)
    <3>1. \A i \in 1..Len(list) : list[i] \in ShortCodes /\ list[i] \in Codes
      BY <2>1, Shorter, LenProperties
    <3>2. Len(list) \in Nat /\ DOMAIN list = 1..Len(list)
      BY <2>1, LenProperties
    <3>3. list = [i \in 1..Len(list) |-> list[i]]
      BY <2>1, <3>2
    <3> QED BY <3>1, <3>2, <3>3
  <2>4. joined \in Codes
    BY <2>3, JoinedIsCode
  <2> HIDE DEF joined
  <2>5. CASE Len(joined) <= CombinedBits
    <3>1. joined \in ShortCodes
      BY <2>4, <2>5, Shorter
    <3>2. <<joined>> \in Seq(ShortCodes) /\ Len(<<joined>>) \in 1..4
      BY <3>1
    <3> QED BY <1>2, <1>3, <2>2, <2>5, <3>2
  <2>6. CASE ~(Len(joined) <= CombinedBits)
    BY <1>2, <1>3, <2>1, <2>2, <2>3, <2>6
  <2> QED BY <2>5, <2>6
<1> QED BY <1>4, <1>5, <1>6

LEMMA InputNext ==
    ASSUME DeflateInv, Next
    PROVE  InputInv'
<1> USE DEF input
<1>1. data \in Seq(Words) /\ index \in 0..Len(data) /\ space \in BOOLEAN /\ calls \in Nat
  BY DEF DeflateInv, InputInv
<1>2. CASE DeflateInit \/ CreateAlphabet \/ HuffmanStep \/ StartBlock \/ WriteCode \/ EndBlock
  BY <1>1, <1>2
     DEF InputInv, DeflateInit, CreateAlphabet, HuffmanStep, StartBlock, WriteCode, EndBlock
<1>3. CASE DeflateCompress
  <2>1. Inputs \in Seq(SUBSET (Seq(Words) \ {<< >>}))
    BY DeflateAssumption DEF DeflateAssumption
  <2>2. calls + 1 \in 1..Len(Inputs)
    BY <1>1, <1>3, <2>1 DEF DeflateCompress
  <2>3. data' \in Seq(Words)
    <3>1. Inputs[calls + 1] \in SUBSET (Seq(Words) \ {<< >>})
      BY <2>1, <2>2, LenProperties
    <3> QED BY <1>3, <3>1 DEF DeflateCompress
  <2>4. 0 \in 0..Len(data')
    BY <2>3
  <2> QED BY <1>1, <1>3, <2>3, <2>4 DEF DeflateCompress, InputInv
<1>4. CASE CompressReturn
  BY <1>1, <1>4 DEF CompressReturn, InputInv
<1>5. CASE CompressRepeat \/ CompressCached \/ CompressWord
  <2>1. space' \in BOOLEAN
    <3>1. PICK list \in Seq(ShortCodes) : Write(list)
      BY <1>5, IterationWrites
    <3> QED BY <3>1 DEF Write, HasRoom
  <2>2. index' \in 0..Len(data)
    <3>1. CASE CompressRepeat
      <4>1. PICK n \in 1..Len(data) : RunIs(n) /\ index' = index + n
        BY <3>1 DEF CompressRepeat
      <4> QED BY <1>1, <4>1 DEF RunIs
    <3>2. CASE CompressCached \/ CompressWord
      <4>1. index' = index + 1
        BY <3>2 DEF CompressCached, CompressWord
      <4>2. index + 1 \in 1..Len(data)
        BY <1>5, IterationWrites
      <4> QED BY <4>1, <4>2
    <3> QED BY <1>5, <3>1, <3>2
  <2>3. UNCHANGED <<data, calls>>
    BY <1>5 DEF CompressRepeat, CompressCached, CompressWord
  <2> QED BY <1>1, <2>1, <2>2, <2>3 DEF InputInv
<1> QED BY <1>2, <1>3, <1>4, <1>5 DEF Next

LEMMA StreamNext ==
    ASSUME DeflateInv, Next
    PROVE  StreamInv'
<1>1. WellFormed(stream)
  BY DEF DeflateInv, StreamInv
<1>2. CASE UNCHANGED stream
  BY <1>1, <1>2 DEF StreamInv, WellFormed
<1>3. CASE StartBlock
  BY <1>3, NewIsEmpty DEF StartBlock, StreamInv
<1>4. CASE WriteCode
  <2> DEFINE list == <<Head(unwritten)>>
  <2>1. WriteBlindly(list)
    BY <1>4 DEF WriteCode
  <2>2. unwritten \in Seq(ShortCodes) /\ unwritten # << >>
    BY <1>4 DEF WriteCode, DeflateInv, LoopInv
  <2>3. Head(unwritten) \in ShortCodes
    BY <2>2, HeadTailProperties
  <2>4. list \in Seq(ShortCodes) /\ Len(list) \in 0..4
    BY <2>3
  <2> HIDE DEF list
  <2> QED BY <1>1, <2>1, <2>4, BlindWrites DEF StreamInv
<1>5. CASE EndBlock
  <2> DEFINE rest == WordBits - Put(stream, codes[Literals]).used
             list == <<codes[Literals], Field(0, rest % WordBits)>>
  <2>1. codes[Literals] \in ShortCodes
    BY Shorter, SymbolFacts DEF DeflateInv, AlphabetInv
  <2>2. rest \in Int
    <3>1. WellFormed(Put(stream, codes[Literals]))
      BY <1>1, <2>1, PutLeavesStream
    <3> QED BY <3>1, StreamFacts, WordSize
  <2>3. WriteBlindly(list)
    BY <1>5 DEF EndBlock
  <2> HIDE DEF rest
  <2>4. rest % WordBits \in Nat /\ rest % WordBits < WordBits
    <3>1. /\ rest % WordBits \in Int /\ 0 <= rest % WordBits
          /\ rest % WordBits < WordBits
      BY <2>2, WordSize, Division
    <3> QED BY <3>1
  <2>5. list \in Seq(ShortCodes) /\ Len(list) \in 0..4
    BY <2>1, <2>4, ShortField
  <2> HIDE DEF list
  <2> QED BY <1>1, <2>3, <2>5, BlindWrites DEF StreamInv
<1>6. CASE CompressRepeat \/ CompressCached \/ CompressWord
  <2>1. PICK list \in Seq(ShortCodes) : Len(list) \in 1..4 /\ Write(list)
    BY <1>6, IterationWrites
  <2> QED BY <1>1, <2>1, Writes DEF StreamInv
<1>7. UNCHANGED stream \/ StartBlock \/ WriteCode \/ EndBlock
      \/ CompressRepeat \/ CompressCached \/ CompressWord
  BY DEF Next, DeflateInit, CreateAlphabet, HuffmanStep, DeflateCompress, CompressReturn
<1> QED BY <1>2, <1>3, <1>4, <1>5, <1>6, <1>7

\* deflate_init leaves no word in the cache.
LEMMA NothingCached ==
    /\ EmptyCache \in Caches
    /\ \A w \in Words : EmptyCache[Hash[w]].literal # w
<1>1. << >> \in ShortEnough
  BY DeflateAssumption DEF DeflateAssumption, ShortEnough, Codes
<1>2. EmptyCache \in Caches
  BY <1>1, WordFacts DEF EmptyCache, Caches
<1>3. ASSUME NEW w \in Words PROVE EmptyCache[Hash[w]].literal # w
  <2>1. Hash[w] \in Keys
    BY WordFacts
  <2>2. EmptyCache[Hash[w]].literal = IF Hash[w] = Hash[Zero] THEN FirstInvalid ELSE Zero
    BY <2>1 DEF EmptyCache
  <2> QED BY <2>2, WordFacts
<1> QED BY <1>2, <1>3

LEMMA CacheStays ==
    ASSUME CacheInv, UNCHANGED <<cache, codes>>,
           stage' = "loop" => Initialized,
           stage' \in {"ready", "loop"} => stage \in {"ready", "loop"} \/ stage = "described",
           stage' \notin {"ready", "loop", "ended"} => stage \notin {"ready", "loop", "ended"}
    PROVE  CacheInv'
BY DEF CacheInv, Initialized, InCache, CodesOf

LEMMA CacheNext ==
    ASSUME DeflateInv, Next
    PROVE  CacheInv'
<1>1. CacheInv
  BY DEF DeflateInv
<1>2. CASE DeflateInit
  <2>1. cache' = EmptyCache /\ stage' = "leaves"
    BY <1>2 DEF DeflateInit, StartTree
  <2> QED BY <2>1, NothingCached DEF CacheInv, Initialized, InCache
<1>3. CASE AssignBitstrings /\ UNCHANGED cache
  <2>1. stage = "balance" /\ stage' = "created"
    BY <1>3 DEF AssignBitstrings
  <2> QED BY <1>1, <1>3, <2>1 DEF CacheInv, Initialized, InCache
<1>4. CASE CreateAlphabet
  BY <1>1, <1>4, CacheStays DEF CreateAlphabet, StartTree
<1>5. CASE /\ InsertLeaf \/ Combine \/ MeasureLengths \/ Balance
              \/ DescribeLengths \/ DescribeDistances
           /\ UNCHANGED cache
  BY <1>1, <1>5, CacheStays
     DEF InsertLeaf, Combine, MeasureLengths, Balance, DescribeLengths, DescribeDistances
<1>6. CASE StartBlock \/ WriteCode \/ DeflateCompress \/ EndBlock
  BY <1>1, <1>6, CacheStays DEF StartBlock, WriteCode, DeflateCompress, EndBlock
<1>7. CASE CompressReturn
  BY <1>1, <1>7, CacheStays DEF CompressReturn
<1>8. CASE (CompressRepeat \/ CompressCached \/ CompressWord) /\ UNCHANGED cache
  <2>1. stage = "loop" /\ stage' = "loop" /\ codes' = codes
    BY <1>8 DEF CompressRepeat, CompressCached, CompressWord, Iterating, huffmanVars
  <2> QED BY <1>1, <1>8, <2>1 DEF CacheInv, InCache, CodesOf
<1>9. CASE CompressWord /\ cache' # cache
  <2> DEFINE joined == Joined(CodesOf(Word))
             entry  == [literal |-> Word, code |-> joined]
  <2>1. /\ cache' = [cache EXCEPT ![Hash[Word]] = entry]
        /\ Len(joined) <= CombinedBits
    BY <1>9 DEF CompressWord
  <2>2. stage = "loop" /\ stage' = "loop" /\ codes' = codes
    BY <1>9 DEF CompressWord, Iterating, huffmanVars
  <2>3. Word \in Words /\ cache \in Caches /\ Hash[Word] \in Keys
    BY <1>9, IterationWrites, WordFacts
  <2>4. joined \in ShortEnough
    <3> DEFINE list == CodesOf(Word)
    <3>1. AlphabetInv
      BY DEF DeflateInv
    <3>2. list \in Seq(AlphabetCodes)
      BY <2>3, <3>1, CodesOfWord
    <3> HIDE DEF list
    <3>3. list \in Seq(Codes)
      <4>1. AlphabetCodes \subseteq Codes
        BY Shorter
      <4>2. Len(list) \in Nat /\ \A i \in 1..Len(list) : list[i] \in Codes
        BY <3>2, <4>1, LenProperties
      <4>3. list = [i \in 1..Len(list) |-> list[i]]
        BY <3>2
      <4> QED BY <4>2, <4>3
    <3>4. Joined(list) \in Codes
      BY <3>3, JoinedIsCode
    <3> QED BY <2>1, <3>4 DEF ShortEnough, list
  <2> HIDE DEF joined
  <2>5. cache' \in Caches
    BY <2>1, <2>3, <2>4 DEF Caches
  <2>6. ASSUME NEW w \in Words, InCache(w)'
        PROVE  (cache[Hash[w]].code)' = Joined(CodesOf(w))'
    <3>1. Joined(CodesOf(w))' = Joined(CodesOf(w))
      BY <2>2 DEF CodesOf
    <3>2. CASE Hash[w] = Hash[Word]
      <4>1. cache'[Hash[w]] = entry
        BY <2>1, <2>3, <3>2 DEF Caches
      <4>2. w = Word
        BY <2>6, <4>1 DEF InCache
      <4> QED BY <3>1, <4>1, <4>2 DEF joined
    <3>3. CASE Hash[w] # Hash[Word]
      <4>1. cache'[Hash[w]] = cache[Hash[w]]
        <5>1. Hash[w] \in Keys
          BY WordFacts
        <5> QED BY <2>1, <2>3, <3>3, <5>1 DEF Caches
      <4>2. InCache(w)
        BY <2>6, <4>1 DEF InCache
      <4> QED BY <1>1, <2>2, <2>3, <3>1, <4>1, <4>2 DEF CacheInv
    <3> QED BY <3>2, <3>3
  <2> QED BY <2>2, <2>5, <2>6 DEF CacheInv
<1>10. cache' = cache \/ DeflateInit \/ CompressWord
  BY DEF Next, CreateAlphabet, HuffmanStep, StartBlock, WriteCode, DeflateCompress,
         CompressReturn, EndBlock, CompressRepeat, CompressCached
<1> QED BY <1>2, <1>3, <1>4, <1>5, <1>6, <1>7, <1>8, <1>9, <1>10 DEF Next, HuffmanStep

-----------------------------------------------------------------------------
(* The theorems. *)

LEMMA InvNext == DeflateInv /\ [Next]_vars => DeflateInv'
<1> SUFFICES ASSUME DeflateInv, [Next]_vars PROVE DeflateInv'
  OBVIOUS
<1>1. CASE Next
  BY <1>1, LoopNext, TreeNext, AlphabetNext, InputNext, StreamNext, CacheNext DEF DeflateInv
<1>2. CASE UNCHANGED vars
  <2>1. /\ UNCHANGED <<stage, weight, parent, heap, tooLong, at, longest, length, codes, unwritten>>
        /\ UNCHANGED <<cache, stream, data, index, prev, space, calls>>
    BY <1>2 DEF vars, huffmanVars, tree, balance, input
  <2>2. LoopInv' /\ TreeInv' /\ AlphabetInv'
    BY <2>1 DEF DeflateInv, LoopInv, TreeInv, Upward, Nodes, AlphabetInv
  <2>3. InputInv' /\ StreamInv'
    BY <2>1 DEF DeflateInv, InputInv, StreamInv, WellFormed
  <2>4. CacheInv'
    BY <2>1 DEF DeflateInv, CacheInv, Initialized, InCache, CodesOf
  <2> QED BY <2>2, <2>3, <2>4 DEF DeflateInv
<1> QED BY <1>1, <1>2

THEOREM DeflateIsSafe == Spec => []DeflateInv
<1> QED BY InvInit, InvNext, PTL DEF Spec

\* Whatever is counted and compressed: the heap and the tree hold nodes of the
\* tree, the tree grows upward, the lengths and the codes fit, and between two
\* writes less than a word is kept back (huffman.c, huffman.h, deflate.c).
THEOREM DeflateTypes == Spec => []TypeOK
<1>1. ASSUME DeflateInv PROVE TypeOK
  <2>1. LoopInv /\ TreeInv /\ AlphabetInv /\ InputInv /\ WellFormed(stream)
    BY <1>1 DEF DeflateInv, StreamInv
  <2>2. \A code \in AlphabetCodes : code \in Codes
    BY DEF AlphabetCodes
  <2>3. length \in [Symbols -> 0..MaxBits] /\ codes \in [Symbols -> Codes]
    BY <2>1, <2>2 DEF AlphabetInv
  <2>4. ASSUME stage # "start"
        PROVE  /\ DOMAIN weight = DOMAIN parent
               /\ \A n \in DOMAIN weight :
                    /\ weight[n] \in 0..(WeightLimit - 1)
                    /\ parent[n] \in {NoNode} \cup (DOMAIN parent \ Symbols)
               /\ heap \in Seq(DOMAIN weight)
    <3>1. PICK m \in Nat :
            /\ m >= CodeCount /\ Upward(m)
            /\ \A n \in 0..(m - 1) : parent[n] \notin Symbols
            /\ weight \in [0..(m - 1) -> 0..(WeightLimit - 1)]
            /\ heap \in Seq(0..(m - 1))
      BY <2>1, <2>4 DEF TreeInv
    <3>2. DOMAIN parent = 0..(m - 1) /\ DOMAIN weight = 0..(m - 1)
      BY <3>1 DEF Upward, Nodes
    <3>3. \A n \in 0..(m - 1) : parent[n] = NoNode \/ parent[n] \in 0..(m - 1)
      BY <3>1 DEF Upward
    <3> QED BY <3>1, <3>2, <3>3
  <2>5. unwritten \in Seq(Codes)
    <3>1. unwritten \in Seq(ShortCodes) /\ ShortCodes \subseteq Codes
      BY <2>1, Shorter DEF LoopInv
    <3>2. Len(unwritten) \in Nat /\ \A i \in 1..Len(unwritten) : unwritten[i] \in Codes
      BY <3>1, LenProperties
    <3>3. unwritten = [i \in 1..Len(unwritten) |-> unwritten[i]]
      BY <3>1
    <3> QED BY <3>2, <3>3
  <2>6. /\ stream.out \in Seq(MachineWords) /\ stream.buf \in MachineWords
        /\ stream.used \in Positions
    BY <2>1 DEF WellFormed
  <2>7. /\ stage \in Stages /\ longest \in Symbols /\ at \in 0..CodeCount
        /\ index \in 0..Len(data) /\ space \in BOOLEAN
    BY <2>1 DEF LoopInv, InputInv
  <2> QED BY <2>3, <2>4, <2>5, <2>6, <2>7 DEF TypeOK, Stages
<1> QED BY <1>1, DeflateIsSafe, PTL

\* A word found in the cache has the code that the alphabet gives it, although
\* deflate_init clears no entry but writes to all of them the word 0 and to the
\* entry of that word another one (deflate_init, deflate_compress).
THEOREM CacheIsValid == Spec => []CacheValid
<1>1. ASSUME DeflateInv PROVE CacheValid
  BY <1>1 DEF DeflateInv, CacheInv, CacheValid
<1> QED BY <1>1, DeflateIsSafe, PTL
=============================================================================
