--------------------------- MODULE Snappy32Proofs ---------------------------
(***************************************************************************)
(* Proofs about Snappy32, for any data, what lies behind it in memory, any *)
(* preprocessor, hash and stale history, any sizes of copies, literal      *)
(* blocks and output buffer: all stores are inside the output buffer, and  *)
(* as long as no call is for more words than an offset reaches back,       *)
(* compression followed by decompression gives the words consumed.         *)
(***************************************************************************)
EXTENDS Snappy32, TLAPS

LEMMA OutputsType == ASSUME NEW w \in Words PROVE Preprocess[w] \in Outputs
BY DEF Outputs

\* The elements of a concatenation.
LEMMA Concatenation ==
    ASSUME NEW S, NEW s \in Seq(S), NEW t \in Seq(S)
    PROVE  /\ s \o t \in Seq(S)
           /\ Len(s \o t) = Len(s) + Len(t)
           /\ \A k \in 1..Len(s) : (s \o t)[k] = s[k]
           /\ \A k \in 1..Len(t) : (s \o t)[Len(s) + k] = t[k]
OBVIOUS

\* Sequences with the same length and elements are the same.
LEMMA SameSequence ==
    ASSUME NEW S, NEW s \in Seq(S), NEW t \in Seq(S), Len(s) = Len(t),
           \A k \in 1..Len(s) : s[k] = t[k]
    PROVE  s = t
OBVIOUS

\* Input that has been read, preprocessed.
LEMMA ReadType ==
    ASSUME SnappyInv, pc = "loop"
    PROVE  /\ Read(index) \in Seq(Outputs) /\ Len(Read(index)) = index
           /\ \A k \in 1..index : Read(index)[k] = Preprocess[data[k - 1]]
<1>1. /\ index \in Nat /\ wordcount \in Nat /\ CopyWords \in Nat
      /\ index < wordcount + CopyWords
      /\ data \in [0..(wordcount + CopyWords - 1) -> Words]
  BY SnappyAssumption DEF SnappyInv, TypeOK, LoopInv
<1>2. \A k \in 1..index : k - 1 \in 0..(wordcount + CopyWords - 1)
  BY <1>1
<1>3. \A k \in 1..index : Preprocess[data[k - 1]] \in Outputs
  BY <1>1, <1>2 DEF Outputs
<1>. QED  BY <1>1, <1>3 DEF Read

\* When the decoder has caught up, it has produced everything consumed but
\* the open literal block, and with that block everything.
LEMMA Flushed ==
    ASSUME SnappyInv, pc = "loop", copyLeft = 0
    PROVE  /\ decoded \o literal \in Seq(Outputs)
           /\ Len(decoded \o literal) = Len(consumed) + index
           /\ \A k \in 1..(Len(consumed) + index) : (decoded \o literal)[k] = Expected(k)
<1>1. /\ decoded \in Seq(Outputs) /\ literal \in Seq(Outputs)
      /\ consumed \in Seq(Outputs) /\ index \in Nat
      /\ Len(decoded) + Len(literal) = Len(consumed) + index
      /\ \A k \in 1..Len(decoded) : decoded[k] = Expected(k)
      /\ \A k \in 1..Len(literal) : literal[k] = Expected(Len(decoded) + k)
  BY DEF SnappyInv, TypeOK, LoopInv
<1>2. Len(decoded) \in Nat /\ Len(literal) \in Nat /\ Len(consumed) \in Nat
  BY <1>1
<1>3. /\ decoded \o literal \in Seq(Outputs)
      /\ Len(decoded \o literal) = Len(decoded) + Len(literal)
      /\ \A k \in 1..Len(decoded) : (decoded \o literal)[k] = decoded[k]
      /\ \A k \in 1..Len(literal) : (decoded \o literal)[Len(decoded) + k] = literal[k]
  BY <1>1, Concatenation
<1>4. ASSUME NEW k \in 1..(Len(consumed) + index)
      PROVE  (decoded \o literal)[k] = Expected(k)
  <2>1. CASE k <= Len(decoded)
    BY <2>1, <1>1, <1>2, <1>3
  <2>2. CASE k > Len(decoded)
    <3>1. PICK j \in 1..Len(literal) : k = Len(decoded) + j
      <4>1. k - Len(decoded) \in 1..Len(literal) /\ k = Len(decoded) + (k - Len(decoded))
        BY <2>2, <1>1, <1>2
      <4>. QED  BY <4>1
    <3>. QED  BY <3>1, <1>1, <1>3
  <2>. QED  BY <2>1, <2>2, <1>1, <1>2
<1>. QED  BY <1>1, <1>3, <1>4

-----------------------------------------------------------------------------
(* Every copy, whether of the word before or of an earlier match, preserves *)
(* the invariant, if what it copies is what it stands for.                  *)
LEMMA CopyStep ==
    ASSUME SnappyInv, Iterating,
           NEW delta \in 1..index, NEW n \in Nat \ {0}, NEW bytes \in Nat,
           index + n < wordcount + CopyWords,
           \A j \in 0..(n - 1) : data[index + j] = data[index - delta + j],
           wrpos + bytes <= endpos + 5,
           Copy(delta, n, bytes),
           index' = index + n, prev' = data[index + n - 1],
           history' \in [Keys -> Nat],
           UNCHANGED <<pc, input, endpos, caller>>
    PROVE  SnappyInv'
<1>1. /\ index \in Nat /\ wordcount \in Nat \ {0} /\ CopyWords \in Nat /\ wrpos \in Nat
      /\ data \in [0..(wordcount + CopyWords - 1) -> Words]
      /\ consumed \in Seq(Outputs) /\ pc = "loop" /\ copyLeft = 0
      /\ index < wordcount
  BY SnappyAssumption DEF SnappyInv, TypeOK, Iterating, Continue
<1>2. /\ decoded' \in Seq(Outputs)
      /\ Len(decoded') = Len(consumed) + index
      /\ \A k \in 1..(Len(consumed) + index) : decoded'[k] = Expected(k)
  BY <1>1, Flushed DEF Copy
<1>3. Len(consumed) \in Nat
  BY <1>1
<1>4. /\ data' = data /\ wordcount' = wordcount /\ consumed' = consumed /\ pc' = pc
      /\ uncompressed' = uncompressed /\ endpos' = endpos
      /\ calls' = calls /\ prefix' = prefix
  BY DEF input, caller
<1>5. literal' = << >> /\ copyDelta' = delta /\ copyLeft' = n /\ wrpos' = wrpos + bytes
  BY DEF Copy
<1>6. \A k : Expected(k)' = Expected(k)
  BY <1>4 DEF Expected
<1>7. ASSUME NEW k \in (Len(consumed) + index + 1)..(Len(consumed) + index + n)
      PROVE  Expected(k) = Expected(k - delta)
  <2>1. PICK j \in 0..(n - 1) : k = Len(consumed) + index + 1 + j
    <3>1. /\ k - (Len(consumed) + index + 1) \in 0..(n - 1)
          /\ k = Len(consumed) + index + 1 + (k - (Len(consumed) + index + 1))
      BY <1>1, <1>3
    <3>. QED  BY <3>1
  <2>2. Expected(k) = Preprocess[data[index + j]]
    <3>1. k > Len(consumed) /\ k - Len(consumed) - 1 = index + j
      BY <2>1, <1>1, <1>3
    <3>. QED  BY <3>1, <1>3 DEF Expected
  <2>3. Expected(k - delta) = Preprocess[data[index - delta + j]]
    <3>1. k - delta > Len(consumed) /\ k - delta - Len(consumed) - 1 = index - delta + j
      BY <2>1, <1>1, <1>3
    <3>. QED  BY <3>1, <1>3 DEF Expected
  <2>. QED  BY <2>2, <2>3
<1>8. TypeOK'
  <2>1. prev' \in Words
    <3>1. index + n - 1 \in 0..(wordcount + CopyWords - 1)
      BY <1>1
    <3>. QED  BY <3>1, <1>1
  <2>2. << >> \in Seq(Outputs)
    OBVIOUS
  <2>. QED  BY <1>1, <1>2, <1>4, <1>5, <2>1, <2>2 DEF SnappyInv, TypeOK
<1>9. LoopInv'
  <2>1. index' < wordcount' + CopyWords
    BY <1>4
  <2>2. index' > 0 /\ prev' = data'[index' - 1]
    BY <1>1, <1>4
  <2>3. Len(decoded') + copyLeft' + Len(literal') = Len(consumed') + index'
    BY <1>1, <1>2, <1>3, <1>4, <1>5
  <2>4. \A k \in 1..Len(decoded') : decoded'[k] = Expected(k)'
    BY <1>2, <1>6
  <2>5. \A k \in 1..Len(literal') : literal'[k] = Expected(Len(decoded) + k)'
    BY <1>5
  <2>6. copyDelta' \in 1..Len(decoded')
    BY <1>1, <1>2, <1>3, <1>5
  <2>7. \A k \in (Len(decoded') + 1)..(Len(decoded') + copyLeft') :
            Expected(k)' = Expected(k - copyDelta)'
    <3>1. \A k : Expected(k - copyDelta)' = Expected(k - delta)
      BY <1>4, <1>5 DEF Expected
    <3>. QED  BY <3>1, <1>2, <1>5, <1>6, <1>7
  <2>. QED  BY <2>1, <2>2, <2>3, <2>4, <2>5, <2>6, <2>7, <1>1, <1>5 DEF LoopInv
<1>. QED  BY <1>1, <1>4, <1>5, <1>8, <1>9 DEF SnappyInv

-----------------------------------------------------------------------------
(* The steps. *)

\* What the invariant says inside the loop.
LEMMA InLoop ==
    ASSUME SnappyInv, Iterating
    PROVE  /\ pc = "loop" /\ copyLeft = 0 /\ index < wordcount /\ wrpos < endpos
           /\ index \in Nat /\ wordcount \in Nat \ {0} /\ CopyWords \in Nat
           /\ CopyWords >= 3 /\ wrpos \in Nat /\ endpos \in Nat
           /\ data \in [0..(wordcount + CopyWords - 1) -> Words]
           /\ index > 0 => prev = data[index - 1]
           /\ index = 0 => prev # data[0]
           /\ history \in [Keys -> Nat]
           /\ data[index] \in Words
<1>1. pc = "loop" /\ copyLeft = 0 /\ index < wordcount /\ wrpos < endpos
  BY DEF Iterating, Continue
<1>2. /\ index \in Nat /\ wordcount \in Nat \ {0} /\ wrpos \in Nat /\ endpos \in Nat
      /\ data \in [0..(wordcount + CopyWords - 1) -> Words]
      /\ history \in [Keys -> Nat]
  BY <1>1 DEF SnappyInv, TypeOK
<1>3. /\ index > 0 => prev = data[index - 1]
      /\ index = 0 => prev # data[0]
  BY <1>1 DEF SnappyInv, LoopInv
<1>4. CopyWords \in Nat /\ CopyWords >= 3
  BY SnappyAssumption
<1>5. index \in 0..(wordcount + CopyWords - 1)
  BY <1>1, <1>2, <1>4
<1>. QED  BY <1>1, <1>2, <1>3, <1>4, <1>5

\* n repetitions of the word before the current one are a copy from one
\* word back.
LEMMA RepeatStep ==
    ASSUME SnappyInv, Repeating,
           NEW n \in Nat \ {0}, NEW bytes \in Nat,
           index + n <= wordcount + CopyWords - 1,
           AllPrev(index, n),
           wrpos + bytes <= endpos + 5,
           Copy(1, n, bytes), index' = index + n,
           UNCHANGED <<pc, input, prev, history, endpos, caller>>
    PROVE  SnappyInv'
<1>1. Iterating /\ index > 0 /\ index \in Nat /\ prev = data[index - 1]
      /\ history \in [Keys -> Nat] /\ wordcount \in Nat /\ CopyWords \in Nat
  <2>1. Iterating /\ data[index] = prev
    BY DEF Repeating
  <2>. QED  BY <2>1, InLoop
<1>2. \A j \in 0..(n - 1) : data[index + j] = prev
  BY DEF AllPrev
<1>3. \A j \in 0..(n - 1) : data[index - 1 + j] = prev
  <2>1. ASSUME NEW j \in 0..(n - 1), j > 0
        PROVE  data[index - 1 + j] = prev
    <3>1. j - 1 \in 0..(n - 1) /\ index + (j - 1) = index - 1 + j
      BY <2>1, <1>1
    <3>. QED  BY <3>1, <1>2
  <2>2. data[index - 1 + 0] = prev
    BY <1>1
  <2>. QED  BY <2>1, <2>2
<1>4. prev' = data[index + n - 1]
  <2>1. n - 1 \in 0..(n - 1) /\ index + (n - 1) = index + n - 1
    BY <1>1
  <2>. QED  BY <2>1, <1>2
<1>5. 1 \in 1..index /\ index + n < wordcount + CopyWords
  BY <1>1
<1>6. history' \in [Keys -> Nat]
  BY <1>1
<1>7. \A j \in 0..(n - 1) : data[index + j] = data[index - 1 + j]
  BY <1>2, <1>3
<1>. QED  BY <1>1, <1>4, <1>5, <1>6, <1>7, CopyStep

\* The current word, and m more that equal it.
LEMMA OneMore ==
    ASSUME Repeating, index \in Nat, NEW m \in Nat, AllPrev(index + 1, m)
    PROVE  AllPrev(index, m + 1)
<1>1. ASSUME NEW j \in 0..(m + 1 - 1), j > 0
      PROVE  data[index + j] = prev
  <2>1. j - 1 \in 0..(m - 1) /\ index + 1 + (j - 1) = index + j
    BY <1>1
  <2>. QED  BY <2>1 DEF AllPrev
<1>2. data[index + 0] = prev
  BY DEF Repeating
<1>. QED  BY <1>1, <1>2 DEF AllPrev

\* Two runs, one after the other.
LEMMA RunsJoin ==
    ASSUME NEW i \in Nat, NEW m \in Nat, NEW n \in Nat,
           AllPrev(i, m), AllPrev(i + m, n)
    PROVE  AllPrev(i, m + n)
<1>1. ASSUME NEW j \in 0..(m + n - 1)
      PROVE  data[i + j] = prev
  <2>1. CASE j < m
    BY <2>1 DEF AllPrev
  <2>2. CASE j >= m
    <3>1. j - m \in 0..(n - 1) /\ i + m + (j - m) = i + j
      BY <2>2
    <3>. QED  BY <3>1 DEF AllPrev
  <2>. QED  BY <2>1, <2>2
<1>. QED  BY <1>1 DEF AllPrev

LEMMA RepeatOnceStep == ASSUME SnappyInv, RepeatOnce PROVE SnappyInv'
<1>1. Repeating /\ Iterating
  BY DEF RepeatOnce, Repeating
<1>2. AllPrev(index, 1) /\ index + 1 <= wordcount + CopyWords - 1 /\ wrpos + 2 <= endpos + 5
  <2>1. index \in Nat /\ AllPrev(index + 1, 0)
    BY <1>1, InLoop DEF AllPrev
  <2>2. AllPrev(index, 0 + 1)
    BY <2>1, <1>1, OneMore
  <2>. QED  BY <2>2, <1>1, InLoop
<1>. QED  BY <1>1, <1>2, RepeatStep DEF RepeatOnce

LEMMA RepeatTwiceStep == ASSUME SnappyInv, RepeatTwice PROVE SnappyInv'
<1>1. Repeating /\ Iterating /\ data[index + 1] = prev
  BY DEF RepeatTwice, Repeating
<1>2. AllPrev(index, 2) /\ index + 2 <= wordcount + CopyWords - 1 /\ wrpos + 2 <= endpos + 5
  <2>1. index \in Nat /\ AllPrev(index + 1, 1)
    BY <1>1, InLoop DEF AllPrev
  <2>2. AllPrev(index, 1 + 1)
    BY <2>1, <1>1, OneMore
  <2>. QED  BY <2>2, <1>1, InLoop
<1>. QED  BY <1>1, <1>2, RepeatStep DEF RepeatTwice

LEMMA RepeatMoreStep == ASSUME SnappyInv, RepeatMore PROVE SnappyInv'
<1>1. Repeating /\ Iterating
  BY DEF RepeatMore, Repeating
<1>2. PICK r \in 1..(CopyWords - 1) :
        /\ ReplenIs(r) /\ Copy(1, r + 1, 3) /\ index' = index + r + 1
  BY DEF RepeatMore
<1>3. /\ index \in Nat /\ wordcount \in Nat /\ CopyWords \in Nat /\ CopyWords >= 3
      /\ wrpos \in Nat /\ endpos \in Nat /\ wrpos < endpos /\ index < wordcount
  BY <1>1, InLoop
<1>4. AllPrev(index + 1, r)
  <2>1. CASE index + CopyWords >= wordcount
    BY <2>1, <1>2, <1>3 DEF ReplenIs, AllPrev
  <2>2. CASE ~(index + CopyWords >= wordcount)
    BY <2>2, <1>2 DEF ReplenIs
  <2>. QED  BY <2>1, <2>2
<1>5. AllPrev(index, r + 1)
  BY <1>1, <1>3, <1>4, OneMore
<1>6. /\ r + 1 \in Nat \ {0} /\ index + (r + 1) <= wordcount + CopyWords - 1
      /\ wrpos + 3 <= endpos + 5 /\ index' = index + (r + 1)
  BY <1>2, <1>3
<1>. QED  BY <1>1, <1>2, <1>5, <1>6, RepeatStep DEF RepeatMore

\* Quotients do not exceed what they divide.
LEMMA Quotient ==
    ASSUME NEW a \in Int, NEW b \in Nat \ {0}, NEW k \in Int, k <= a \div b
    PROVE  k * b <= a
<1>1. (a \div b) * b <= a
  OBVIOUS
<1>2. k * b <= (a \div b) * b
  OBVIOUS
<1>3. a \div b \in Int /\ k * b \in Int /\ (a \div b) * b \in Int
  OBVIOUS
<1>. QED  BY <1>1, <1>2, <1>3

LEMMA RepeatRunStep == ASSUME SnappyInv, RepeatRun PROVE SnappyInv'
<1>. DEFINE next  == index + 2 * CopyWords
            limit == RunLimit(next, wrpos + 6)
<1>1. /\ Repeating /\ Iterating /\ ReplenIs(CopyWords - 1)
      /\ RunGoesOn(index + CopyWords)
  BY DEF RepeatRun, Repeating
<1>2. /\ index \in Nat /\ wordcount \in Nat /\ CopyWords \in Nat /\ CopyWords >= 3
      /\ wrpos \in Nat /\ endpos \in Nat /\ wrpos < endpos /\ index < wordcount
  BY <1>1, InLoop
<1>3. PICK k \in 0..(wordcount \div CopyWords) :
        /\ k = 0 \/ k <= limit
        /\ AllPrev(next, k * CopyWords)
        /\ Copy(1, (k + 2) * CopyWords, 3 * (k + 2))
        /\ index' = next + k * CopyWords
  BY DEF RepeatRun
<1>4. k \in Nat /\ k * CopyWords \in Nat /\ (k + 2) * CopyWords = k * CopyWords + 2 * CopyWords
  BY <1>2, <1>3
<1>5. next <= wordcount /\ AllPrev(index + CopyWords, CopyWords)
  BY <1>1, <1>2 DEF RunGoesOn
<1>6. next + k * CopyWords <= wordcount /\ wrpos + 3 * (k + 2) <= endpos + 5
  <2>1. CASE k = 0
    BY <2>1, <1>2, <1>5
  <2>2. CASE k # 0
    <3>1. /\ k <= (wordcount - next) \div CopyWords
          /\ k <= (endpos - (wrpos + 6)) \div 3
      BY <2>2, <1>2, <1>3 DEF RunLimit
    <3>2. k * CopyWords <= wordcount - next
      BY <3>1, <1>2, <1>4, Quotient
    <3>3. k * 3 <= endpos - (wrpos + 6)
      BY <3>1, <1>2, <1>4
    <3>. QED  BY <3>2, <3>3, <1>2, <1>4
  <2>. QED  BY <2>1, <2>2
<1>7. AllPrev(index + 1, CopyWords - 1)
  <2>1. CASE index + CopyWords >= wordcount
    BY <2>1, <1>1, <1>2 DEF ReplenIs, AllPrev
  <2>2. CASE ~(index + CopyWords >= wordcount)
    BY <2>2, <1>1 DEF ReplenIs
  <2>. QED  BY <2>1, <2>2
<1>8. AllPrev(index, (k + 2) * CopyWords)
  <2>1. AllPrev(index, CopyWords)
    <3>1. CopyWords - 1 \in Nat /\ CopyWords - 1 + 1 = CopyWords
      BY <1>2
    <3>2. AllPrev(index, CopyWords - 1 + 1)
      BY <3>1, <1>1, <1>2, <1>7, OneMore
    <3>. QED  BY <3>1, <3>2
  <2>2. AllPrev(index, CopyWords + CopyWords)
    BY <2>1, <1>2, <1>5, RunsJoin
  <2>3. CopyWords + CopyWords \in Nat /\ index + (CopyWords + CopyWords) = next
    BY <1>2
  <2>4. AllPrev(index, (CopyWords + CopyWords) + k * CopyWords)
    BY <2>2, <2>3, <1>2, <1>3, <1>4, RunsJoin
  <2>5. (CopyWords + CopyWords) + k * CopyWords = (k + 2) * CopyWords
    BY <1>2, <1>4
  <2>. QED  BY <2>4, <2>5
<1>9. /\ (k + 2) * CopyWords \in Nat \ {0} /\ 3 * (k + 2) \in Nat
      /\ index + (k + 2) * CopyWords <= wordcount + CopyWords - 1
      /\ index' = index + (k + 2) * CopyWords
  <2>1. (k + 2) * CopyWords = k * CopyWords + 2 * CopyWords /\ k * CopyWords \in Nat
    BY <1>4
  <2>. HIDE DEF limit
  <2>2. index + (k * CopyWords + 2 * CopyWords) = next + k * CopyWords
    BY <1>2, <1>4
  <2>3. k * CopyWords + 2 * CopyWords \in Nat \ {0}
    BY <1>2, <1>4
  <2>. QED  BY <2>1, <2>2, <2>3, <1>2, <1>3, <1>4, <1>6
<1>. QED  BY <1>1, <1>3, <1>6, <1>8, <1>9, RepeatStep DEF RepeatRun

LEMMA PositionType == ASSUME NEW i \in Nat PROVE i % HistoryLimit \in Nat
BY SnappyAssumption

LEMMA BackReferenceStep == ASSUME SnappyInv, BackReference PROVE SnappyInv'
<1>1. Iterating /\ Found /\ Remember
  BY DEF BackReference, NewWord
<1>2. PICK n \in 1..CopyWords :
        /\ MatchIs(n)
        /\ WriteCopy(index - Offset, n)
        /\ index' = index + n /\ prev' = data[index + n - 1]
  BY DEF BackReference, LastOfCopy
<1>3. /\ index \in Nat /\ wordcount \in Nat /\ CopyWords \in Nat
      /\ wrpos \in Nat /\ endpos \in Nat /\ wrpos < endpos /\ index < wordcount
      /\ history \in [Keys -> Nat] /\ data[index] \in Words
  BY <1>1, InLoop
<1>4. Offset \in Nat /\ Offset < index
  BY <1>1, <1>3, SnappyAssumption DEF Offset, Found
<1>5. PICK delta \in 1..index : delta = index - Offset
  BY <1>3, <1>4
<1>6. PICK bytes \in Nat : bytes <= 3 /\ Copy(delta, n, bytes)
  <2>1. delta \in Nat /\ delta < OffsetLimit
    <3>1. wordcount <= OffsetLimit /\ OffsetLimit \in Nat
      BY <1>1, InLoop, SnappyAssumption DEF SnappyInv, TypeOK
    <3>. QED  BY <1>3, <3>1
  <2>2. delta % OffsetLimit = delta
    BY <2>1, SnappyAssumption
  <2>3. WriteCopy(delta, n)
    BY <1>2, <1>5
  <2>. QED  BY <2>2, <2>3 DEF WriteCopy
<1>7. index - delta = Offset
  BY <1>3, <1>4, <1>5
<1>8. \A j \in 0..(n - 1) : data[index + j] = data[index - delta + j]
  BY <1>2, <1>7 DEF MatchIs
<1>9. history' \in [Keys -> Nat]
  BY <1>1, <1>3, PositionType DEF Remember
<1>10. n \in Nat \ {0} /\ index + n < wordcount + CopyWords /\ wrpos + bytes <= endpos + 5
  BY <1>2, <1>3, <1>6
<1>11. UNCHANGED <<pc, input, endpos, caller>>
  BY DEF BackReference
<1>. QED  BY <1>1, <1>2, <1>6, <1>8, <1>9, <1>10, <1>11, CopyStep

LEMMA LiteralStep == ASSUME SnappyInv, Literal PROVE SnappyInv'
<1>. DEFINE word  == data[index]
            block == Append(literal, Preprocess[word])
<1>1. Iterating /\ Remember /\ index' = index + 1 /\ prev' = word
  BY DEF Literal, NewWord
<1>2. /\ pc = "loop" /\ copyLeft = 0 /\ index \in Nat /\ wordcount \in Nat \ {0}
      /\ CopyWords \in Nat /\ CopyWords >= 3
      /\ wrpos \in Nat /\ endpos \in Nat /\ wrpos < endpos /\ index < wordcount
      /\ history \in [Keys -> Nat] /\ word \in Words
  BY <1>1, InLoop
<1>3. /\ data' = data /\ wordcount' = wordcount /\ consumed' = consumed /\ pc' = pc
      /\ uncompressed' = uncompressed /\ endpos' = endpos /\ calls' = calls
      /\ prefix' = prefix /\ copyDelta' = copyDelta /\ copyLeft' = copyLeft
  BY DEF Literal, input, caller
<1>4. /\ decoded \in Seq(Outputs) /\ literal \in Seq(Outputs)
      /\ consumed \in Seq(Outputs)
      /\ Len(decoded) + Len(literal) = Len(consumed) + index
      /\ \A k \in 1..Len(decoded) : decoded[k] = Expected(k)
      /\ \A k \in 1..Len(literal) : literal[k] = Expected(Len(decoded) + k)
  BY <1>2 DEF SnappyInv, TypeOK, LoopInv
<1>5. Len(decoded) \in Nat /\ Len(literal) \in Nat /\ Len(consumed) \in Nat
  BY <1>4
<1>6. \A k : Expected(k)' = Expected(k)
  BY <1>3 DEF Expected
<1>7. /\ block \in Seq(Outputs) /\ Len(block) = Len(literal) + 1
      /\ \A k \in 1..Len(literal) : block[k] = literal[k]
      /\ block[Len(literal) + 1] = Preprocess[word]
  BY <1>2, <1>4, OutputsType
<1>8. \A k \in 1..Len(block) : block[k] = Expected(Len(decoded) + k)
  <2>1. Expected(Len(decoded) + (Len(literal) + 1)) = Preprocess[word]
    <3>1. /\ Len(decoded) + (Len(literal) + 1) = Len(consumed) + index + 1
          /\ Len(consumed) + index + 1 > Len(consumed)
          /\ Len(consumed) + index + 1 - Len(consumed) - 1 = index
      BY <1>2, <1>4, <1>5
    <3>2. Expected(Len(consumed) + index + 1) = Preprocess[data[index]]
      BY <3>1, <1>2, <1>5 DEF Expected
    <3>. QED  BY <3>1, <3>2
  <2>. HIDE DEF block
  <2>2. ASSUME NEW k \in 1..Len(block), k # Len(literal) + 1
        PROVE  block[k] = Expected(Len(decoded) + k)
    <3>1. k \in 1..Len(literal)
      BY <2>2, <1>5, <1>7
    <3>. QED  BY <3>1, <1>4, <1>7
  <2>. QED  BY <2>1, <2>2, <1>7
<1>9. history' \in [Keys -> Nat]
  BY <1>1, <1>2, PositionType DEF Remember
<1>10. wrpos' \in Nat /\ wrpos' <= endpos + 5
  BY <1>2 DEF Literal
<1>11. \/ decoded' = decoded \o block /\ literal' = << >>
       \/ decoded' = decoded /\ literal' = block
  BY DEF Literal
<1>12. /\ decoded' \in Seq(Outputs) /\ literal' \in Seq(Outputs)
       /\ Len(decoded') + Len(literal') = Len(consumed) + index + 1
       /\ \A k \in 1..Len(decoded') : decoded'[k] = Expected(k)
       /\ \A k \in 1..Len(literal') : literal'[k] = Expected(Len(decoded') + k)
  <2>. HIDE DEF block
  <2>1. CASE decoded' = decoded \o block /\ literal' = << >>
    <3>1. /\ decoded \o block \in Seq(Outputs)
          /\ Len(decoded \o block) = Len(decoded) + Len(block)
          /\ \A k \in 1..Len(decoded) : (decoded \o block)[k] = decoded[k]
          /\ \A k \in 1..Len(block) : (decoded \o block)[Len(decoded) + k] = block[k]
      <4>1. decoded \in Seq(Outputs) /\ block \in Seq(Outputs)
        BY <1>4, <1>7
      <4>. QED  BY ONLY <4>1, Concatenation
    <3>2. ASSUME NEW k \in 1..Len(decoded \o block)
          PROVE  (decoded \o block)[k] = Expected(k)
      <4>1. CASE k <= Len(decoded)
        BY <4>1, <3>1, <1>4, <1>5
      <4>2. CASE k > Len(decoded)
        <5>1. k - Len(decoded) \in 1..Len(block) /\ Len(decoded) + (k - Len(decoded)) = k
          BY <4>2, <3>1, <1>5, <1>7
        <5>. QED  BY <5>1, <3>1, <1>8
      <4>. QED  BY <4>1, <4>2, <3>1, <1>5, <1>7
    <3>. QED  BY <2>1, <3>1, <3>2, <1>2, <1>4, <1>5, <1>7
  <2>2. CASE decoded' = decoded /\ literal' = block
    <3>1. \A k \in 1..Len(block) : block[k] = Expected(Len(decoded) + k)
      BY <1>8
    <3>2. Len(decoded) + Len(block) = Len(consumed) + index + 1
      <4>1. /\ Len(block) = Len(literal) + 1 /\ index \in Nat
            /\ Len(decoded) + Len(literal) = Len(consumed) + index
        BY <1>2, <1>4, <1>7
      <4>. QED  BY <1>5, <4>1, SMTT(30)
    <3>. QED  BY <2>2, <3>1, <3>2, <1>4, <1>7
  <2>. QED  BY <2>1, <2>2, <1>11
<1>13. TypeOK'
  BY <1>1, <1>2, <1>3, <1>9, <1>10, <1>12 DEF SnappyInv, TypeOK
<1>14. LoopInv'
  <2>1. /\ index' < wordcount' + CopyWords
        /\ index' > 0 /\ prev' = data'[index' - 1]
        /\ Len(decoded') + copyLeft' + Len(literal') = Len(consumed') + index'
    BY <1>1, <1>2, <1>3, <1>5, <1>12
  <2>2. \A k \in 1..Len(decoded') : decoded'[k] = Expected(k)'
    BY <1>6, <1>12
  <2>3. \A k \in 1..Len(literal') : literal'[k] = Expected(Len(decoded) + k)'
    <3>1. \A k : Expected(Len(decoded) + k)' = Expected(Len(decoded') + k)
      BY <1>3 DEF Expected
    <3>. QED  BY <3>1, <1>12
  <2>4. ~(copyLeft' > 0)
    BY <1>2, <1>3
  <2>5. index' # 0
    BY <1>1, <1>2
  <2>. QED  BY <2>1, <2>2, <2>3, <2>4, <2>5 DEF LoopInv
<1>. QED  BY <1>2, <1>3, <1>10, <1>13, <1>14 DEF SnappyInv

LEMMA DecodeWordStep == ASSUME SnappyInv, DecodeWord PROVE SnappyInv'
<1>1. /\ copyLeft > 0 /\ copyLeft' = copyLeft - 1
      /\ copyDelta \in 1..Len(decoded)
            => decoded' = Append(decoded, decoded[Len(decoded) + 1 - copyDelta])
      /\ UNCHANGED <<pc, input, index, prev, history, literal, wrpos, endpos, caller, copyDelta>>
  BY DEF DecodeWord
<1>2. pc = "loop" /\ LoopInv /\ TypeOK
  BY <1>1 DEF SnappyInv, ReadyInv, TypeOK
<1>3. /\ data' = data /\ wordcount' = wordcount /\ consumed' = consumed
      /\ uncompressed' = uncompressed /\ calls' = calls /\ prefix' = prefix
  BY <1>1 DEF input, caller
<1>4. /\ decoded \in Seq(Outputs) /\ Len(decoded) \in Nat
      /\ copyDelta \in Nat \ {0} /\ copyLeft \in Nat
      /\ copyDelta \in 1..Len(decoded) /\ literal = << >>
      /\ \A k \in 1..Len(decoded) : decoded[k] = Expected(k)
      /\ \A k \in (Len(decoded) + 1)..(Len(decoded) + copyLeft) :
                Expected(k) = Expected(k - copyDelta)
  BY <1>1, <1>2 DEF TypeOK, LoopInv
<1>5. \A k : Expected(k)' = Expected(k)
  BY <1>3 DEF Expected
<1>6. Len(decoded) + 1 - copyDelta \in 1..Len(decoded)
  BY <1>4
<1>7. decoded[Len(decoded) + 1 - copyDelta] \in Outputs
  BY <1>4, <1>6
<1>8. decoded[Len(decoded) + 1 - copyDelta] = Expected(Len(decoded) + 1)
  <2>1. Len(decoded) + 1 \in (Len(decoded) + 1)..(Len(decoded) + copyLeft)
    BY <1>1, <1>4
  <2>. QED  BY <2>1, <1>4, <1>6
<1>9. /\ decoded' \in Seq(Outputs) /\ Len(decoded') = Len(decoded) + 1
      /\ \A k \in 1..Len(decoded) : decoded'[k] = decoded[k]
      /\ decoded'[Len(decoded) + 1] = decoded[Len(decoded) + 1 - copyDelta]
  <2>1. decoded' = Append(decoded, decoded[Len(decoded) + 1 - copyDelta])
    BY <1>1, <1>4
  <2>. QED  BY <1>4, <1>7, <2>1
<1>10. \A k \in 1..Len(decoded') : decoded'[k] = Expected(k)'
  BY <1>4, <1>5, <1>8, <1>9
<1>11. TypeOK'
  BY <1>1, <1>2, <1>3, <1>4, <1>9 DEF TypeOK
<1>12. LoopInv'
  <2>1. \A k \in (Len(decoded') + 1)..(Len(decoded') + copyLeft') :
            Expected(k)' = Expected(k - copyDelta)'
    <3>1. ASSUME NEW k \in (Len(decoded') + 1)..(Len(decoded') + copyLeft')
          PROVE  Expected(k)' = Expected(k - copyDelta)'
      <4>1. Expected(k - copyDelta)' = Expected(k - copyDelta)
        BY <1>1, <1>3 DEF Expected
      <4>2. k \in (Len(decoded) + 1)..(Len(decoded) + copyLeft)
        BY <1>1, <1>4, <1>9
      <4>3. Expected(k) = Expected(k - copyDelta)
        BY <4>2, <1>4
      <4>4. Expected(k)' = Expected(k)
        BY <1>5
      <4>. QED  BY <4>1, <4>3, <4>4
    <3>. QED  BY <3>1
  <2>2. Len(decoded') + copyLeft' + Len(literal') = Len(consumed') + index'
    <3>1. /\ Len(decoded) + copyLeft + Len(literal) = Len(consumed) + index
          /\ Len(literal) \in Nat /\ Len(consumed) \in Nat /\ index \in Nat
      BY <1>2 DEF LoopInv, TypeOK
    <3>2. /\ literal' = literal /\ consumed' = consumed /\ index' = index
          /\ copyLeft' = copyLeft - 1 /\ Len(decoded') = Len(decoded) + 1
      BY <1>1, <1>3, <1>9
    <3>. QED  BY <3>1, <3>2, <1>4, SMTT(30)
  <2>3. \A k \in 1..Len(literal') : literal'[k] = Expected(Len(decoded) + k)'
    BY <1>1, <1>4
  <2>4. literal' = << >> /\ copyDelta' \in 1..Len(decoded')
    BY <1>1, <1>4, <1>9
  <2>5. /\ index' < wordcount' + CopyWords
        /\ index' > 0 => prev' = data'[index' - 1]
        /\ index' = 0 => prev' # data'[0]
    BY <1>1, <1>2, <1>3 DEF LoopInv
  <2>. QED  BY <2>1, <2>2, <2>3, <2>4, <2>5, <1>1, <1>10 DEF LoopInv
<1>. QED  BY <1>1, <1>2, <1>3, <1>11, <1>12 DEF SnappyInv

LEMMA SnappyCompressStep == ASSUME ShortCalls, SnappyInv, SnappyCompress PROVE SnappyInv'
<1>1. PICK n \in WordCounts : /\ wordcount' = n
                             /\ data' \in [0..(n + CopyWords - 1) -> Words]
  BY DEF SnappyCompress
<1>2. n \in Nat \ {0} /\ n <= OffsetLimit /\ CopyWords \in Nat /\ CopyWords >= 3
  BY SnappyAssumption DEF ShortCalls
<1>3. data'[0] \in Words
  <2>1. 0 \in 0..(n + CopyWords - 1)
    BY <1>2
  <2>. QED  BY <1>1, <2>1
<1>4. prev' \in Words /\ prev' # data'[0]
  BY <1>3, SnappyAssumption DEF SnappyCompress
<1>5. /\ pc = "ready" /\ pc' = "loop" /\ index' = 0 /\ calls' = calls + 1
      /\ UNCHANGED <<history, literal, wrpos, endpos, consumed, uncompressed, prefix,
                     decoded, copyDelta, copyLeft>>
  BY DEF SnappyCompress, decoder
<1>6. TypeOK /\ ReadyInv /\ uncompressed = Len(consumed) /\ wrpos <= endpos + 5
  BY <1>5 DEF SnappyInv
<1>7. TypeOK'
  BY <1>1, <1>2, <1>4, <1>5, <1>6 DEF TypeOK
<1>8. Len(decoded) = Len(consumed) /\ Len(literal) = 0 /\ literal = << >> /\ copyLeft = 0
      /\ Len(consumed) \in Nat /\ decoded = consumed
  BY <1>6 DEF ReadyInv, TypeOK
<1>9. LoopInv'
  <2>1. \A k \in 1..Len(decoded') : decoded'[k] = Expected(k)'
    BY <1>5, <1>8 DEF Expected
  <2>. QED  BY <2>1, <1>1, <1>2, <1>4, <1>5, <1>8 DEF LoopInv
<1>. QED  BY <1>5, <1>6, <1>7, <1>9 DEF SnappyInv

LEMMA ReturnStep == ASSUME SnappyInv, Return PROVE SnappyInv'
<1>1. /\ pc = "loop" /\ copyLeft = 0 /\ pc' = "ready" /\ index' = 0
      /\ decoded' = decoded \o literal /\ literal' = << >>
      /\ consumed' = consumed \o Read(index)
      /\ uncompressed' = uncompressed + index
      /\ UNCHANGED <<prev, history, wrpos, endpos, calls, prefix, copyDelta, copyLeft>>
  BY DEF Return
<1>2. TypeOK /\ uncompressed = Len(consumed) /\ wrpos <= endpos + 5
  BY DEF SnappyInv
<1>3. consumed \in Seq(Outputs) /\ index \in Nat /\ Len(consumed) \in Nat
  BY <1>2 DEF TypeOK
<1>4. /\ Read(index) \in Seq(Outputs) /\ Len(Read(index)) = index
      /\ \A k \in 1..index : Read(index)[k] = Preprocess[data[k - 1]]
  BY <1>1, ReadType
<1>5. /\ decoded' \in Seq(Outputs) /\ Len(decoded') = Len(consumed) + index
      /\ \A k \in 1..(Len(consumed) + index) : decoded'[k] = Expected(k)
  BY <1>1, Flushed
<1>6. /\ consumed' \in Seq(Outputs) /\ Len(consumed') = Len(consumed) + index
      /\ \A k \in 1..Len(consumed) : consumed'[k] = consumed[k]
      /\ \A k \in 1..index : consumed'[Len(consumed) + k] = Read(index)[k]
  <2>1. Read(index) \in Seq(Outputs) /\ consumed \in Seq(Outputs)
    BY <1>3, <1>4
  <2>2. /\ consumed \o Read(index) \in Seq(Outputs)
        /\ Len(consumed \o Read(index)) = Len(consumed) + Len(Read(index))
        /\ \A k \in 1..Len(consumed) : (consumed \o Read(index))[k] = consumed[k]
        /\ \A k \in 1..Len(Read(index)) :
              (consumed \o Read(index))[Len(consumed) + k] = Read(index)[k]
    BY ONLY <2>1, Concatenation
  <2>. QED  BY <2>2, <1>1, <1>4
<1>7. ASSUME NEW k \in 1..(Len(consumed) + index)
      PROVE  decoded'[k] = consumed'[k]
  <2>1. CASE k <= Len(consumed)
    <3>1. Expected(k) = consumed[k]
      BY <2>1 DEF Expected
    <3>. QED  BY <2>1, <3>1, <1>3, <1>5, <1>6
  <2>2. CASE ~(k <= Len(consumed))
    <3>1. PICK j \in 1..index : k = Len(consumed) + j /\ k - Len(consumed) - 1 = j - 1
      <4>1. k - Len(consumed) \in 1..index /\ k = Len(consumed) + (k - Len(consumed))
        BY <2>2, <1>3
      <4>. QED  BY <4>1
    <3>2. Expected(k) = Preprocess[data[j - 1]]
      BY <2>2, <3>1 DEF Expected
    <3>. QED  BY <3>1, <3>2, <1>4, <1>5, <1>6
  <2>. QED  BY <2>1, <2>2
<1>8. decoded' = consumed'
  BY <1>5, <1>6, <1>7, SameSequence
<1>9. ReadyInv'
  BY <1>1, <1>8 DEF ReadyInv
<1>10. TypeOK'
  <2>1. << >> \in Seq(Outputs)
    OBVIOUS
  <2>2. uncompressed' \in Nat
    BY <1>1, <1>2, <1>3
  <2>. QED  BY <2>1, <2>2, <1>1, <1>2, <1>5, <1>6 DEF TypeOK
<1>. QED  BY <1>1, <1>2, <1>6, <1>9, <1>10 DEF SnappyInv

LEMMA SnappyFinishStep == ASSUME SnappyInv, SnappyFinish PROVE SnappyInv'
<1>1. /\ pc = "ready" /\ pc' = "finished" /\ prefix' = uncompressed % LengthLimit
      /\ UNCHANGED <<index, prev, history, literal, wrpos, endpos, calls,
                     consumed, uncompressed, decoded, copyDelta, copyLeft>>
  BY DEF SnappyFinish, decoder
<1>2. TypeOK /\ ReadyInv /\ uncompressed = Len(consumed) /\ wrpos <= endpos + 5
  BY <1>1 DEF SnappyInv
<1>3. prefix' \in Nat
  BY <1>1, <1>2, SnappyAssumption DEF TypeOK
<1>4. TypeOK'
  BY <1>1, <1>2, <1>3 DEF TypeOK
<1>5. ReadyInv'
  BY <1>1, <1>2 DEF ReadyInv
<1>. QED  BY <1>1, <1>2, <1>4, <1>5 DEF SnappyInv

LEMMA StutterStep == ASSUME SnappyInv, UNCHANGED vars PROVE SnappyInv'
BY DEF SnappyInv, TypeOK, LoopInv, ReadyInv, Expected, Outputs, vars, input, caller, decoder

LEMMA InitInv == ASSUME Init PROVE SnappyInv
<1>1. endpos \in Nat /\ wrpos <= endpos + 5
  BY SnappyAssumption DEF Init
<1>2. history \in [Keys -> Nat]
  <2>1. history \in [Keys -> StaleHistory]
    BY DEF Init
  <2>2. StaleHistory \subseteq Nat
    BY SnappyAssumption
  <2>. QED  BY <2>1, <2>2
<1>3. << >> \in Seq(Outputs) /\ Len(<< >>) = 0
  OBVIOUS
<1>4. TypeOK
  BY <1>1, <1>2, <1>3 DEF Init, TypeOK
<1>. QED  BY <1>1, <1>3, <1>4 DEF Init, SnappyInv, ReadyInv

\* The inductive invariant of Snappy32: inside a call the decoder's output,
\* its current copy and the open literal block account for the input read, as
\* long as no call of snappy_compress is for more words than the 16-bit offset
\* of a copy reaches back.
THEOREM SnappyInvariant == ASSUME ShortCalls PROVE Spec => []SnappyInv
<1>1. Init => SnappyInv
  BY InitInv
<1>2. SnappyInv /\ [Next]_vars => SnappyInv'
  <2>. SUFFICES ASSUME SnappyInv, [Next]_vars PROVE SnappyInv'
    OBVIOUS
  <2>1. CASE SnappyCompress
    BY <2>1, SnappyCompressStep
  <2>2. CASE SnappyFinish
    BY <2>2, SnappyFinishStep
  <2>3. CASE Return
    BY <2>3, ReturnStep
  <2>4. CASE RepeatOnce
    BY <2>4, RepeatOnceStep
  <2>5. CASE RepeatTwice
    BY <2>5, RepeatTwiceStep
  <2>6. CASE RepeatMore
    BY <2>6, RepeatMoreStep
  <2>7. CASE RepeatRun
    BY <2>7, RepeatRunStep
  <2>8. CASE BackReference
    BY <2>8, BackReferenceStep
  <2>9. CASE Literal
    BY <2>9, LiteralStep
  <2>10. CASE DecodeWord
    BY <2>10, DecodeWordStep
  <2>11. CASE UNCHANGED vars
    BY <2>11, StutterStep
  <2>. QED  BY <2>1, <2>2, <2>3, <2>4, <2>5, <2>6, <2>7, <2>8, <2>9, <2>10, <2>11 DEF Next
<1>. QED  BY <1>1, <1>2, PTL DEF Spec

\* Decompression of what snappy_compress wrote in calls of at most OffsetLimit
\* words gives back, preprocessed, the words it consumed, and snappy_finish
\* announces how many.
THEOREM RoundTripCorrect == ASSUME ShortCalls PROVE Spec => []RoundTrip
<1>1. SnappyInv => RoundTrip
  <2>. SUFFICES ASSUME SnappyInv PROVE RoundTrip
    OBVIOUS
  <2>1. pc \in {"ready", "finished"} => decoded = consumed
    BY DEF SnappyInv, ReadyInv
  <2>2. ASSUME pc = "finished", Len(decoded) < LengthLimit
        PROVE  prefix = Len(decoded)
    <3>1. prefix = Len(decoded) % LengthLimit /\ Len(decoded) \in Nat
      BY <2>2 DEF SnappyInv, ReadyInv, TypeOK
    <3>. QED  BY <3>1, <2>2, SnappyAssumption
  <2>. QED  BY <2>1, <2>2 DEF RoundTrip
<1>. QED  BY <1>1, SnappyInvariant, PTL

\* What a call writes in one iteration.
LEMMA BufferInvStep == BufferInv /\ [Next]_vars => BufferInv'
<1>. SUFFICES ASSUME BufferInv, [Next]_vars PROVE BufferInv'
  OBVIOUS
<1>1. /\ index \in Nat /\ wordcount \in Nat /\ wrpos \in Nat /\ endpos \in Nat
      /\ wrpos <= endpos + 5 /\ CopyWords \in Nat /\ CopyWords >= 3
  BY SnappyAssumption DEF BufferInv
<1>2. Iterating => wrpos < endpos
  BY DEF Iterating, Continue
<1>3. CASE SnappyCompress
  <2>1. wordcount' \in Nat
    BY <1>3, SnappyAssumption DEF SnappyCompress
  <2>. QED  BY <1>1, <1>3, <2>1 DEF SnappyCompress, BufferInv
<1>4. CASE SnappyFinish \/ Return \/ DecodeWord \/ UNCHANGED vars
  BY <1>1, <1>4 DEF SnappyFinish, Return, DecodeWord, vars, input, BufferInv
<1>5. CASE RepeatOnce \/ RepeatTwice
  BY <1>1, <1>2, <1>5 DEF RepeatOnce, RepeatTwice, Repeating, Copy, input, BufferInv
<1>6. CASE RepeatMore
  <2>1. Iterating /\ UNCHANGED <<input, endpos>>
    BY <1>6 DEF RepeatMore, Repeating
  <2>2. PICK n \in 1..CopyWords - 1 : Copy(1, n + 1, 3) /\ index' = index + n + 1
    BY <1>6 DEF RepeatMore
  <2>. QED  BY <1>1, <1>2, <2>1, <2>2 DEF Copy, input, BufferInv
<1>7. CASE RepeatRun
  <2>. DEFINE next  == index + 2 * CopyWords
              limit == RunLimit(next, wrpos + 6)
  <2>1. Iterating /\ UNCHANGED <<input, endpos>>
    BY <1>7 DEF RepeatRun, Repeating
  <2>2. PICK k \in 0..(wordcount \div CopyWords) :
          /\ k = 0 \/ k <= limit
          /\ Copy(1, (k + 2) * CopyWords, 3 * (k + 2))
          /\ index' = next + k * CopyWords
    BY <1>7 DEF RepeatRun
  <2>3. k \in Nat /\ next \in Nat
    BY <1>1, <2>2
  <2>4. k = 0 \/ k <= (endpos - (wrpos + 6)) \div 3
    <3>1. limit <= (endpos - (wrpos + 6)) \div 3
      <4>1. (wordcount - next) \div CopyWords \in Int /\ (endpos - (wrpos + 6)) \div 3 \in Int
        BY <1>1, <2>3
      <4>. QED  BY <4>1 DEF RunLimit
    <3>2. limit \in Int /\ (endpos - (wrpos + 6)) \div 3 \in Int
      <4>1. (wordcount - next) \div CopyWords \in Int /\ (endpos - (wrpos + 6)) \div 3 \in Int
        BY <1>1, <2>3
      <4>. QED  BY <4>1 DEF RunLimit
    <3>. HIDE DEF limit
    <3>. QED  BY <2>2, <2>3, <3>1, <3>2
  <2>5. wrpos' = wrpos + 3 * (k + 2) /\ k * CopyWords \in Nat
    BY <1>1, <2>2, <2>3 DEF Copy
  <2>6. wrpos' <= endpos + 5
    <3>1. CASE k = 0
      BY <1>1, <1>2, <2>1, <2>5, <3>1
    <3>2. CASE k <= (endpos - (wrpos + 6)) \div 3
      <4>1. k * 3 <= endpos - (wrpos + 6)
        BY <1>1, <2>3, <3>2, Quotient
      <4>. QED  BY <1>1, <2>3, <2>5, <4>1
    <3>. QED  BY <2>4, <3>1, <3>2
  <2>7. wrpos' \in Nat /\ index' \in Nat
    BY <1>1, <2>2, <2>3, <2>5
  <2>. QED  BY <1>1, <2>1, <2>6, <2>7 DEF input, BufferInv
<1>8. CASE BackReference
  <2>1. Iterating /\ UNCHANGED <<input, endpos>>
    BY <1>8 DEF BackReference, NewWord
  <2>2. PICK n \in 1..CopyWords : WriteCopy(index - Offset, n) /\ index' = index + n
    BY <1>8 DEF BackReference
  <2>3. wrpos' = wrpos + 2 \/ wrpos' = wrpos + 3
    BY <2>2 DEF WriteCopy, Copy
  <2>. QED  BY <1>1, <1>2, <2>1, <2>2, <2>3 DEF input, BufferInv
<1>9. CASE Literal
  <2>1. /\ Iterating /\ UNCHANGED <<input, endpos>> /\ index' = index + 1
        /\ wrpos' = wrpos + 5 \/ wrpos' = wrpos + 4
    BY <1>9 DEF Literal, NewWord
  <2>. QED  BY <1>1, <1>2, <2>1 DEF input, BufferInv
<1>. QED  BY <1>3, <1>4, <1>5, <1>6, <1>7, <1>8, <1>9 DEF Next

\* One comparison of wrpos with endpos per iteration is enough to keep every
\* store inside the buffer, for calls of any size: 6 of the 16 bytes of
\* SNAPPY_RUNOVER_LEN suffice.
THEOREM StoresStayInBuffer == Spec => []StoresInBuffer
<1>1. Init => BufferInv
  BY SnappyAssumption DEF Init, BufferInv
<1>2. BufferInv => StoresInBuffer
  BY SnappyAssumption DEF BufferInv, StoresInBuffer
<1>. QED  BY <1>1, <1>2, BufferInvStep, PTL DEF Spec
=============================================================================
