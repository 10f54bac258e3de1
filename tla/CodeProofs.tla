----------------------------- MODULE CodeProofs -----------------------------
(***************************************************************************)
(* The code that huffman_create_alphabet makes is right for any counts:    *)
(* the trees that are combined are the lightest, the lengths leave room    *)
(* for all symbols however many had to be cut, and the codes are those of  *)
(* the format, of which none begins another.                               *)
(***************************************************************************)
EXTENDS DeflateProofs

-----------------------------------------------------------------------------
(* The paths from the entries of the heap up to its root.                  *)

\* A function of the paths from entries 0 to n of the heap up to its root.
ArePaths(path, n) ==
    /\ DOMAIN path = 0..n
    /\ \A j \in 0..n : path[j] = IF j = 0 THEN {} ELSE {j} \cup path[j \div 2]

LEMMA Halves ==
    ASSUME NEW j \in Nat, j # 0
    PROVE  /\ j \div 2 \in Nat /\ j \div 2 < j /\ j \div 2 \in 0..(j - 1)
           /\ j > 1 => j \div 2 >= 1 /\ j \div 2 \in 1..(j - 1)
           /\ j = 2 * (j \div 2) \/ j = 2 * (j \div 2) + 1
BY SMT

LEMMA PathsExist ==
    ASSUME NEW n \in Nat
    PROVE  /\ ArePaths([j \in 0..n |-> UpFrom(j)], n)
           /\ \A j \in 0..n : UpFrom(j) \in SUBSET Nat
<1> DEFINE Path(p, i) == p = [j \in 0..i |-> IF j = 0 THEN {} ELSE {j} \cup p[j \div 2]]
<1>1. ASSUME NEW i \in Nat
      PROVE  \E p : Path(p, i) /\ p \in [0..i -> SUBSET Nat]
  <2> DEFINE value == [k \in 0..i |-> [g \in [0..(k - 1) -> SUBSET Nat] |->
                          IF k = 0 THEN {} ELSE {k} \cup g[k \div 2]]]
  <2>1. ASSUME NEW k \in 0..i, NEW g \in [0..(k - 1) -> SUBSET Nat]
        PROVE  /\ value[k][g] = IF k = 0 THEN {} ELSE {k} \cup g[k \div 2]
               /\ value[k][g] \in SUBSET Nat
    <3>1. k \in Nat /\ (k # 0 => k \div 2 \in 0..(k - 1))
      BY SMT
    <3>2. k # 0 => g[k \div 2] \in SUBSET Nat
      BY <3>1
    <3>3. value[k][g] = IF k = 0 THEN {} ELSE {k} \cup g[k \div 2]
      OBVIOUS
    <3> HIDE DEF value
    <3> QED BY <3>1, <3>2, <3>3
  <2> HIDE DEF value
  <2>2. PICK p : IsMade(p, value, i, SUBSET Nat)
    <3>1. Makes(value, i, SUBSET Nat)
      BY <2>1 DEF Makes
    <3> QED BY <3>1, Recursion
  <2>3. ASSUME NEW k \in 0..i
        PROVE  p[k] = IF k = 0 THEN {} ELSE {k} \cup p[k \div 2]
    <3> DEFINE g == [j \in 0..(k - 1) |-> p[j]]
    <3>1. k \in Nat /\ (k # 0 => k \div 2 \in 0..(k - 1)) /\ \A j \in 0..(k - 1) : j \in 0..i
      BY SMT
    <3>2. g \in [0..(k - 1) -> SUBSET Nat]
      BY <2>2, <3>1 DEF IsMade
    <3>3. k # 0 => g[k \div 2] = p[k \div 2]
      BY <3>1
    <3>4. p[k] = value[k][g]
      BY <2>2, <3>2 DEF IsMade
    <3> HIDE DEF g
    <3> QED BY <2>1, <3>2, <3>3, <3>4
  <2>4. p = [j \in 0..i |-> IF j = 0 THEN {} ELSE {j} \cup p[j \div 2]]
    BY <2>2, <2>3 DEF IsMade
  <2> QED BY <2>2, <2>4 DEF IsMade
<1>2. ASSUME NEW i \in Nat
      PROVE  \E p : Path(p, i) /\ UpFrom(i) = p[i]
  <2>1. UpFrom(i) = (CHOOSE p : Path(p, i))[i]
    BY DEF UpFrom
  <2> HIDE DEF Path
  <2> QED BY <1>1, <2>1
<1>3. ASSUME NEW a, NEW b, NEW i \in Nat, NEW k \in Nat, Path(a, i), Path(b, k)
      PROVE  \A j \in Nat : j <= i /\ j <= k => a[j] = b[j]
  <2> DEFINE bad == {j \in Nat : j <= i /\ j <= k /\ a[j] # b[j]}
  <2> SUFFICES ASSUME bad # {} PROVE FALSE
    OBVIOUS
  <2>1. PICK j \in bad : \A l \in bad : j <= l
    <3>1. bad \subseteq Nat
      OBVIOUS
    <3> HIDE DEF bad
    <3> QED BY <3>1, LeastNumber
  <2>2. j \in 0..i /\ j \in 0..k /\ j \in Nat /\ a[j] # b[j]
    BY SMT
  <2>3. /\ a[j] = IF j = 0 THEN {} ELSE {j} \cup a[j \div 2]
        /\ b[j] = IF j = 0 THEN {} ELSE {j} \cup b[j \div 2]
    BY <1>3, <2>2
  <2>4. j # 0
    BY <2>2, <2>3
  <2>5. j \div 2 \in Nat /\ j \div 2 <= i /\ j \div 2 <= k /\ ~(j <= j \div 2)
    BY <2>2, <2>4, SMT
  <2>6. a[j \div 2] = b[j \div 2]
    BY <2>1, <2>5
  <2> QED BY <2>2, <2>3, <2>6
<1>4. PICK p : Path(p, n) /\ p \in [0..n -> SUBSET Nat]
  BY <1>1
<1>5. ASSUME NEW j \in 0..n PROVE UpFrom(j) = p[j]
  <2>1. j \in Nat /\ j <= j /\ j <= n
    BY SMT
  <2>2. PICK q : Path(q, j) /\ UpFrom(j) = q[j]
    BY <1>2, <2>1
  <2>3. q[j] = p[j]
    <3> HIDE DEF Path
    <3> QED BY <1>3, <1>4, <2>1, <2>2
  <2> QED BY <2>2, <2>3
<1>6. [j \in 0..n |-> UpFrom(j)] = p
  BY <1>4, <1>5
<1>7. ASSUME NEW j \in 0..n PROVE p[j] = IF j = 0 THEN {} ELSE {j} \cup p[j \div 2]
  BY <1>4
<1> QED BY <1>4, <1>5, <1>6, <1>7 DEF ArePaths

\* The path of an entry is the entry and the path of the one above it.
LEMMA PathStep ==
    ASSUME NEW i \in Nat
    PROVE  /\ UpFrom(i) \in SUBSET Nat
           /\ i = 0 => UpFrom(i) = {}
           /\ i # 0 => UpFrom(i) = {i} \cup UpFrom(i \div 2)
<1> DEFINE p == [j \in 0..i |-> UpFrom(j)]
<1>1. ArePaths(p, i) /\ UpFrom(i) \in SUBSET Nat
  <2>1. i \in 0..i
    BY SMT
  <2> QED BY <2>1, PathsExist
<1>2. i \in 0..i /\ (i # 0 => i \div 2 \in 0..i)
  BY SMT
<1>3. p[i] = UpFrom(i) /\ (i # 0 => p[i \div 2] = UpFrom(i \div 2))
  BY <1>2
<1> HIDE DEF p
<1> QED BY <1>1, <1>2, <1>3 DEF ArePaths
\* What is on a path is not below its entry, and its own path is part of it.
LEMMA PathPart ==
    ASSUME NEW i \in Nat
    PROVE  \A j \in UpFrom(i) : j \in 1..i /\ UpFrom(j) \subseteq UpFrom(i)
<1> DEFINE Good(k) == \A j \in UpFrom(k) : j \in 1..k /\ UpFrom(j) \subseteq UpFrom(k)
           bad == {k \in Nat : ~Good(k)}
<1> SUFFICES ASSUME bad # {} PROVE FALSE
  OBVIOUS
<1>1. PICK k \in bad : \A m \in bad : k <= m
  <2>1. bad \subseteq Nat
    OBVIOUS
  <2> HIDE DEF bad
  <2> QED BY <2>1, LeastNumber
<1>2. k \in Nat /\ ~Good(k)
  OBVIOUS
<1>3. k # 0
  BY <1>2, PathStep
<1>4. k \div 2 \in Nat /\ ~(k <= k \div 2) /\ 1..(k \div 2) \subseteq 1..k /\ k \in 1..k
  BY <1>2, <1>3, SMT
<1>5. Good(k \div 2)
  BY <1>1, <1>4
<1>6. UpFrom(k) = {k} \cup UpFrom(k \div 2)
  BY <1>2, <1>3, PathStep
<1>7. Good(k)
  <2> SUFFICES ASSUME NEW j \in UpFrom(k) PROVE j \in 1..k /\ UpFrom(j) \subseteq UpFrom(k)
    OBVIOUS
  <2>1. CASE j = k
    BY <1>4, <2>1
  <2>2. CASE j \in UpFrom(k \div 2)
    BY <1>4, <1>5, <1>6, <2>2
  <2> QED BY <1>6, <2>1, <2>2
<1> QED BY <1>2, <1>7

\* A path is a chain: of two entries on it the lower has the upper one on its
\* path, and an entry above another is not below its half.
LEMMA PathChain ==
    ASSUME NEW i \in Nat, NEW j \in UpFrom(i), NEW k \in UpFrom(i), k < j
    PROVE  k \in UpFrom(j \div 2) /\ k <= j \div 2
<1> DEFINE Good(n) == \A a, b \in UpFrom(n) : b <= a => b \in UpFrom(a)
           bad == {n \in Nat : ~Good(n)}
<1>1. bad = {}
  <2> SUFFICES ASSUME bad # {} PROVE FALSE
    OBVIOUS
  <2>1. PICK n \in bad : \A m \in bad : n <= m
    <3>1. bad \subseteq Nat
      OBVIOUS
    <3> HIDE DEF bad
    <3> QED BY <3>1, LeastNumber
  <2>2. n \in Nat /\ ~Good(n)
    OBVIOUS
  <2>3. n # 0
    BY <2>2, PathStep
  <2>4. n \div 2 \in Nat /\ n \div 2 < n /\ ~(n <= n \div 2)
    BY <2>2, <2>3, SMT
  <2>5. Good(n \div 2)
    BY <2>1, <2>4
  <2>6. UpFrom(n) = {n} \cup UpFrom(n \div 2)
    BY <2>2, <2>3, PathStep
  <2>7. \A a \in UpFrom(n \div 2) : a \in 1..(n \div 2)
    BY <2>4, PathPart
  <2>8. Good(n)
    <3> SUFFICES ASSUME NEW a \in UpFrom(n), NEW b \in UpFrom(n), b <= a PROVE b \in UpFrom(a)
      OBVIOUS
    <3>1. CASE a = n
      BY <3>1
    <3>2. CASE a # n
      <4>1. a \in UpFrom(n \div 2) /\ a \in 1..(n \div 2)
        BY <2>6, <2>7, <3>2
      <4>2. b # n
        BY <2>2, <2>4, <4>1, SMT
      <4>3. b \in UpFrom(n \div 2)
        BY <2>6, <4>2
      <4> QED BY <2>5, <4>1, <4>3
    <3> QED BY <3>1, <3>2
  <2> QED BY <2>2, <2>8
<1>2. Good(i)
  BY <1>1
<1>3. j \in 1..i /\ k \in 1..i
  BY PathPart
<1>4. k \in UpFrom(j)
  BY <1>2, <1>3
<1>5. j \in Nat /\ j # 0 /\ j \div 2 \in Nat /\ k # j
  BY <1>3, SMT
<1>6. k \in UpFrom(j \div 2)
  BY <1>4, <1>5, PathStep
<1> QED BY <1>5, <1>6, PathPart

\* An entry that is not the root has the one above it on its path.
LEMMA PathAbove ==
    ASSUME NEW i \in Nat, NEW j \in UpFrom(i), j # 1
    PROVE  j \div 2 \in UpFrom(i) /\ j \div 2 \in 1..(j - 1)
<1>1. j \in 1..i /\ UpFrom(j) \subseteq UpFrom(i)
  BY PathPart
<1>2. j \in Nat /\ j # 0 /\ j > 1
  BY <1>1, SMT
<1>3. j \div 2 \in Nat /\ j \div 2 # 0 /\ j \div 2 \in 1..(j - 1)
  BY <1>2, SMT
<1>4. j \div 2 \in UpFrom(j \div 2) /\ UpFrom(j \div 2) \subseteq UpFrom(j)
  BY <1>2, <1>3, PathStep
<1> QED BY <1>1, <1>3, <1>4

\* Below each entry of a path but the last is another one.
LEMMA PathBelow ==
    ASSUME NEW i \in Nat, NEW j \in UpFrom(i), j # i
    PROVE  \E k \in UpFrom(i) : k \div 2 = j /\ k # 1 /\ k \in 1..i
<1> DEFINE S == {k \in UpFrom(i) : k > j}
<1>1. \A k \in UpFrom(i) : k \in 1..i
  BY PathPart
<1>2. i \in UpFrom(i) /\ j \in 1..i
  <2>1. j \in 1..i
    BY <1>1
  <2>2. i # 0
    BY <2>1, SMT
  <2> QED BY <2>1, <2>2, PathStep
<1>3. i \in S /\ S \subseteq Nat
  <2>1. i > j
    BY <1>2, SMT
  <2>2. \A k \in UpFrom(i) : k \in Nat
    BY <1>1, SMT
  <2> QED BY <1>2, <2>1, <2>2
<1>4. PICK k \in S : \A m \in S : k <= m
  <2> HIDE DEF S
  <2> QED BY <1>3, LeastNumber
<1>5. k \in UpFrom(i) /\ k > j /\ k \in 1..i /\ k # 1
  BY <1>1, <1>2, <1>4, SMT
<1>6. k \div 2 \in UpFrom(i) /\ k \div 2 \in 1..(k - 1)
  BY <1>5, PathAbove
<1>7. ~(k \div 2 > j)
  <2>1. ~(k <= k \div 2)
    BY <1>5, <1>6, SMT
  <2> QED BY <1>4, <1>6, <2>1
<1>8. j <= k \div 2
  BY <1>2, <1>5, PathChain
<1>9. k \div 2 = j
  BY <1>2, <1>6, <1>7, <1>8, SMT
<1> QED BY <1>5, <1>9

-----------------------------------------------------------------------------
(* The heap keeps its entries, in whatever order.                          *)

Entries(h)  == {h[i] : i \in DOMAIN h}
Distinct(h) == \A i, j \in DOMAIN h : i # j => h[i] # h[j]

\* A sequence that takes all its entries from another of the same length, each
\* from its own place, has all entries of the other.
LEMMA Rearranged ==
    ASSUME NEW n \in Nat, NEW h, DOMAIN h = 1..n, Distinct(h),
           NEW g, DOMAIN g = 1..n,
           NEW from \in [1..n -> 1..n], \A i, j \in 1..n : i # j => from[i] # from[j],
           \A i \in 1..n : g[i] = h[from[i]]
    PROVE  Distinct(g) /\ Entries(g) = Entries(h)
<1>1. Distinct(g)
  BY DEF Distinct
<1> DEFINE T == {from[i] : i \in 1..n}
<1>2. IsFiniteSet(1..n) /\ Cardinality(1..n) = n
  <2>1. 1 \in Int /\ n \in Int /\ n - 1 + 1 = n
    OBVIOUS
  <2>2. IsFiniteSet(1..n) /\ Cardinality(1..n) = IF 1 > n THEN 0 ELSE n - 1 + 1
    BY <2>1, FS_Interval
  <2> QED BY <2>2
<1>3. from \in Bijection(1..n, T)
  <2>1. from \in [1..n -> T]
    OBVIOUS
  <2>2. from \in Injection(1..n, T)
    BY <2>1 DEF Injection, IsInjective
  <2>3. from \in Surjection(1..n, T)
    BY <2>1 DEF Surjection
  <2> QED BY <2>2, <2>3 DEF Bijection
<1>4. Cardinality(T) = n
  <2> HIDE DEF T
  <2>1. ExistsBijection(1..n, T)
    BY <1>3 DEF ExistsBijection
  <2> QED BY <2>1, FS_CountingElements
<1>5. T = 1..n
  <2>1. T \in SUBSET (1..n)
    OBVIOUS
  <2> HIDE DEF T
  <2> QED BY <1>2, <1>4, <2>1, FS_Subset
<1>6. ASSUME NEW x PROVE x \in Entries(g) <=> x \in Entries(h)
  <2>1. x \in Entries(g) => x \in Entries(h)
    BY DEF Entries
  <2>2. ASSUME x \in Entries(h) PROVE x \in Entries(g)
    <3>1. PICK i \in 1..n : x = h[i]
      BY <2>2 DEF Entries
    <3>2. i \in T
      BY <1>5
    <3>3. PICK j \in 1..n : i = from[j]
      BY <3>2
    <3>4. x = g[j]
      BY <3>1, <3>3
    <3> QED BY <3>4 DEF Entries
  <2> QED BY <2>1, <2>2
<1> QED BY <1>1, <1>6

\* No entry, of those with one above them from entry k on, is lighter than that.
InOrder(w, h, i) == w[h[i \div 2]] <= w[h[i]]
Ordered(w, h, k) == \A i \in DOMAIN h : i \div 2 >= k => InOrder(w, h, i)

Weighed(w, D) == \A x \in D : w[x] \in Int

\* One that goes up leaves the heap in order, if it was but for the last.
LEMMA SiftUpRearranges ==
    ASSUME NEW D, NEW w, Weighed(w, D),
           NEW h \in Seq(D), NEW child \in 1..Len(h), Distinct(h)
    PROVE  /\ Distinct(SiftUp(w, h, child))
           /\ Entries(SiftUp(w, h, child)) = Entries(h)
           /\ child = Len(h) /\ (\A i \in 2..(Len(h) - 1) : InOrder(w, h, i)) =>
                Ordered(w, SiftUp(w, h, child), 1)
<1> DEFINE n == Len(h)
           rises(i) == i > 1 /\ w[h[i \div 2]] > w[h[child]]
           met      == {i \in UpFrom(child) : \A j \in UpFrom(child) : j > i => rises(j)}
           place(i) == IF i \notin met THEN i ELSE IF rises(i) THEN i \div 2 ELSE child
           from     == [i \in 1..n |-> place(i)]
           g        == SiftUp(w, h, child)
<1>1. n \in Nat /\ DOMAIN h = 1..n /\ child \in Nat /\ child # 0 /\ child <= n
  OBVIOUS
<1>2. DOMAIN g = 1..n /\ \A i \in 1..n : g[i] = h[place(i)]
  BY <1>1 DEF SiftUp
<1>3. \A i \in UpFrom(child) : i \in 1..child
  BY <1>1, PathPart
<1>4. child \in met
  <2>1. child \in UpFrom(child)
    BY <1>1, PathStep
  <2>2. \A j \in UpFrom(child) : ~(j > child)
    BY <1>1, <1>3, SMT
  <2> QED BY <2>1, <2>2
<1>5. ASSUME NEW i \in met, rises(i)
      PROVE  i \div 2 \in met /\ i \div 2 \in 1..(i - 1) /\ i \in 1..child
  <2>1. i \in UpFrom(child) /\ i \in 1..child /\ i # 1
    BY <1>3, <1>5
  <2>2. i \div 2 \in UpFrom(child) /\ i \div 2 \in 1..(i - 1)
    BY <1>1, <2>1, PathAbove
  <2>3. ASSUME NEW j \in UpFrom(child), j > i \div 2 PROVE rises(j)
    <3>1. j \in 1..child
      BY <1>3
    <3>2. j < i => j <= i \div 2
      BY <1>1, <2>1, PathChain
    <3>3. j >= i
      BY <2>1, <2>2, <2>3, <3>1, <3>2, SMT
    <3>4. j = i \/ j > i
      BY <2>1, <3>1, <3>3, SMT
    <3> HIDE DEF rises
    <3> QED BY <1>5, <3>4
  <2>4. i \div 2 \in met
    <3> HIDE DEF rises
    <3> QED BY <2>2, <2>3
  <2> QED BY <2>1, <2>2, <2>4
<1>6. ASSUME NEW i \in met, NEW j \in met, ~rises(i), ~rises(j)
      PROVE  i = j
  <2>1. i \in Nat /\ j \in Nat
    BY <1>3, SMT
  <2>2. ~(i < j) /\ ~(j < i)
    <3> HIDE DEF rises
    <3> QED BY <1>6, <2>1
  <2> QED BY <2>1, <2>2, SMT
<1>7. ASSUME NEW i \in met, NEW j \in met, i < j, rises(i), rises(j)
      PROVE  i \div 2 # j \div 2
  <2>1. i \in UpFrom(child) /\ j \in UpFrom(child)
    OBVIOUS
  <2>2. i <= j \div 2
    BY <1>1, <1>7, <2>1, PathChain
  <2>3. i \div 2 \in 1..(i - 1) /\ i \in 1..child
    BY <1>5, <1>7
  <2> QED BY <2>2, <2>3, SMT
<1>8. \A i \in met : i \in 1..n
  BY <1>1, <1>3, SMT
<1> HIDE DEF met, rises
<1>9. from \in [1..n -> 1..n]
  <2>1. ASSUME NEW i \in 1..n PROVE place(i) \in 1..n
    <3>1. i \in met /\ rises(i) => i \div 2 \in 1..n
      BY <1>5, <1>8
    <3> QED BY <1>1, <3>1
  <2> HIDE DEF place
  <2> QED BY <2>1
<1>10. ASSUME NEW i \in 1..n, NEW j \in 1..n, i # j
       PROVE  place(i) # place(j)
  <2>1. CASE i \in met /\ j \in met
    <3>1. CASE rises(i) /\ rises(j)
      <4>1. i < j \/ j < i
        BY <1>10, SMT
      <4>2. i \div 2 # j \div 2
        BY <1>7, <2>1, <3>1, <4>1
      <4> QED BY <2>1, <3>1, <4>2
    <3>2. CASE rises(i) /\ ~rises(j)
      <4>1. i \div 2 # child
        BY <1>5, <2>1, <3>2, SMT
      <4> QED BY <2>1, <3>2, <4>1
    <3>3. CASE ~rises(i) /\ rises(j)
      <4>1. j \div 2 # child
        BY <1>5, <2>1, <3>3, SMT
      <4> QED BY <2>1, <3>3, <4>1
    <3>4. CASE ~rises(i) /\ ~rises(j)
      BY <1>6, <1>10, <2>1, <3>4
    <3> QED BY <3>1, <3>2, <3>3, <3>4
  <2>2. CASE i \in met /\ j \notin met
    BY <1>4, <1>5, <2>2
  <2>3. CASE i \notin met /\ j \in met
    BY <1>4, <1>5, <2>3
  <2>4. CASE i \notin met /\ j \notin met
    BY <1>10, <2>4
  <2> QED BY <2>1, <2>2, <2>3, <2>4
<1>11. /\ \A i \in 1..n : g[i] = h[from[i]]
       /\ \A i, j \in 1..n : i # j => from[i] # from[j]
  <2> HIDE DEF place, g
  <2> QED BY <1>2, <1>10
<1>12. \A i \in 1..n : w[h[i]] \in Int
  BY <1>1 DEF Weighed
<1>13. ASSUME child = n, \A i \in 2..(n - 1) : InOrder(w, h, i),
              NEW i \in 1..n, i \div 2 >= 1
       PROVE  w[g[i \div 2]] <= w[g[i]]
  <2> DEFINE p == i \div 2
             x == w[h[child]]
  <2>1. i \in 2..n /\ p \in 1..(i - 1) /\ p \in 1..n /\ (i = 2 * p \/ i = 2 * p + 1)
    BY <1>1, <1>13, SMT
  <2>2. ASSUME NEW j \in 2..n, j # child
        PROVE  w[h[j \div 2]] <= w[h[j]] /\ j \div 2 \in 1..n
    <3>1. j \in 2..(n - 1) /\ j \div 2 \in 1..n
      <4>1. child = n /\ j \in 2..n /\ j # child /\ n \in Nat
        BY <1>1, <1>13, <2>2, Zenon
      <4> HIDE DEF n
      <4> QED BY <4>1, SMTT(30)
    <3> QED BY <1>13, <3>1 DEF InOrder
  <2>3. x \in Int /\ w[h[p]] \in Int /\ w[h[i]] \in Int
    BY <1>1, <1>12, <2>1
  <2>4. \A j \in 2..n : rises(j) <=> w[h[j \div 2]] > x
    BY DEF rises
  <2>5. \A j \in 1..n : rises(j) => j \in 2..n
    BY SMT DEF rises
  <2>6. /\ g[i] = (IF i \notin met THEN h[i] ELSE IF rises(i) THEN h[p] ELSE h[child])
        /\ g[p] = (IF p \notin met THEN h[p] ELSE IF rises(p) THEN h[p \div 2] ELSE h[child])
    BY <1>2, <2>1
  <2> HIDE DEF g, n, place, from, p, x
  <2>7. CASE i \in met /\ rises(i)
    <3>1. p \in met /\ w[h[p]] > x
      BY <1>5, <2>1, <2>4, <2>7 DEF p
    <3>2. p # child
      BY <1>1, <1>13, <2>1, SMT
    <3>3. CASE rises(p)
      BY <2>1, <2>2, <2>5, <2>6, <2>7, <3>1, <3>2, <3>3 DEF p
    <3>4. CASE ~rises(p)
      BY <2>3, <2>6, <2>7, <3>1, <3>4 DEF p, x
    <3> QED BY <3>3, <3>4
  <2>8. CASE i \in met /\ ~rises(i)
    <3>1. ~(w[h[p]] > x)
      BY <2>1, <2>4, <2>8 DEF p
    <3>2. p \notin met
      BY <2>1, <2>8 DEF met
    <3> QED BY <2>3, <2>6, <2>8, <3>1, <3>2 DEF p, x
  <2>9. CASE i \notin met
    <3>1. i # child /\ w[h[p]] <= w[h[i]]
      BY <1>4, <2>1, <2>2, <2>9 DEF p
    <3>2. p # child
      BY <1>1, <1>13, <2>1, SMT
    <3>3. CASE p \notin met
      BY <2>6, <2>9, <3>1, <3>3 DEF p
    <3>4. CASE p \in met /\ rises(p)
      <4>1. p \in 2..n /\ w[h[p \div 2]] <= w[h[p]] /\ p \div 2 \in 1..n
        BY <2>1, <2>2, <2>5, <3>2, <3>4
      <4>2. w[h[p \div 2]] \in Int
        BY <1>12, <4>1
      <4> QED BY <2>3, <2>6, <2>9, <3>1, <3>4, <4>1, <4>2 DEF p
    <3>5. CASE p \in met /\ ~rises(p)
      <4>1. p \in UpFrom(child)
        BY <3>5 DEF met
      <4>2. PICK k \in UpFrom(child) : k \div 2 = p /\ k # 1 /\ k \in 1..child
        BY <1>1, <3>2, <4>1, PathBelow
      <4>3. k > p /\ k \in 2..n
        BY <1>1, <2>1, <4>2, SMT
      <4>4. rises(k)
        BY <3>5, <4>2, <4>3 DEF met
      <4>5. w[h[p]] > x
        BY <2>4, <4>2, <4>3, <4>4
      <4> QED BY <2>3, <2>6, <2>9, <3>1, <3>5, <4>5 DEF p, x
    <3> QED BY <3>3, <3>4, <3>5
  <2> QED BY <2>7, <2>8, <2>9 DEF p
<1>14. child = n /\ (\A i \in 2..(n - 1) : InOrder(w, h, i)) => Ordered(w, g, 1)
  <2> HIDE DEF g
  <2> QED BY <1>2, <1>13 DEF Ordered, InOrder
<1> HIDE DEF g, from, n
<1>15. Distinct(g) /\ Entries(g) = Entries(h)
  BY <1>1, <1>2, <1>9, <1>11, Rearranged, SMTT(30)
<1> QED BY <1>14, <1>15 DEF g, n

\* One that goes down leaves the heap in order, if it was below the root.
LEMMA SiftDownRearranges ==
    ASSUME NEW D, NEW w, Weighed(w, D), NEW h \in Seq(D), Distinct(h)
    PROVE  /\ Distinct(SiftDown(w, h)) /\ Entries(SiftDown(w, h)) = Entries(h)
           /\ Ordered(w, h, 2) => Ordered(w, SiftDown(w, h), 1)
<1> DEFINE n == Len(h)
           left(i)  == 2 * i
           right(i) == IF 2 * i < Len(h) THEN 2 * i + 1 ELSE 2 * i
           lower(i) == IF w[h[left(i)]] < w[h[right(i)]] THEN left(i) ELSE right(i)
           sinks(i) == /\ left(i) <= Len(h)
                       /\ ~(w[h[1]] < w[h[left(i)]] /\ w[h[1]] < w[h[right(i)]])
           met      == {i \in DOMAIN h : \A j \in UpFrom(i) \ {1} :
                           sinks(j \div 2) /\ j = lower(j \div 2)}
           place(i) == IF i \notin met THEN i ELSE IF sinks(i) THEN lower(i) ELSE 1
           from     == [i \in 1..n |-> place(i)]
           g        == SiftDown(w, h)
<1>1. n \in Nat /\ DOMAIN h = 1..n
  OBVIOUS
<1>2. DOMAIN g = 1..n /\ \A i \in 1..n : g[i] = h[place(i)]
  BY <1>1 DEF SiftDown
<1>3. ASSUME NEW i \in 1..n, sinks(i)
      PROVE  lower(i) \in 1..n /\ lower(i) \div 2 = i /\ lower(i) > 1
  <2>1. lower(i) \in {2 * i, 2 * i + 1} /\ (lower(i) = 2 * i + 1 => 2 * i < n)
    OBVIOUS
  <2>2. 2 * i <= n
    BY <1>3
  <2> HIDE DEF lower
  <2> QED BY <1>1, <2>1, <2>2, SMT
\* The lower one is as light as both, and what does not sink is lighter.
<1>4. \A i \in 1..n : w[h[i]] \in Int
  BY <1>1 DEF Weighed
<1>5. ASSUME NEW p \in 1..n, NEW i \in 1..n, i = 2 * p \/ i = 2 * p + 1
       PROVE  /\ w[h[lower(p)]] <= w[h[i]]
              /\ sinks(p) => w[h[lower(p)]] <= w[h[1]]
              /\ ~sinks(p) => w[h[1]] <= w[h[i]]
  <2> DEFINE a == 2 * p
             b == right(p)
  <2>1. a \in 1..n /\ b \in 1..n /\ 1 \in 1..n /\ (i = a \/ i = b) /\ a <= n
    BY <1>1, <1>5, SMT
  <2>2. w[h[a]] \in Int /\ w[h[b]] \in Int /\ w[h[1]] \in Int
    <3> HIDE DEF a, b, n
    <3> QED BY <1>4, <2>1
  <2>3. lower(p) = IF w[h[a]] < w[h[b]] THEN a ELSE b
    OBVIOUS
  <2>4. sinks(p) <=> ~(w[h[1]] < w[h[a]] /\ w[h[1]] < w[h[b]])
    BY <2>1
  <2> HIDE DEF lower, right, sinks, left, n, a, b
  <2> QED BY <2>1, <2>2, <2>3, <2>4, SMTT(30)
<1> HIDE DEF sinks, lower, left, right
<1>6. \A i \in met : i \in 1..n /\ i \in Nat /\ i # 0
  BY <1>1, SMT
<1>7. ASSUME NEW i \in 1..n
      PROVE  i \in met <=> \A j \in UpFrom(i) \ {1} : sinks(j \div 2) /\ j = lower(j \div 2)
  BY <1>1
<1> HIDE DEF met
<1>8. 1 \in 1..n => 1 \in met
  <2>1. 1 \div 2 = 0 /\ 1 \in Nat
    BY SMT
  <2>2. UpFrom(1) = {1} \cup UpFrom(1 \div 2) /\ UpFrom(0) = {}
    BY <2>1, PathStep
  <2>3. UpFrom(1) \ {1} = {}
    BY <2>1, <2>2
  <2> QED BY <1>7, <2>3
\* One that was met and is below another sinks further, or is the last.
<1>9. ASSUME NEW i \in met, sinks(i)
      PROVE  lower(i) \in met
  <2>1. lower(i) \in 1..n /\ lower(i) \div 2 = i /\ lower(i) # 0 /\ lower(i) \in Nat
    BY <1>3, <1>6, <1>9, SMT
  <2>2. UpFrom(lower(i)) = {lower(i)} \cup UpFrom(i)
    BY <2>1, PathStep
  <2>3. ASSUME NEW j \in UpFrom(lower(i)) \ {1}
        PROVE  sinks(j \div 2) /\ j = lower(j \div 2)
    <3>1. CASE j = lower(i)
      BY <1>9, <2>1, <3>1
    <3>2. CASE j \in UpFrom(i)
      BY <1>6, <1>7, <3>2
    <3> QED BY <2>2, <3>1, <3>2
  <2> QED BY <1>7, <2>1, <2>3
<1>10. ASSUME NEW i \in met, i # 1
      PROVE  i \div 2 \in met /\ i \div 2 \in 1..(i - 1) /\ i = lower(i \div 2)
  <2>1. i \in Nat /\ i \in 1..n /\ i \in UpFrom(i)
    BY <1>6, PathStep
  <2>2. i \div 2 \in UpFrom(i) /\ i \div 2 \in 1..(i - 1)
    BY <1>10, <2>1, PathAbove
  <2>3. UpFrom(i \div 2) \subseteq UpFrom(i)
    BY <2>1, <2>2, PathPart
  <2>4. i \div 2 \in 1..n
    BY <1>1, <2>1, <2>2, SMT
  <2> QED BY <1>7, <1>10, <2>1, <2>2, <2>3, <2>4
\* Those that were met are one path.
<1>11. \A j, i \in met : i < j => i \in UpFrom(j)
  <2> DEFINE Good(j) == \A i \in met : i < j => i \in UpFrom(j)
             bad     == {j \in met : ~Good(j)}
  <2> SUFFICES ASSUME bad # {} PROVE FALSE
    OBVIOUS
  <2>1. PICK j \in bad : \A k \in bad : j <= k
    <3>1. bad \subseteq Nat
      BY <1>6
    <3> HIDE DEF bad
    <3> QED BY <3>1, LeastNumber
  <2>2. j \in met /\ ~Good(j)
    OBVIOUS
  <2>3. PICK i \in met : i < j /\ i \notin UpFrom(j)
    BY <2>2
  <2>4. i \in Nat /\ j \in Nat /\ i # 0 /\ j # 0 /\ j # 1
    BY <1>6, <2>2, <2>3, SMT
  <2> DEFINE p == j \div 2
  <2>5. p \in met /\ p \in 1..(j - 1) /\ j = lower(p)
    BY <1>10, <2>2, <2>4
  <2>6. UpFrom(j) = {j} \cup UpFrom(p)
    BY <2>4, PathStep
  <2> HIDE DEF p
  <2>7. p \in Nat /\ p # 0 /\ ~(j <= p) /\ ~(j <= i)
    BY <2>3, <2>4, <2>5, SMT
  <2> HIDE DEF Good
  <2>8. Good(p) /\ Good(i)
    BY <2>1, <2>5, <2>7
  <2>9. i # p
    <3>1. p \in UpFrom(p)
      BY <2>7, PathStep
    <3> QED BY <2>3, <2>6, <3>1
  <2>10. ~(i < p)
    BY <2>3, <2>6, <2>8 DEF Good
  <2>11. p < i
    BY <2>4, <2>7, <2>9, <2>10, SMT
  <2>12. p \in UpFrom(i) /\ p # i
    BY <2>5, <2>8, <2>9, <2>11 DEF Good
  <2>13. PICK c \in UpFrom(i) : c \div 2 = p /\ c # 1 /\ c \in 1..i
    BY <2>4, <2>12, PathBelow
  <2>14. c = lower(p)
    BY <1>6, <1>7, <2>13
  <2>15. c # j
    BY <2>3, <2>4, <2>13, SMT
  <2> QED BY <2>5, <2>14, <2>15
<1>12. ASSUME NEW i \in met, NEW j \in met, i < j PROVE sinks(i)
  <2>1. i \in UpFrom(j) /\ i # j /\ j \in Nat /\ j \in 1..n
    BY <1>6, <1>11, <1>12
  <2>2. PICK c \in UpFrom(j) : c \div 2 = i /\ c # 1
    BY <2>1, PathBelow
  <2> QED BY <1>7, <2>1, <2>2
<1>13. ASSUME NEW i \in met, NEW j \in met, ~sinks(i), ~sinks(j) PROVE i = j
  <2>1. i \in Nat /\ j \in Nat /\ ~(i < j) /\ ~(j < i)
    BY <1>6, <1>12, <1>13
  <2> QED BY <2>1, SMT
<1>14. from \in [1..n -> 1..n]
  <2>1. ASSUME NEW i \in 1..n PROVE place(i) \in 1..n
    <3>1. 1 \in 1..n
      BY <1>1, SMT
    <3> QED BY <1>3, <3>1
  <2> HIDE DEF place
  <2> QED BY <2>1
<1>15. ASSUME NEW i \in 1..n, NEW j \in 1..n, i # j
       PROVE  place(i) # place(j)
  <2>1. 1 \in met
    <3>1. 1 \in 1..n
      BY <1>1, SMT
    <3> QED BY <1>8, <3>1
  <2>2. \A k \in met : sinks(k) => lower(k) \in met /\ lower(k) # 1 /\ lower(k) \div 2 = k
    <3>1. ASSUME NEW k \in met, sinks(k) PROVE lower(k) # 1 /\ lower(k) \div 2 = k
      BY <1>3, <1>6, <3>1, SMT
    <3> QED BY <1>9, <3>1
  <2> QED BY <1>13, <1>15, <2>1, <2>2
<1>16. /\ \A i \in 1..n : g[i] = h[from[i]]
       /\ \A i, j \in 1..n : i # j => from[i] # from[j]
  <2> HIDE DEF place, g
  <2> QED BY <1>2, <1>15
<1>17. DOMAIN g = 1..n
  BY <1>2
<1>18. ASSUME Ordered(w, h, 2), NEW i \in 1..n, i \div 2 >= 1
       PROVE  w[g[i \div 2]] <= w[g[i]]
  <2> DEFINE p == i \div 2
             x == w[h[1]]
  <2>1. i \in 2..n /\ p \in 1..(i - 1) /\ p \in 1..n /\ (i = 2 * p \/ i = 2 * p + 1) /\ 1 \in 1..n
    <3>1. n \in Nat /\ i \in 1..n /\ i \div 2 >= 1
      BY <1>1, <1>18
    <3> HIDE DEF n
    <3> QED BY <3>1, SMT
  <2>2. /\ g[i] = (IF i \notin met THEN h[i] ELSE IF sinks(i) THEN h[lower(i)] ELSE h[1])
        /\ g[p] = (IF p \notin met THEN h[p] ELSE IF sinks(p) THEN h[lower(p)] ELSE h[1])
    BY <1>2, <2>1
  <2>3. /\ w[h[lower(p)]] <= w[h[i]]
        /\ sinks(p) => w[h[lower(p)]] <= w[h[1]]
        /\ ~sinks(p) => w[h[1]] <= w[h[i]]
    BY <1>5, <2>1
  <2> HIDE DEF g, place, from, met, n
  <2>4. CASE p \in met /\ i \in met
    <3>1. i = lower(p) /\ sinks(p)
      <4>1. i = lower(p)
        BY <1>10, <2>1, <2>4
      <4>2. p < i /\ p \in Nat /\ i \in Nat
        BY <2>1, SMT
      <4> QED BY <1>12, <2>4, <4>1, <4>2
    <3>2. CASE sinks(i)
      <4>1. lower(i) \in 1..n /\ lower(i) \div 2 = i /\ i >= 2
        BY <1>3, <2>1, <3>2
      <4>2. w[h[i]] <= w[h[lower(i)]]
        BY <1>1, <1>18, <4>1 DEF Ordered, InOrder
      <4> QED BY <2>2, <2>4, <3>1, <3>2, <4>2 DEF p
    <3>3. CASE ~sinks(i)
      BY <2>2, <2>3, <2>4, <3>1, <3>3 DEF p
    <3> QED BY <3>2, <3>3
  <2>5. CASE p \in met /\ i \notin met
    BY <2>2, <2>3, <2>5 DEF p
  <2>6. CASE p \notin met
    <3>1. i \notin met
      <4>1. i # 1
        BY <2>1, SMT
      <4> QED BY <1>10, <2>6, <4>1 DEF p
    <3>2. p >= 2
      <4>1. p # 1
        BY <1>8, <2>1, <2>6
      <4> QED BY <2>1, <4>1, SMT
    <3>3. w[h[p]] <= w[h[i]]
      BY <1>1, <1>18, <3>2 DEF Ordered, InOrder, p
    <3> QED BY <2>2, <2>6, <3>1, <3>3 DEF p
  <2> QED BY <2>4, <2>5, <2>6
<1>19. Ordered(w, h, 2) => Ordered(w, g, 1)
  <2> HIDE DEF g
  <2> QED BY <1>17, <1>18 DEF Ordered, InOrder
<1> HIDE DEF g, from, n, place, met
<1>20. Distinct(g) /\ Entries(g) = Entries(h)
  BY <1>1, <1>14, <1>16, <1>17, Rearranged, SMTT(30)
<1> QED BY <1>20, <1>19 DEF g

\* The root of a heap that is in order is as light as all entries.
LEMMA RootIsLightest ==
    ASSUME NEW D, NEW w, Weighed(w, D), NEW h \in Seq(D), Ordered(w, h, 1)
    PROVE  \A x \in Entries(h) : w[h[1]] <= w[x]
<1> DEFINE bad == {i \in DOMAIN h : ~(w[h[1]] <= w[h[i]])}
<1> SUFFICES ASSUME bad # {} PROVE FALSE
  BY DEF Entries
<1>1. Len(h) \in Nat /\ DOMAIN h = 1..Len(h) /\ \A i \in DOMAIN h : w[h[i]] \in Int
  BY DEF Weighed
<1>2. bad \subseteq Nat
  BY <1>1
<1>3. PICK i \in bad : \A j \in bad : i <= j
  <2> HIDE DEF bad
  <2> QED BY <1>2, LeastNumber
<1>4. i \in DOMAIN h /\ ~(w[h[1]] <= w[h[i]])
  OBVIOUS
<1>5. i \in 1..Len(h) /\ i # 1
  BY <1>1, <1>4, SMT
<1>6. i \div 2 \in 1..Len(h) /\ ~(i <= i \div 2) /\ i \div 2 >= 1
  BY <1>1, <1>5, SMT
<1>7. w[h[1]] <= w[h[i \div 2]]
  BY <1>1, <1>3, <1>6
<1>8. w[h[i \div 2]] <= w[h[i]]
  BY <1>4, <1>6 DEF Ordered, InOrder
<1>9. w[h[1]] \in Int /\ w[h[i]] \in Int /\ w[h[i \div 2]] \in Int
  BY <1>1, <1>5, <1>6, SMT
<1> QED BY <1>4, <1>7, <1>8, <1>9

\* heap_insert adds the node to the entries.
LEMMA InsertedEntries ==
    ASSUME NEW D, NEW w, Weighed(w, D), NEW h \in Seq(D), NEW node \in D,
           Distinct(h), node \notin Entries(h)
    PROVE  /\ Distinct(Inserted(w, h, node))
           /\ Entries(Inserted(w, h, node)) = Entries(h) \cup {node}
           /\ Ordered(w, h, 1) => Ordered(w, Inserted(w, h, node), 1)
<1> DEFINE a == Append(h, node)
           n == Len(h)
<1>1. /\ a \in Seq(D) /\ n \in Nat /\ Len(a) = n + 1 /\ DOMAIN a = 1..(n + 1) /\ DOMAIN h = 1..n
      /\ a[n + 1] = node /\ \A i \in 1..n : a[i] = h[i]
  OBVIOUS
<1>2. n + 1 \in 1..(n + 1) /\ \A i \in 1..(n + 1) : i = n + 1 \/ i \in 1..n
  BY <1>1, SMT
<1>3. \A i \in 1..n : i \in 1..(n + 1) /\ i # n + 1
  BY <1>1, SMT
<1> HIDE DEF a, n
<1>4. Distinct(a)
  BY <1>1, <1>2, <1>3 DEF Distinct, Entries
<1>5. Entries(a) = Entries(h) \cup {node}
  BY <1>1, <1>2, <1>3 DEF Entries
<1>6. Inserted(w, h, node) = SiftUp(w, a, n + 1) /\ n + 1 \in 1..Len(a)
  BY <1>1, <1>2 DEF Inserted, a, n
<1>7. /\ Distinct(SiftUp(w, a, n + 1))
      /\ Entries(SiftUp(w, a, n + 1)) = Entries(a)
      /\ n + 1 = Len(a) /\ (\A i \in 2..(Len(a) - 1) : InOrder(w, a, i)) =>
            Ordered(w, SiftUp(w, a, n + 1), 1)
  <2> DEFINE child == n + 1
  <2>1. child \in 1..Len(a)
    BY <1>6
  <2> HIDE DEF child
  <2>2. /\ Distinct(SiftUp(w, a, child))
        /\ Entries(SiftUp(w, a, child)) = Entries(a)
        /\ child = Len(a) /\ (\A i \in 2..(Len(a) - 1) : InOrder(w, a, i)) =>
              Ordered(w, SiftUp(w, a, child), 1)
    BY <1>1, <1>4, <2>1, SiftUpRearranges
  <2> QED BY <2>2 DEF child
<1>8. ASSUME Ordered(w, h, 1), NEW i \in 2..(Len(a) - 1) PROVE InOrder(w, a, i)
  <2>1. i \in 1..n /\ i \div 2 \in 1..n /\ i \div 2 >= 1
    BY <1>1, SMT
  <2>2. InOrder(w, h, i)
    BY <1>1, <1>8, <2>1 DEF Ordered
  <2> QED BY <1>1, <2>1, <2>2 DEF InOrder
<1> QED BY <1>1, <1>5, <1>6, <1>7, <1>8

\* heap_remove takes away the root and nothing else.
LEMMA RemovedEntries ==
    ASSUME NEW D, NEW w, Weighed(w, D), NEW h \in Seq(D), Len(h) > 0, Distinct(h)
    PROVE  /\ Distinct(Removed(w, h))
           /\ Entries(Removed(w, h)) = Entries(h) \ {h[1]}
           /\ Ordered(w, h, 1) => Ordered(w, Removed(w, h), 1)
<1> DEFINE n == Len(h)
           rest == [i \in 1..(n - 1) |-> IF i = 1 THEN Last(h) ELSE h[i]]
           place(i) == IF i = 1 THEN n ELSE i
<1>1. n \in Nat /\ n > 0 /\ DOMAIN h = 1..n /\ \A i \in 1..n : h[i] \in D
  OBVIOUS
<1>2. \A i \in 1..(n - 1) : rest[i] = h[place(i)]
  BY DEF Last
<1>3. /\ n - 1 \in Nat /\ 1 \in 1..n /\ n \in 1..n
      /\ \A i \in 1..(n - 1) : place(i) \in 1..n /\ place(i) # 1
      /\ \A i, j \in 1..(n - 1) : i # j => place(i) # place(j)
      /\ \A j \in 1..n : j # 1 => \E i \in 1..(n - 1) : place(i) = j
  <2>1. \A j \in 1..n : j # 1 => \E i \in 1..(n - 1) : place(i) = j
    <3> SUFFICES ASSUME NEW j \in 1..n, j # 1 PROVE \E i \in 1..(n - 1) : place(i) = j
      OBVIOUS
    <3>1. CASE j = n
      <4>1. 1 \in 1..(n - 1) /\ place(1) = j
        BY <1>1, <3>1, SMT
      <4> QED BY <4>1
    <3>2. CASE j # n
      <4>1. j \in 1..(n - 1)
        <5>1. n \in Nat /\ j \in 1..n /\ j # n
          BY <1>1, <3>2, Zenon
        <5> HIDE DEF n
        <5> QED BY <5>1, SMTT(30)
      <4>2. place(j) = j
        OBVIOUS
      <4> QED BY <4>1, <4>2
    <3> QED BY <3>1, <3>2
  <2>2. ASSUME NEW i \in 1..(n - 1) PROVE place(i) \in 1..n /\ place(i) # 1
    BY <1>1, SMT
  <2>3. ASSUME NEW i \in 1..(n - 1), NEW j \in 1..(n - 1), i # j PROVE place(i) # place(j)
    BY <1>1, <2>3, SMT
  <2>4. n - 1 \in Nat /\ 1 \in 1..n /\ n \in 1..n
    BY <1>1, SMT
  <2> HIDE DEF place
  <2> QED BY <2>1, <2>2, <2>3, <2>4
<1> HIDE DEF place
<1>4. rest \in Seq(D) /\ DOMAIN rest = 1..(n - 1)
  <2>1. \A i \in 1..(n - 1) : rest[i] \in D
    BY <1>1, <1>2, <1>3
  <2>2. rest = [i \in 1..(n - 1) |-> rest[i]]
    OBVIOUS
  <2> HIDE DEF rest
  <2>3. rest \in [1..(n - 1) -> D] /\ DOMAIN rest = 1..(n - 1)
    BY <2>1, <2>2
  <2>4. n - 1 \in Nat
    BY <1>3
  <2> HIDE DEF n
  <2> QED BY <2>3, <2>4
<1> HIDE DEF rest, n
<1>5. Distinct(rest)
  BY <1>1, <1>2, <1>3, <1>4 DEF Distinct
<1>6. ASSUME NEW x PROVE x \in Entries(rest) <=> x \in Entries(h) /\ x # h[1]
  <2>1. ASSUME x \in Entries(rest) PROVE x \in Entries(h) /\ x # h[1]
    <3>1. PICK i \in 1..(n - 1) : x = h[place(i)]
      BY <1>2, <1>4, <2>1 DEF Entries
    <3> QED BY <1>1, <1>3, <3>1 DEF Entries, Distinct
  <2>2. ASSUME x \in Entries(h), x # h[1] PROVE x \in Entries(rest)
    <3>1. PICK j \in 1..n : x = h[j]
      BY <1>1, <2>2 DEF Entries
    <3>2. PICK i \in 1..(n - 1) : place(i) = j
      BY <1>3, <2>2, <3>1
    <3> QED BY <1>2, <1>4, <3>1, <3>2 DEF Entries
  <2> QED BY <2>1, <2>2
<1>7. Removed(w, h) = SiftDown(w, rest)
  BY DEF Removed, rest, n
<1>8. /\ Distinct(SiftDown(w, rest)) /\ Entries(SiftDown(w, rest)) = Entries(rest)
      /\ Ordered(w, rest, 2) => Ordered(w, SiftDown(w, rest), 1)
  BY <1>4, <1>5, SiftDownRearranges
<1>9. ASSUME Ordered(w, h, 1) PROVE Ordered(w, rest, 2)
  <2> SUFFICES ASSUME NEW i \in 1..(n - 1), i \div 2 >= 2 PROVE w[rest[i \div 2]] <= w[rest[i]]
    BY <1>4 DEF Ordered, InOrder
  <2>1. i \div 2 \in 1..(n - 1) /\ i # 1 /\ i \div 2 # 1 /\ i \in 1..n /\ i \div 2 >= 1
    BY <1>1, SMT
  <2>2. rest[i] = h[i] /\ rest[i \div 2] = h[i \div 2]
    BY <1>2, <2>1 DEF place
  <2> QED BY <1>1, <1>9, <2>1, <2>2 DEF Ordered, InOrder
<1> QED BY <1>6, <1>7, <1>8, <1>9

-----------------------------------------------------------------------------
(* The nodes are a forest of binary trees, and the heap holds its roots.   *)

AreChildren(a, b, x) == a # b /\ \A n \in Nodes : (parent[n] = x) <=> n \in {a, b}

\* What calculate_lengths_from_counts has when the leaves and then the trees
\* are put together: only leaves that do not occur, or that the loop has not
\* come to, are left out.
ForestInv ==
    stage \in {"leaves", "combine"} =>
        /\ Distinct(heap) /\ Ordered(weight, heap, 1)
        /\ \A n \in Entries(heap) : parent[n] = NoNode
        /\ stage = "leaves" =>
              /\ Nodes = Symbols /\ \A n \in Nodes : parent[n] = NoNode
              /\ \A n \in Entries(heap) : n < at
        /\ \A n \in Nodes :
              \/ parent[n] # NoNode
              \/ n \in Entries(heap)
              \/ (n \in Symbols /\ weight[n] = 0)
              \/ (stage = "leaves" /\ n >= at)
        /\ \A x \in Nodes \ Symbols : \E a, b \in Nodes : AreChildren(a, b, x)

\* Two roots of least weight get a parent, which takes their place in the heap.
LEMMA CombineDoes ==
    ASSUME TreeInv, Combine, Distinct(heap), Ordered(weight, heap, 1)
    PROVE  \E m \in Nat, a, b \in Entries(heap) :
              /\ m >= CodeCount /\ Upward(m) /\ a # b /\ Entries(heap) \subseteq 0..(m - 1)
              /\ DOMAIN weight' = 0..m /\ DOMAIN parent' = 0..m
              /\ \A n \in 0..(m - 1) : weight'[n] = weight[n]
              /\ parent' = [n \in 0..m |-> CASE n = m -> NoNode
                                             [] n \in {a, b} -> m
                                             [] OTHER -> parent[n]]
              /\ Distinct(heap') /\ Entries(heap') = (Entries(heap) \ {a, b}) \cup {m}
              /\ Ordered(weight', heap', 1)
              /\ \A n \in Entries(heap) \ {a, b} : weight[a] <= weight[n] /\ weight[b] <= weight[n]
<1> DEFINE a        == heap[1]
           without  == Removed(weight, heap)
           b        == without[1]
           combined == Cardinality(DOMAIN weight)
           sum == (weight[a] + weight[b]) % WeightLimit
           w == [n \in 0..combined |-> IF n = combined THEN sum ELSE weight[n]]
           p == [n \in 0..combined |-> CASE n = combined -> NoNode
                                         [] n \in {a, b} -> combined
                                         [] OTHER -> parent[n]]
           rest == Removed(weight, without)
<1>1. /\ weight' = w /\ parent' = p /\ heap' = Inserted(w, rest, combined)
      /\ Len(heap) > 1
  BY DEF Combine
<1>2. PICK m \in Nat : /\ m >= CodeCount /\ Upward(m)
                       /\ weight \in [0..(m - 1) -> 0..(WeightLimit - 1)]
                       /\ heap \in Seq(0..(m - 1))
  BY DEF TreeInv, Combine
<1>3. combined = m
  <2>1. 0 \in Int /\ m - 1 \in Int /\ m - 1 - 0 + 1 = m /\ CodeCount \in Nat /\ CodeCount > 0
    BY SymbolFacts
  <2>2. 0 <= m - 1
    BY <1>2, <2>1
  <2>3. Cardinality(0..(m - 1)) = IF 0 > m - 1 THEN 0 ELSE m - 1 - 0 + 1
    BY <2>1, FS_Interval
  <2>4. DOMAIN weight = 0..(m - 1)
    BY <1>2
  <2> QED BY <2>1, <2>2, <2>3, <2>4
<1>4. /\ Len(heap) \in Nat /\ Len(heap) > 0 /\ Len(heap) - 1 > 0
      /\ 1 \in DOMAIN heap /\ a \in Entries(heap) /\ Entries(heap) \subseteq 0..(m - 1)
  BY <1>1, <1>2, LenProperties DEF Entries
<1>5. without \in Seq(0..(m - 1)) /\ Len(without) > 0
  BY <1>2, <1>4, RemovedKeeps
<1>6. 1 \in DOMAIN without /\ b \in 0..(m - 1)
  BY <1>5, LenProperties
<1> HIDE DEF a, b, combined, without
<1> DEFINE D == 0..(m - 1)
           E == 0..m
<1>7. /\ Weighed(weight, D) /\ Weighed(w, E) /\ Weighed(w, D)
      /\ \A n \in D : w[n] = weight[n] /\ n \in E
  <2>1. \A n \in D : n \in E /\ n # m /\ weight[n] \in 0..(WeightLimit - 1)
    BY <1>2, SMT
  <2>2. \A n \in D : weight[n] \in Int
    BY <2>1
  <2>3. sum \in Int
    <3>1. WeightLimit \in Nat \ {0} /\ weight[a] \in Int /\ weight[b] \in Int
      BY <1>2, <1>4, <1>6, HuffmanAssumption DEF HuffmanAssumption
    <3> QED BY <3>1
  <2>4. w = [n \in E |-> IF n = m THEN sum ELSE weight[n]]
    BY <1>3
  <2>5. \A n \in E : n = m \/ n \in D
    BY SMT
  <2> HIDE DEF w, sum, D, E
  <2> QED BY <2>1, <2>2, <2>3, <2>4, <2>5 DEF Weighed
<1> HIDE DEF D, E
<1>8. /\ Distinct(without) /\ Entries(without) = Entries(heap) \ {a}
      /\ Ordered(weight, without, 1)
  <2>1. heap \in Seq(D)
    BY <1>2 DEF D
  <2> QED BY <1>4, <1>7, <2>1, RemovedEntries DEF without, a
<1>9. /\ \A x \in Entries(heap) : weight[a] <= weight[x]
      /\ \A x \in Entries(without) : weight[b] <= weight[x]
  <2>1. heap \in Seq(D) /\ without \in Seq(D)
    BY <1>2, <1>5 DEF D
  <2> QED BY <1>8, <1>7, <2>1, RootIsLightest DEF a, b
<1>10. b \in Entries(without)
  BY <1>6 DEF Entries, b
<1>11. rest \in Seq(0..(m - 1))
  BY <1>5, RemovedKeeps
<1>12. /\ Distinct(rest) /\ Entries(rest) = Entries(without) \ {b}
       /\ Ordered(weight, rest, 1)
  <2>1. without \in Seq(D)
    BY <1>5 DEF D
  <2> QED BY <1>5, <1>8, <1>7, <2>1, RemovedEntries DEF b, rest
<1> HIDE DEF rest, w
\* The weights of the nodes there were stay.
<1>13. Ordered(w, rest, 1)
  <2>1. \A i \in DOMAIN rest : rest[i] \in D /\ (i \div 2 >= 1 => i \div 2 \in DOMAIN rest)
    <3>1. \A i \in 1..Len(rest) : i \div 2 >= 1 => i \div 2 \in 1..Len(rest)
      BY <1>11, LenProperties, SMT
    <3> QED BY <1>11, <3>1, LenProperties DEF D
  <2> QED BY <1>12, <1>7, <2>1 DEF Ordered, InOrder
<1>14. rest \in Seq(0..m) /\ m \in 0..m /\ m \notin Entries(rest)
  <2>1. m \in 0..m /\ m \notin 0..(m - 1) /\ \A n \in 0..(m - 1) : n \in 0..m
    BY SMT
  <2>2. rest \in Seq(0..m)
    BY <1>11, <2>1, LenProperties
  <2> QED BY <1>4, <1>8, <1>12, <2>1, <2>2
<1>15. /\ Distinct(heap') /\ Entries(heap') = Entries(rest) \cup {m}
       /\ Ordered(weight', heap', 1)
  <2>1. rest \in Seq(E) /\ m \in E /\ Distinct(rest) /\ m \notin Entries(rest)
    BY <1>12, <1>14 DEF E
  <2>2. /\ Distinct(Inserted(w, rest, m))
        /\ Entries(Inserted(w, rest, m)) = Entries(rest) \cup {m}
        /\ Ordered(w, Inserted(w, rest, m), 1)
    BY <1>7, <1>13, <2>1, InsertedEntries
  <2> QED BY <1>1, <1>3, <2>2
<1>16. Entries(heap') = (Entries(heap) \ {a, b}) \cup {m}
  BY <1>8, <1>12, <1>15
<1>17. DOMAIN weight' = 0..m /\ \A n \in 0..(m - 1) : weight'[n] = weight[n]
  <2>1. \A n \in 0..(m - 1) : n \in 0..m /\ n # m
    BY SMT
  <2> QED BY <1>1, <1>3, <2>1 DEF w
<1>18. parent' = [n \in 0..m |-> CASE n = m -> NoNode
                                   [] n \in {a, b} -> m
                                   [] OTHER -> parent[n]]
  BY <1>1, <1>3
<1>19. DOMAIN parent' = 0..m
  BY <1>18
<1>20. b \in Entries(heap) /\ a # b
  BY <1>8, <1>10
<1>21. \A n \in Entries(heap) \ {a, b} : weight[a] <= weight[n] /\ weight[b] <= weight[n]
  BY <1>8, <1>9
<1> HIDE DEF p
<1> QED BY <1>2, <1>4, <1>21, <1>15, <1>16, <1>17, <1>18, <1>19, <1>20

LEMMA CombineKeepsForest ==
    ASSUME TreeInv, ForestInv, Combine
    PROVE  ForestInv'
<1>1. stage = "combine" /\ stage' = "combine"
  BY DEF Combine
<1>2. /\ Distinct(heap) /\ Ordered(weight, heap, 1) /\ \A n \in Entries(heap) : parent[n] = NoNode
      /\ \A n \in Nodes : parent[n] # NoNode \/ n \in Entries(heap) \/ (n \in Symbols /\ weight[n] = 0)
      /\ \A x \in Nodes \ Symbols : \E a, b \in Nodes : AreChildren(a, b, x)
  BY <1>1 DEF ForestInv
<1>3. PICK m \in Nat, a \in Entries(heap), b \in Entries(heap) :
        /\ m >= CodeCount /\ Upward(m) /\ a # b /\ Entries(heap) \subseteq 0..(m - 1)
        /\ DOMAIN weight' = 0..m /\ DOMAIN parent' = 0..m
        /\ \A n \in 0..(m - 1) : weight'[n] = weight[n]
        /\ parent' = [n \in 0..m |-> CASE n = m -> NoNode
                                       [] n \in {a, b} -> m
                                       [] OTHER -> parent[n]]
        /\ Distinct(heap') /\ Entries(heap') = (Entries(heap) \ {a, b}) \cup {m}
        /\ Ordered(weight', heap', 1)
  BY <1>2, CombineDoes
<1>4. /\ Nodes = 0..(m - 1) /\ Nodes' = Nodes \cup {m} /\ m \notin Nodes /\ NoNode # m
      /\ \A n \in Nodes : parent[n] # m
      /\ a \in Nodes /\ b \in Nodes
  <2>1. Nodes = 0..(m - 1) /\ Nodes' = 0..m
    BY <1>3 DEF Upward, Nodes
  <2>2. 0..m = 0..(m - 1) \cup {m} /\ m \notin 0..(m - 1)
    BY SMT
  <2>3. NoNode # m /\ \A n \in 0..(m - 1) : m \notin (n + 1)..(m - 1)
    BY SMT DEF NoNode
  <2>4. \A n \in 0..(m - 1) : parent[n] # m
    BY <1>3, <2>3 DEF Upward
  <2> QED BY <1>3, <2>1, <2>2, <2>3, <2>4
<1>5. /\ parent'[m] = NoNode /\ parent'[a] = m /\ parent'[b] = m
      /\ \A n \in Nodes : n \notin {a, b} => parent'[n] = parent[n]
  <2>1. \A n \in Nodes : n \in 0..m /\ n # m
    BY <1>4, SMT
  <2>2. m \in 0..m
    BY SMT
  <2> QED BY <1>3, <1>4, <2>1, <2>2
<1>6. parent[a] = NoNode /\ parent[b] = NoNode
  BY <1>2
<1>7. \A n \in Entries(heap') : parent'[n] = NoNode
  BY <1>2, <1>3, <1>4, <1>5
<1>8. ASSUME NEW n \in Nodes'
      PROVE  parent'[n] # NoNode \/ n \in Entries(heap') \/ (n \in Symbols /\ weight'[n] = 0)
  <2>1. CASE n = m
    BY <1>3, <2>1
  <2>2. CASE n \in {a, b}
    BY <1>4, <1>5, <2>2
  <2>3. CASE n \in Nodes /\ n \notin {a, b}
    <3>1. weight'[n] = weight[n] /\ parent'[n] = parent[n]
      BY <1>3, <1>4, <1>5, <2>3
    <3> QED BY <1>2, <1>3, <2>3, <3>1
  <2> QED BY <1>4, <2>1, <2>2, <2>3
<1>9. ASSUME NEW x \in Nodes' \ Symbols
      PROVE  \E c, d \in Nodes' : AreChildren(c, d, x)'
  <2>1. CASE x = m
    <3>1. \A n \in Nodes' : (parent'[n] = m) <=> n \in {a, b}
      BY <1>4, <1>5
    <3> QED BY <1>3, <1>4, <2>1, <3>1 DEF AreChildren
  <2>2. CASE x # m
    <3>1. x \in Nodes /\ x \in Nodes \ Symbols
      BY <1>4, <2>2
    <3>2. PICK c \in Nodes, d \in Nodes : c # d /\ \A n \in Nodes : (parent[n] = x) <=> n \in {c, d}
      BY <1>2, <3>1 DEF AreChildren
    <3>3. x # NoNode
      BY <1>4, <3>1, SMT DEF NoNode
    <3>4. c \notin {a, b} /\ d \notin {a, b} /\ c # m /\ d # m
      BY <1>4, <1>6, <3>2, <3>3
    <3>5. \A n \in Nodes' : (parent'[n] = x) <=> n \in {c, d}
      <4> SUFFICES ASSUME NEW n \in Nodes' PROVE (parent'[n] = x) <=> n \in {c, d}
        OBVIOUS
      <4>1. CASE n = m
        BY <1>5, <3>3, <3>4, <4>1
      <4>2. CASE n \in {a, b}
        BY <1>5, <2>2, <3>4, <4>2
      <4>3. CASE n \in Nodes /\ n \notin {a, b}
        BY <1>5, <3>2, <4>3
      <4> QED BY <1>4, <4>1, <4>2, <4>3
    <3> QED BY <1>4, <3>2, <3>5 DEF AreChildren
  <2> QED BY <2>1, <2>2
<1> QED BY <1>1, <1>3, <1>7, <1>8, <1>9 DEF ForestInv

LEMMA LeafKeepsForest ==
    ASSUME LoopInv, TreeInv, ForestInv, InsertLeaf
    PROVE  ForestInv'
<1>1. /\ stage = "leaves" /\ UNCHANGED <<weight, parent>>
      /\ heap' = IF weight[at] > 0 THEN Inserted(weight, heap, at) ELSE heap
      /\ \/ at = CodeCount - 1 /\ stage' = "combine"
         \/ at # CodeCount - 1 /\ stage' = "leaves" /\ at' = at + 1
  BY DEF InsertLeaf
<1>2. /\ Distinct(heap) /\ Ordered(weight, heap, 1) /\ Nodes = Symbols /\ (\A n \in Nodes : parent[n] = NoNode)
      /\ \A n \in Entries(heap) : n < at
      /\ \A n \in Nodes : n \in Entries(heap) \/ weight[n] = 0 \/ n >= at
  BY <1>1 DEF ForestInv
<1>3. PICK m \in Nat : /\ Nodes = 0..(m - 1) /\ heap \in Seq(Nodes)
                       /\ weight \in [Nodes -> 0..(WeightLimit - 1)]
  BY <1>1 DEF TreeInv, Upward
<1>4. at \in Symbols /\ at \in Nat
  BY <1>1, SymbolFacts DEF LoopInv
<1>5. Entries(heap) \subseteq Nodes
  BY <1>3, LenProperties DEF Entries
<1>6. /\ Distinct(heap') /\ Ordered(weight', heap', 1)
      /\ Entries(heap') = IF weight[at] > 0 THEN Entries(heap) \cup {at} ELSE Entries(heap)
  <2>1. at \notin Entries(heap)
    BY <1>2, <1>4
  <2>2. CASE weight[at] > 0
    <3>1. heap' = Inserted(weight, heap, at)
      BY <1>1, <2>2
    <3> DEFINE D == Nodes
    <3>2. heap \in Seq(D) /\ at \in D /\ Distinct(heap) /\ Weighed(weight, D)
      BY <1>2, <1>3, <1>4 DEF Weighed
    <3> HIDE DEF D
    <3>3. /\ Distinct(Inserted(weight, heap, at))
          /\ Entries(Inserted(weight, heap, at)) = Entries(heap) \cup {at}
          /\ Ordered(weight, Inserted(weight, heap, at), 1)
      BY <1>2, <2>1, <3>2, InsertedEntries
    <3> QED BY <1>1, <2>2, <3>1, <3>3
  <2>3. CASE ~(weight[at] > 0)
    BY <1>1, <1>2, <2>3
  <2> QED BY <2>2, <2>3
<1>7. weight[at] \in Nat /\ Nodes' = Nodes
  BY <1>1, <1>2, <1>3, <1>4 DEF Nodes
<1>8. \A n \in Entries(heap') : n \in Nodes /\ n < at + 1
  BY <1>2, <1>4, <1>5, <1>6, <1>7, SymbolFacts
<1>9. ASSUME NEW n \in Nodes PROVE n \in Entries(heap') \/ weight[n] = 0 \/ n >= at + 1
  <2>1. n \in Nat
    BY <1>3
  <2>2. CASE n = at
    BY <1>6, <1>7, <2>2
  <2>3. CASE n # at
    <3>1. n >= at => n >= at + 1
      BY <1>4, <2>1, <2>3
    <3> QED BY <1>2, <1>6, <3>1
  <2> QED BY <2>2, <2>3
<1>10. at = CodeCount - 1 => \A n \in Nodes : ~(n >= at + 1)
  BY <1>2, SymbolFacts
<1>11. Nodes \ Symbols = {}
  BY <1>2
<1> QED BY <1>1, <1>2, <1>6, <1>7, <1>8, <1>9, <1>10, <1>11 DEF ForestInv

LEMMA ForestNext ==
    ASSUME LoopInv, TreeInv, ForestInv, Next
    PROVE  ForestInv'
<1>1. CASE DeflateInit \/ CreateAlphabet
  <2>1. PICK counts : StartTree(counts)
    BY <1>1 DEF DeflateInit, CreateAlphabet
  <2>2. at' = 0
    BY <1>1 DEF DeflateInit, CreateAlphabet, LoopInv, balance
  <2>3. stage' = "leaves" /\ heap' = << >> /\ parent' = [s \in Symbols |-> NoNode]
    BY <2>1 DEF StartTree
  <2>4. Entries(heap') = {} /\ Distinct(heap') /\ Ordered(weight', heap', 1)
    BY <2>3 DEF Entries, Distinct, Ordered
  <2>5. Nodes' = Symbols /\ \A n \in Nodes' : parent'[n] = NoNode /\ n >= at'
    BY <2>2, <2>3, SymbolFacts DEF Nodes
  <2> QED BY <2>3, <2>4, <2>5 DEF ForestInv
<1>2. CASE InsertLeaf
  BY <1>2, LeafKeepsForest
<1>3. CASE Combine
  BY <1>3, CombineKeepsForest
<1>4. CASE MeasureLengths \/ Balance \/ AssignBitstrings \/ DescribeLengths \/ DescribeDistances
  BY <1>4 DEF MeasureLengths, Balance, AssignBitstrings, DescribeLengths, DescribeDistances, ForestInv
<1>5. CASE StartBlock \/ WriteCode \/ DeflateCompress \/ CompressReturn \/ EndBlock
  BY <1>5 DEF StartBlock, WriteCode, DeflateCompress, CompressReturn, EndBlock, ForestInv
<1>6. CASE CompressRepeat \/ CompressCached \/ CompressWord
  BY <1>6 DEF CompressRepeat, CompressCached, CompressWord, Iterating, huffmanVars, ForestInv
<1> QED BY <1>1, <1>2, <1>3, <1>4, <1>5, <1>6 DEF Next, HuffmanStep

-----------------------------------------------------------------------------
(* Powers of 2, up to the longest code. *)

LEMMA PowersOfTwo ==
    ASSUME NEW n \in 0..15
    PROVE  2^n \in Positive /\ (n < 15 => 2^(n + 1) = 2 * 2^n)
<1> DEFINE p(k) == 2^k
<1>1. /\ p(0) = 1 /\ p(1) = 2 /\ p(2) = 4 /\ p(3) = 8 /\ p(4) = 16 /\ p(5) = 32
      /\ p(6) = 64 /\ p(7) = 128 /\ p(8) = 256
  BY SMT
<1>2. /\ p(9) = 512 /\ p(10) = 1024 /\ p(11) = 2048 /\ p(12) = 4096 /\ p(13) = 8192
      /\ p(14) = 16384 /\ p(15) = 32768
  BY SMT
<1> HIDE DEF p
<1>3. p(n) \in Positive /\ (n < 15 => p(n + 1) = 2 * p(n))
  BY <1>1, <1>2, SMT DEF Positive
<1> QED BY <1>3 DEF p

\* A sum of members that are all c, or 0 outside a set.
LEMMA SumOfSame ==
    ASSUME NEW n \in Nat, NEW T, T \subseteq 0..(n - 1), NEW c \in Int, NEW f,
           \A m \in 1..n : f[m] = IF m - 1 \in T THEN c ELSE 0
    PROVE  IsFiniteSet(T) /\ Cardinality(T) \in Nat /\ SumOf(f, n) = c * Cardinality(T)
<1> DEFINE U(k) == T \cap 0..(k - 1)
           S == {k \in 0..n : IsFiniteSet(U(k)) /\ SumOf(f, k) = c * Cardinality(U(k))}
<1>1. /\ SumOf(f, 0) = 0
      /\ \A k \in 0..n : SumOf(f, k) \in Int
      /\ \A k \in Nat : k < n => SumOf(f, k + 1) = SumOf(f, k) + f[k + 1]
  BY SumsAre
<1>2. 0 \in S
  <2>1. U(0) = {}
    BY SMT
  <2>2. IsFiniteSet({}) /\ Cardinality({}) = 0
    BY FS_EmptySet
  <2>3. c * 0 = 0 /\ 0 \in 0..n
    BY SMT
  <2> HIDE DEF U
  <2> QED BY <1>1, <2>1, <2>2, <2>3
<1>3. ASSUME NEW k \in Nat, k < n, k \in S PROVE k + 1 \in S
  <2>1. k \in 0..n /\ k + 1 \in 0..n /\ k + 1 \in 1..n /\ (k + 1) - 1 = k
    BY <1>3, SMT
  <2>2. /\ IsFiniteSet(U(k)) /\ Cardinality(U(k)) \in Nat
        /\ SumOf(f, k) = c * Cardinality(U(k))
    <3> HIDE DEF U
    <3> QED BY <1>3, FS_CardinalityType
  <2>3. SumOf(f, k + 1) = SumOf(f, k) + (IF k \in T THEN c ELSE 0)
    BY <1>1, <1>3, <2>1
  <2>4. CASE k \in T
    <3>1. U(k + 1) = U(k) \cup {k} /\ k \notin U(k)
      BY <2>4, SMT
    <3> HIDE DEF U
    <3>2. IsFiniteSet(U(k + 1)) /\ Cardinality(U(k + 1)) = Cardinality(U(k)) + 1
      BY <2>2, <3>1, FS_AddElement
    <3>3. c * (Cardinality(U(k)) + 1) = c * Cardinality(U(k)) + c
      BY <2>2, SMT
    <3> QED BY <2>1, <2>2, <2>3, <2>4, <3>2, <3>3
  <2>5. CASE k \notin T
    <3>1. U(k + 1) = U(k)
      BY <2>5, SMT
    <3>2. SumOf(f, k + 1) = SumOf(f, k)
      BY <1>1, <2>1, <2>3, <2>5, SMT
    <3> HIDE DEF U
    <3> QED BY <2>1, <2>2, <3>1, <3>2
  <2> QED BY <2>4, <2>5
<1>4. n \in S
  <2> HIDE DEF S
  <2>1. \A k \in 0..n : k \in S
    BY <1>2, <1>3, Inherited
  <2>2. n \in 0..n
    BY SMT
  <2> QED BY <2>1, <2>2
<1>5. U(n) = T
  OBVIOUS
<1> HIDE DEF U
<1> QED BY <1>4, <1>5, FS_CardinalityType

-----------------------------------------------------------------------------
(* The leaves of the tree share all codes of MaxBits bits. *)

\* The share of a node at depth d, of which there is none below MaxBits.
Portion(d) == IF d <= MaxBits THEN 2^(MaxBits - d) ELSE 0

LEMMA Portions ==
    ASSUME NEW d \in Nat
    PROVE  /\ Portion(d) \in Nat
           /\ Portion(d + 1) + Portion(d + 1) <= Portion(d)
           /\ Portion(0) = 2^MaxBits /\ 2^MaxBits \in Nat
<1>1. MaxBits \in Nat /\ MaxBits <= 15
  BY Sizes
<1>2. CASE d + 1 <= MaxBits
  <2>1. /\ MaxBits - (d + 1) \in 0..15 /\ MaxBits - (d + 1) < 15
        /\ (MaxBits - (d + 1)) + 1 = MaxBits - d /\ d <= MaxBits
    BY <1>1, <1>2, SMT
  <2>2. 2^(MaxBits - (d + 1)) \in Nat /\ 2^(MaxBits - d) = 2 * 2^(MaxBits - (d + 1))
    BY <2>1, PowersOfTwo DEF Positive
  <2> DEFINE p == 2^(MaxBits - (d + 1))
             q == 2^(MaxBits - d)
  <2>3. Portion(d + 1) = p /\ Portion(d) = q
    BY <1>2, <2>1 DEF Portion
  <2> HIDE DEF p, q
  <2>4. p \in Nat /\ q = 2 * p
    BY <2>2 DEF p, q
  <2>5. Portion(d) \in Nat /\ Portion(d + 1) + Portion(d + 1) <= Portion(d)
    BY <2>3, <2>4
  <2>6. MaxBits \in 0..15 /\ MaxBits - 0 = MaxBits /\ 0 <= MaxBits
    BY <1>1, SMT
  <2>7. 2^MaxBits \in Nat
    BY <2>6, PowersOfTwo DEF Positive
  <2>8. Portion(0) = 2^MaxBits
    BY <2>6 DEF Portion
  <2> QED BY <2>5, <2>7, <2>8
<1>3. CASE ~(d + 1 <= MaxBits)
  <2>1. Portion(d + 1) = 0
    BY <1>3 DEF Portion
  <2>2. MaxBits \in 0..15 /\ MaxBits - 0 = MaxBits /\ 0 <= MaxBits
        /\ (d <= MaxBits => MaxBits - d \in 0..15)
    BY <1>1, SMT
  <2>3. 2^MaxBits \in Nat /\ (d <= MaxBits => 2^(MaxBits - d) \in Nat)
    BY <2>2, PowersOfTwo DEF Positive
  <2>4. Portion(d) \in Nat
    BY <2>3 DEF Portion
  <2>5. Portion(0) = 2^MaxBits
    BY <2>2 DEF Portion
  <2> QED BY <2>1, <2>3, <2>4, <2>5
<1> QED BY <1>2, <1>3

\* Of the nodes before k, those whose parent is not: together with all
\* leaves above them they have all codes.
Frontier(k, m) ==
    [i \in 1..m |-> IF i - 1 < k /\ (parent[i - 1] >= k \/ i = m)
                    THEN Portion(Depth[i - 1]) ELSE 0]

\* One node has no parent, but for the leaves that do not occur.
LEMMA OnlyRoot ==
    ASSUME TreeInv, ForestInv, stage = "combine", Len(heap) <= 1,
           NEW m \in Nat, Upward(m), m > CodeCount, heap \in Seq(0..(m - 1))
    PROVE  /\ m - 1 \in Nodes /\ parent[m - 1] = NoNode
           /\ \A n \in Nodes : n # m - 1 /\ (n \notin Symbols \/ weight[n] # 0) =>
                  parent[n] \in (n + 1)..(m - 1)
<1>1. /\ CodeCount \in Nat /\ Symbols = 0..(CodeCount - 1) /\ Nodes = 0..(m - 1)
      /\ \A n \in 0..(m - 1) : parent[n] = NoNode \/ parent[n] \in (n + 1)..(m - 1)
  BY SymbolFacts DEF Upward
<1>2. \A n \in Nodes : parent[n] # NoNode \/ n \in Entries(heap) \/ (n \in Symbols /\ weight[n] = 0)
  BY DEF ForestInv
<1>3. m - 1 \in 0..(m - 1) /\ m - 1 \notin Symbols /\ ((m - 1) + 1)..(m - 1) = {}
  BY <1>1, SMT
<1>4. parent[m - 1] = NoNode
  BY <1>1, <1>3
<1>5. m - 1 \in Entries(heap)
  BY <1>1, <1>2, <1>3, <1>4
<1>6. \A n \in Entries(heap) : n = m - 1
  <2>1. Len(heap) \in Nat /\ DOMAIN heap = 1..Len(heap)
    BY LenProperties
  <2>2. \A i, j \in DOMAIN heap : i = j
    BY <2>1, SMT
  <2> QED BY <1>5, <2>2 DEF Entries
<1> QED BY <1>1, <1>2, <1>3, <1>4, <1>6

LEMMA FrontierShares ==
    ASSUME TreeInv, ForestInv, stage = "combine", Len(heap) <= 1,
           NEW m \in Nat, Upward(m), m > CodeCount, heap \in Seq(0..(m - 1)),
           NEW k \in CodeCount..m
    PROVE  SumOf(Frontier(k, m), m) <= 2^MaxBits
<1>1. /\ CodeCount \in Nat /\ Symbols = 0..(CodeCount - 1) /\ Nodes = 0..(m - 1)
      /\ \A n \in 0..(m - 1) : parent[n] = NoNode \/ parent[n] \in (n + 1)..(m - 1)
  BY SymbolFacts DEF Upward
<1>2. \A n \in Nodes : Depth[n] \in Nat /\ Depth[n] = IF parent[n] = NoNode THEN 0 ELSE 1 + Depth[parent[n]]
  BY DepthIsNumber
<1>3. \A n \in Nodes : Portion(Depth[n]) \in Nat
  BY <1>2, Portions
<1>4. ASSUME NEW j \in 0..m PROVE \A i \in 1..m : Frontier(j, m)[i] \in Nat
  <2>1. \A i \in 1..m : i - 1 \in Nodes
    BY <1>1, SMT
  <2> QED BY <1>3, <2>1 DEF Frontier
<1>5. \A x \in Nodes \ Symbols : \E a, b \in Nodes : AreChildren(a, b, x)
  BY DEF ForestInv
<1>6. /\ m - 1 \in Nodes /\ parent[m - 1] = NoNode
      /\ \A n \in Nodes : n # m - 1 /\ n \notin Symbols => parent[n] \in (n + 1)..(m - 1)
  BY OnlyRoot
<1> DEFINE Good(j) == SumOf(Frontier(j, m), m) <= 2^MaxBits
           S == {j \in 0..(m - CodeCount) : Good(m - j)}
<1>7. Good(m)
  <2> DEFINE f == Frontier(m, m)
  <2>1. ASSUME NEW i \in 1..m PROVE f[i] = IF i - 1 \in {m - 1} THEN 2^MaxBits ELSE 0
    <3>1. i - 1 \in 0..(m - 1) /\ i - 1 < m /\ ((i - 1 = m - 1) <=> (i = m))
      BY SMT
    <3>2. ~(parent[i - 1] >= m)
      BY <1>1, <3>1, SMT DEF NoNode
    <3>3. f[i] = IF i = m THEN Portion(Depth[i - 1]) ELSE 0
      BY <3>1, <3>2 DEF Frontier
    <3>4. Depth[m - 1] = 0
      BY <1>2, <1>6
    <3>5. Portion(0) = 2^MaxBits
      BY Portions
    <3> HIDE DEF f
    <3> QED BY <3>1, <3>3, <3>4, <3>5
  <2>2. 2^MaxBits \in Nat /\ m - 1 \in 0..(m - 1)
    BY <1>1, Portions, SMT
  <2> DEFINE c == 2^MaxBits
             T == {m - 1}
  <2>3. c \in Int /\ T \subseteq 0..(m - 1) /\ \A i \in 1..m : f[i] = IF i - 1 \in T THEN c ELSE 0
    BY <2>1, <2>2
  <2>4. Cardinality(T) = 1
    BY FS_Singleton
  <2> HIDE DEF c, T, f
  <2>5. SumOf(f, m) = c * Cardinality(T)
    BY <2>3, SumOfSame
  <2>6. SumOf(f, m) = c
    BY <2>3, <2>4, <2>5, SMT
  <2> QED BY <2>3, <2>6 DEF c, f
<1>8. ASSUME NEW j \in Nat, CodeCount <= j, j < m, Good(j + 1)
      PROVE  Good(j)
  <2> DEFINE f == Frontier(j + 1, m)
             g == Frontier(j, m)
  <2>1. j \in Nodes \ Symbols /\ j \in 0..m /\ j + 1 \in 0..m /\ j + 1 \in 1..m /\ (j + 1) - 1 = j
    BY <1>1, <1>8, SMT
  <2>2. PICK a \in Nodes, b \in Nodes : a # b /\ \A n \in Nodes : (parent[n] = j) <=> n \in {a, b}
    BY <1>5, <2>1 DEF AreChildren
  <2>3. ASSUME NEW n \in {a, b}
        PROVE  n \in Nodes /\ parent[n] = j /\ n < j /\ Depth[n] = Depth[j] + 1 /\ n # m - 1
    <3>1. n \in 0..(m - 1) /\ parent[n] = j /\ j # NoNode
      BY <1>1, <2>1, <2>2, SMT DEF NoNode
    <3>2. j \in (n + 1)..(m - 1)
      BY <1>1, <3>1
    <3>3. n < j /\ n # m - 1
      BY <1>1, <3>1, <3>2, SMT
    <3>4. Depth[n] = 1 + Depth[j] /\ Depth[j] \in Nat
      BY <1>1, <1>2, <2>1, <3>1
    <3> QED BY <1>1, <3>1, <3>3, <3>4
  <2> DEFINE p == Portion(Depth[j])
             q == Portion(Depth[j] + 1)
  <2>4. p \in Nat /\ q \in Nat /\ q + q <= p
    <3>1. Depth[j] \in Nat /\ Depth[j] + 1 \in Nat
      BY <1>2, <2>1
    <3> QED BY <3>1, Portions
  <2>5. /\ a + 1 \in 1..m /\ b + 1 \in 1..m /\ a + 1 # b + 1 /\ a + 1 # j + 1 /\ b + 1 # j + 1
        /\ (a + 1) - 1 = a /\ (b + 1) - 1 = b
    BY <1>1, <2>1, <2>2, <2>3, SMT
  <2>6. f[j + 1] = p /\ g[j + 1] = 0
    <3>1. j < j + 1 /\ ~(j < j)
      BY SMT
    <3>2. parent[j] >= j + 1 \/ j + 1 = m
      <4>1. CASE j = m - 1
        BY <4>1, SMT
      <4>2. CASE j # m - 1
        <5>1. parent[j] \in (j + 1)..(m - 1)
          BY <1>6, <2>1, <4>2
        <5> QED BY <5>1, SMT
      <4> QED BY <4>1, <4>2
    <3> QED BY <2>1, <3>1, <3>2 DEF Frontier
  <2>7. ASSUME NEW n \in {a, b} PROVE f[n + 1] = 0 /\ g[n + 1] = q
    <3>1. n \in Nodes /\ parent[n] = j /\ n < j /\ Depth[n] = Depth[j] + 1 /\ n # m - 1
      BY <2>3
    <3>2. n + 1 \in 1..m /\ (n + 1) - 1 = n /\ n + 1 # m /\ ~(j >= j + 1) /\ j >= j
      BY <1>1, <3>1, SMT
    <3> QED BY <3>1, <3>2 DEF Frontier
  <2>8. ASSUME NEW i \in 1..m, i \notin {j + 1, a + 1, b + 1} PROVE g[i] = f[i]
    <3>1. i - 1 \in Nodes /\ i - 1 # j /\ i - 1 \notin {a, b}
      BY <1>1, <2>2, <2>8, SMT
    <3>2. parent[i - 1] # j /\ parent[i - 1] \in Int
      BY <1>1, <2>2, <3>1, SMT DEF NoNode
    <3>3. /\ (i - 1 < j) <=> (i - 1 < j + 1)
          /\ (parent[i - 1] >= j) <=> (parent[i - 1] >= j + 1)
      BY <1>1, <3>1, <3>2, SMT
    <3> QED BY <3>3 DEF Frontier
  <2>9. \A i \in 1..m : f[i] \in Int /\ g[i] \in Int
    BY <1>4, <2>1
  <2> HIDE DEF f, g, p, q
  <2>10. /\ SumOf(f, m) \in Int
         /\ SumOf(g, m) = SumOf(f, m) + (g[j + 1] - f[j + 1]) + (g[a + 1] - f[a + 1]) + (g[b + 1] - f[b + 1])
    <3> DEFINE x == j + 1
               y == a + 1
               z == b + 1
    <3>1. x \in 1..m /\ y \in 1..m /\ z \in 1..m /\ x # y /\ x # z /\ y # z
      BY <2>1, <2>5
    <3>2. Alike(f, g, m, x, y, z)
      BY <2>8, <2>9, <3>1 DEF Alike
    <3> HIDE DEF x, y, z
    <3>3. /\ SumOf(f, m) \in Int
          /\ SumOf(g, m) = SumOf(f, m) + (g[x] - f[x]) + (g[y] - f[y]) + (g[z] - f[z])
      BY <3>2, SumChangedThrice
    <3> QED BY <3>3 DEF x, y, z
  <2>11. SumOf(g, m) <= SumOf(f, m) /\ SumOf(g, m) \in Int
    BY <2>4, <2>6, <2>7, <2>10, SMT
  <2>12. SumOf(f, m) <= 2^MaxBits /\ 2^MaxBits \in Int
    BY <1>8, Portions DEF f
  <2>13. SumOf(g, m) <= 2^MaxBits
    BY <2>10, <2>11, <2>12
  <2> QED BY <2>13 DEF g
<1>9. \A j \in 0..(m - CodeCount) : j \in S
  <2>1. m - CodeCount \in Nat
    BY <1>1
  <2>2. 0 \in S
    BY <1>1, <1>7, SMT
  <2>3. ASSUME NEW j \in Nat, j < m - CodeCount, j \in S PROVE j + 1 \in S
    <3> HIDE DEF Good
    <3>1. /\ m - (j + 1) \in Nat /\ CodeCount <= m - (j + 1) /\ m - (j + 1) < m
          /\ (m - (j + 1)) + 1 = m - j /\ j + 1 \in 0..(m - CodeCount)
      BY <1>1, <2>3, SMT
    <3>2. Good(m - (j + 1))
      BY <1>8, <2>3, <3>1
    <3> QED BY <3>1, <3>2
  <2> HIDE DEF S
  <2> QED BY <2>1, <2>2, <2>3, Inherited
<1>10. m - k \in 0..(m - CodeCount) /\ m - (m - k) = k
  BY <1>1, SMT
<1>11. Good(k)
  <2> HIDE DEF Good
  <2> QED BY <1>9, <1>10
<1> QED BY <1>11

-----------------------------------------------------------------------------
(* What holds of the lengths from when they are measured. *)

\* As long as codes are too long the lengths take too much, but not more than
\* the search for the longest makes up for; nothing is taken too much if no
\* length had to be cut.  One that was cut stays as it is.
LengthInv ==
    stage \notin {"start", "leaves", "combine"} =>
        /\ tooLong \in Int
        /\ (0 \in Used \/ \A s \in Symbols : length[s] < MaxBits) => Taken <= 2^MaxBits + tooLong
        /\ tooLong > 0 => \E s \in Symbols : length[s] = MaxBits
        /\ (0 \in Used /\ tooLong > 0) => (length[0] > 0 /\ length[longest] > 0)
        /\ stage # "balance" => tooLong <= 0

LEMMA Shares ==
    /\ Share(0) = 0 /\ Share(MaxBits) = 1
    /\ \A l \in 1..MaxBits : Share(l) = Portion(l)
    /\ \A l \in 0..MaxBits : Share(l) \in Nat
<1>1. MaxBits \in Nat /\ MaxBits >= 2
  BY Sizes
<1>2. Share(0) = 0
  BY DEF Share
<1>3. ASSUME NEW l \in 1..MaxBits PROVE Share(l) = Portion(l) /\ Share(l) \in Nat
  <2>1. l # 0 /\ l <= MaxBits /\ l \in Nat
    BY <1>1, SMT
  <2>2. Share(l) = Portion(l)
    BY <2>1 DEF Share, Portion
  <2> QED BY <2>1, <2>2, Portions
<1>4. Share(MaxBits) = 1
  <2>1. MaxBits - MaxBits = 0 /\ MaxBits # 0 /\ 2^0 = 1
    BY <1>1, SMT
  <2> QED BY <2>1 DEF Share
<1>5. \A l \in 0..MaxBits : l = 0 \/ l \in 1..MaxBits
  BY <1>1, SMT
<1> QED BY <1>2, <1>3, <1>4, <1>5

LEMMA MeasuredLengths ==
    ASSUME TreeInv, ForestInv, MeasureLengths
    PROVE  LengthInv'
<1> DEFINE long == {s \in Symbols : Depth[s] > MaxBits}
           len(s) == IF Depth[s] > MaxBits THEN MaxBits ELSE Depth[s]
<1>1. /\ stage = "combine" /\ Len(heap) <= 1 /\ stage' = "balance"
      /\ UNCHANGED <<weight, parent, heap>>
      /\ length' = [s \in Symbols |-> len(s)]
      /\ tooLong' = Cardinality(long) /\ longest' = 0
  BY DEF MeasureLengths, tree
<1>2. PICK m \in Nat : /\ m >= CodeCount /\ Upward(m) /\ heap \in Seq(0..(m - 1))
                       /\ \A n \in 0..(m - 1) : parent[n] \notin Symbols
  BY <1>1 DEF TreeInv
<1>3. /\ CodeCount \in Nat /\ CodeCount > 0 /\ Symbols = 0..(CodeCount - 1) /\ Nodes = 0..(m - 1)
      /\ Symbols \subseteq Nodes /\ 0 \in Symbols
      /\ \A n \in 0..(m - 1) : parent[n] = NoNode \/ parent[n] \in (n + 1)..(m - 1)
  <2>1. \A s \in 0..(CodeCount - 1) : s \in 0..(m - 1)
    BY <1>2, SymbolFacts
  <2> QED BY <1>2, <2>1, SymbolFacts DEF Upward
<1>4. \A n \in Nodes : Depth[n] \in Nat /\ Depth[n] = IF parent[n] = NoNode THEN 0 ELSE 1 + Depth[parent[n]]
  BY <1>2, DepthIsNumber
<1>5. MaxBits \in Nat /\ MaxBits >= 2
  BY Sizes
<1>6. long \subseteq 0..(CodeCount - 1)
  BY <1>3
<1> DEFINE over  == [i \in 1..CodeCount |-> IF i - 1 \in long THEN 1 ELSE 0]
           taken == [i \in 1..CodeCount |-> Share(length'[i - 1])]
<1>7. Cardinality(long) \in Nat /\ SumOf(over, CodeCount) = Cardinality(long)
  <2>1. 1 \in Int /\ \A i \in 1..CodeCount : over[i] = IF i - 1 \in long THEN 1 ELSE 0
    OBVIOUS
  <2> HIDE DEF over, long
  <2>2. Cardinality(long) \in Nat /\ SumOf(over, CodeCount) = 1 * Cardinality(long)
    BY <1>3, <1>6, <2>1, SumOfSame
  <2> QED BY <2>2
<1>8. \A i \in 1..CodeCount : i - 1 \in Symbols /\ taken[i] = Share(len(i - 1))
  <2>1. \A i \in 1..CodeCount : i - 1 \in Symbols
    BY <1>3, SMT
  <2> QED BY <1>1, <2>1
<1>9. Taken' = SumOf(taken, CodeCount)
  BY DEF Taken
<1>10. \A i \in 1..CodeCount : taken[i] \in Nat /\ over[i] \in Nat
  <2>1. \A s \in Symbols : len(s) \in 0..MaxBits
    BY <1>3, <1>4, <1>5
  <2> QED BY <1>8, <2>1, Shares
<1>11. CASE m = CodeCount
  <2>1. ASSUME NEW s \in Symbols PROVE Depth[s] = 0
    <3>1. parent[s] = NoNode
      BY <1>2, <1>3, <1>11
    <3> QED BY <1>3, <1>4, <3>1
  <2>2. \A i \in 1..CodeCount : taken[i] = 0
    BY <1>5, <1>8, <2>1, Shares
  <2>3. long = {}
    BY <1>5, <2>1
  <2>4. tooLong' = 0
    BY <1>1, <2>3, FS_EmptySet
  <2>5. SumOf(taken, CodeCount) = 0
    <3>1. 0 \in 0..CodeCount /\ \A i \in (0 + 1)..CodeCount : taken[i] = 0
      BY <1>3, <2>2
    <3>2. \A i \in 1..CodeCount : taken[i] \in Int
      BY <2>2
    <3> HIDE DEF taken
    <3>3. SumOf(taken, CodeCount) = SumOf(taken, 0) /\ SumOf(taken, 0) = 0
      BY <1>3, <3>1, <3>2, SumOfZeros, SumsAre
    <3> QED BY <3>3
  <2>6. Taken' <= 2^MaxBits + tooLong' /\ tooLong' \in Int /\ ~(tooLong' > 0)
    BY <1>9, <2>4, <2>5, Portions, SMT
  <2> QED BY <1>1, <2>6 DEF LengthInv
<1>12. CASE m > CodeCount
  <2> DEFINE front == Frontier(CodeCount, m)
  <2>1. SumOf(front, m) <= 2^MaxBits
    <3>1. CodeCount \in CodeCount..m
      BY <1>3, <1>12, SMT
    <3> QED BY <1>1, <1>2, <1>12, <3>1, FrontierShares
  <2>2. ASSUME NEW i \in 1..m
        PROVE  front[i] \in Int /\ (i > CodeCount => front[i] = 0)
    <3>1. i - 1 \in Nodes /\ (i > CodeCount => ~(i - 1 < CodeCount))
      BY <1>3, SMT
    <3>2. Portion(Depth[i - 1]) \in Nat
      BY <1>4, <3>1, Portions
    <3> QED BY <3>1, <3>2 DEF Frontier
  <2>3. SumOf(front, CodeCount) = SumOf(front, m)
    <3>1. CodeCount \in 0..m /\ \A i \in (CodeCount + 1)..m : i \in 1..m /\ i > CodeCount
      BY <1>3, <1>12, SMT
    <3> HIDE DEF front
    <3> QED BY <2>2, <3>1, SumOfZeros
  <2>4. ASSUME NEW i \in 1..CodeCount PROVE taken[i] = front[i] + over[i] /\ front[i] \in Int
    <3> DEFINE s == i - 1
    <3>1. s \in Symbols /\ s \in Nodes /\ i \in 1..m /\ i # m /\ i - 1 < CodeCount
      BY <1>3, <1>12, SMT
    <3> HIDE DEF s
    <3>2. front[i] = IF parent[s] >= CodeCount THEN Portion(Depth[s]) ELSE 0
      BY <3>1 DEF Frontier, s
    <3>3. over[i] = IF Depth[s] > MaxBits THEN 1 ELSE 0
      BY <3>1 DEF s
    <3>4. taken[i] = Share(len(s))
      BY <1>8 DEF s
    <3> HIDE DEF front, over, taken, long
    <3>5. CASE parent[s] = NoNode
      <4>1. Depth[s] = 0 /\ ~(parent[s] >= CodeCount)
        BY <1>3, <1>4, <3>1, <3>5 DEF NoNode
      <4> QED BY <1>5, <3>2, <3>3, <3>4, <4>1, Shares
    <3>6. CASE parent[s] # NoNode
      <4>1. parent[s] \in (s + 1)..(m - 1) /\ parent[s] \notin Symbols /\ s \in Nat
        BY <1>2, <1>3, <3>1, <3>6
      <4>2. parent[s] >= CodeCount /\ parent[s] \in Nodes
        BY <1>3, <4>1, SMT
      <4>3. Depth[s] = 1 + Depth[parent[s]] /\ Depth[parent[s]] \in Nat
        BY <1>4, <3>1, <3>6, <4>2
      <4>4. CASE Depth[s] > MaxBits
        <5>1. ~(Depth[s] <= MaxBits)
          BY <1>5, <4>3, <4>4
        <5>2. Portion(Depth[s]) = 0
          BY <5>1 DEF Portion
        <5> QED BY <3>2, <3>3, <3>4, <4>2, <4>4, <5>2, Shares
      <4>5. CASE ~(Depth[s] > MaxBits)
        <5>1. Depth[s] \in 1..MaxBits
          BY <1>5, <4>3, <4>5
        <5>2. Share(Depth[s]) = Portion(Depth[s]) /\ Portion(Depth[s]) \in Nat
          BY <4>3, <5>1, Shares, Portions
        <5> QED BY <3>2, <3>3, <3>4, <4>2, <4>5, <5>2
      <4> QED BY <4>4, <4>5
    <3> QED BY <3>5, <3>6
  <2>5. SumOf(taken, CodeCount) = SumOf(front, CodeCount) + SumOf(over, CodeCount)
    <3> HIDE DEF front, over, taken, long
    <3> QED BY <1>3, <1>10, <2>4, SumOfSums
  <2>6. SumOf(front, CodeCount) \in Int
    <3> HIDE DEF front
    <3>1. CodeCount \in 0..CodeCount
      BY <1>3, SMT
    <3> QED BY <1>3, <2>4, <3>1, SumsAre
  <2>7. Taken' <= 2^MaxBits + tooLong' /\ tooLong' \in Nat
    <3> HIDE DEF front, over, taken, long
    <3> QED BY <1>1, <1>7, <1>9, <2>1, <2>3, <2>5, <2>6, Portions
  <2>8. tooLong' > 0 => \E s \in Symbols : length'[s] = MaxBits
    <3> SUFFICES ASSUME tooLong' > 0 PROVE \E s \in Symbols : length'[s] = MaxBits
      OBVIOUS
    <3>1. long # {}
      <4>1. long = {} => Cardinality(long) = 0
        BY FS_EmptySet
      <4> HIDE DEF long
      <4> QED BY <1>1, <4>1
    <3>2. PICK s \in Symbols : Depth[s] > MaxBits
      BY <3>1
    <3> QED BY <1>1, <3>2
  <2>9. (0 \in Used)' => length'[0] > 0
    <3> SUFFICES ASSUME (0 \in Used)' PROVE length'[0] > 0
      OBVIOUS
    <3>1. weight[0] > 0
      BY <1>1 DEF Used
    <3>2. 0 \in Nodes /\ 0 # m - 1 /\ weight[0] # 0
      BY <1>3, <1>12, <3>1
    <3>3. parent[0] \in (0 + 1)..(m - 1)
      BY <1>1, <1>2, <1>12, <3>2, OnlyRoot
    <3>4. parent[0] # NoNode /\ parent[0] \in Nodes
      BY <1>3, <3>3, SMT DEF NoNode
    <3>5. Depth[0] = 1 + Depth[parent[0]] /\ Depth[parent[0]] \in Nat
      BY <1>3, <1>4, <3>4
    <3>6. len(0) > 0
      BY <1>5, <3>5
    <3> QED BY <1>1, <1>3, <3>6
  <2> QED BY <1>1, <2>7, <2>8, <2>9 DEF LengthInv
<1> QED BY <1>2, <1>3, <1>11, <1>12

\* One iteration of the loop that balances makes up for as much as it says.
LEMMA BalancedLengths ==
    ASSUME LoopInv, AlphabetInv, LengthInv, Balance
    PROVE  LengthInv'
<1> DEFINE longer == length[at] < MaxBits /\ length[at] > length[longest]
           target == IF longer THEN at ELSE longest
           found  == longer /\ length[at] = MaxBits - 1
           room   == MaxBits - length[target]
           enough == {n \in 0..room : n = room \/ MakesUp(length[target], n) >= tooLong}
           extra  == IF found THEN 0 ELSE Min(enough)
           old    == length[target]
           new    == length[target] + extra
<1>1. /\ stage = "balance" /\ stage' = "balance" /\ tooLong > 0 /\ UNCHANGED weight
      /\ length' = [length EXCEPT ![target] = @ + extra]
      /\ tooLong' = tooLong - MakesUp(old, extra)
      /\ longest' \in {0, target}
  BY DEF Balance, tree
<1>2. /\ tooLong \in Int
      /\ (0 \in Used \/ \A s \in Symbols : length[s] < MaxBits) => Taken <= 2^MaxBits + tooLong
      /\ \E s \in Symbols : length[s] = MaxBits
      /\ 0 \in Used => (length[0] > 0 /\ length[longest] > 0)
  BY <1>1 DEF LengthInv
<1>3. /\ length \in [Symbols -> 0..MaxBits] /\ at \in Symbols /\ longest \in Symbols
      /\ MaxBits \in Nat /\ MaxBits >= 2 /\ MaxBits <= 15
  BY <1>1, Sizes, SymbolFacts DEF AlphabetInv, LoopInv
<1>4. target \in Symbols /\ (0 \in Used => old > 0)
  <2>1. length[at] \in Nat /\ length[longest] \in Nat
    BY <1>3
  <2> QED BY <1>2, <1>3, <2>1
<1> HIDE DEF target, found
<1>5. old \in 0..MaxBits /\ room \in Nat
  BY <1>3, <1>4
<1>6. extra \in 0..room
  <2>1. enough \subseteq Nat /\ room \in enough
    BY <1>5
  <2>2. Min(enough) \in enough
    <3> HIDE DEF enough
    <3> QED BY <2>1, LeastIs
  <2>3. Min(enough) \in 0..room
    BY <2>2
  <2> HIDE DEF enough
  <2> QED BY <1>5, <2>3
<1> HIDE DEF extra
<1>7. /\ extra \in Nat /\ new \in 0..MaxBits /\ new >= old /\ old \in Nat
      /\ length'[target] = new
      /\ \A s \in Symbols : s # target => length'[s] = length[s]
  BY <1>1, <1>3, <1>4, <1>5, <1>6
<1> HIDE DEF old, new
<1>8. \A s \in Symbols : length'[s] \in 0..MaxBits /\ length'[s] >= length[s] /\ length[s] \in Nat
  <2> SUFFICES ASSUME NEW s \in Symbols
               PROVE  length'[s] \in 0..MaxBits /\ length'[s] >= length[s] /\ length[s] \in Nat
    OBVIOUS
  <2>1. length[s] \in 0..MaxBits
    BY <1>3
  <2>2. CASE s = target
    BY <1>7, <2>1, <2>2 DEF old
  <2>3. CASE s # target
    BY <1>7, <2>1, <2>3
  <2> QED BY <2>2, <2>3
<1>9. \E s \in Symbols : length'[s] = MaxBits
  <2>1. PICK s \in Symbols : length[s] = MaxBits
    BY <1>2
  <2>2. length'[s] = MaxBits
    BY <1>3, <1>8, <2>1
  <2> QED BY <2>2
<1>10. MakesUp(old, extra) \in Int /\ (old > 0 => MakesUp(old, extra) = Share(old) - Share(new))
  <2>1. new = old + extra /\ MaxBits - old \in 0..15 /\ MaxBits - old - extra \in 0..15
    BY <1>3, <1>5, <1>6, <1>7, SMT DEF new, old
  <2>2. MaxBits - new = MaxBits - old - extra
    BY <1>3, <1>7, <2>1, SMT
  <2>3. 2^(MaxBits - old) \in Nat /\ 2^(MaxBits - old - extra) \in Nat
    BY <2>1, PowersOfTwo DEF Positive
  <2>4. MakesUp(old, extra) = 2^(MaxBits - old) - 2^(MaxBits - old - extra)
    BY DEF MakesUp
  <2>5. old > 0 => Share(old) = 2^(MaxBits - old) /\ Share(new) = 2^(MaxBits - old - extra)
    <3>1. old > 0 => old # 0 /\ new # 0
      BY <1>7
    <3> QED BY <2>2, <3>1 DEF Share
  <2>6. MakesUp(old, extra) \in Int
    <3> DEFINE p == 2^(MaxBits - old)
               q == 2^(MaxBits - old - extra)
    <3>1. p \in Nat /\ q \in Nat /\ MakesUp(old, extra) = p - q
      BY <2>3, <2>4
    <3> HIDE DEF p, q
    <3> QED BY <3>1
  <2> QED BY <2>4, <2>5, <2>6
<1>11. tooLong' \in Int
  BY <1>1, <1>2, <1>10
<1>12. ASSUME (0 \in Used)' \/ \A s \in Symbols : length'[s] < MaxBits
       PROVE  Taken' <= 2^MaxBits + tooLong'
  <2>1. 0 \in Used
    <3>1. ~(MaxBits < MaxBits)
      BY <1>3
    <3>2. ~(\A s \in Symbols : length'[s] < MaxBits)
      BY <1>9, <3>1
    <3> QED BY <1>1, <1>12, <3>2 DEF Used
  <2> DEFINE f == [i \in 1..CodeCount |-> Share(length[i - 1])]
             g == [i \in 1..CodeCount |-> Share(length'[i - 1])]
             k == target + 1
  <2>2. Taken = SumOf(f, CodeCount) /\ Taken' = SumOf(g, CodeCount)
    BY DEF Taken
  <2>3. \A i \in 1..CodeCount : i - 1 \in Symbols
    BY SymbolFacts, SMT
  <2>4. \A i \in 1..CodeCount : f[i] \in Int /\ g[i] \in Int
    BY <1>3, <1>8, <2>3, Shares
  <2>5. /\ k \in 1..CodeCount /\ f[k] = Share(old) /\ g[k] = Share(new)
        /\ \A i \in 1..CodeCount : i # k => g[i] = f[i]
    <3>1. k \in 1..CodeCount /\ k - 1 = target
      BY <1>4, SymbolFacts, SMT
    <3>2. \A i \in 1..CodeCount : i # k => i - 1 # target
      BY <3>1, SMT
    <3> HIDE DEF k
    <3> QED BY <1>7, <2>3, <3>1, <3>2 DEF old
  <2> HIDE DEF f, g, k
  <2>6. /\ SumOf(f, CodeCount) \in Int /\ f[k] \in Int /\ g[k] \in Int
        /\ SumOf(g, CodeCount) = SumOf(f, CodeCount) + (g[k] - f[k])
    BY <2>4, <2>5, SymbolFacts, SumChanged
  <2>7. MakesUp(old, extra) = Share(old) - Share(new)
    BY <1>4, <1>10, <2>1
  <2>8. Taken <= 2^MaxBits + tooLong /\ 2^MaxBits \in Int
    BY <1>2, <2>1, Portions
  <2> QED BY <1>1, <1>2, <2>2, <2>5, <2>6, <2>7, <2>8
<1>13. ASSUME (0 \in Used)' PROVE length'[0] > 0 /\ length'[longest'] > 0
  <2>1. 0 \in Used
    BY <1>1, <1>13 DEF Used
  <2>2. length'[0] > 0
    BY <1>2, <1>8, <2>1, SymbolFacts
  <2>3. length'[target] > 0
    BY <1>4, <1>7, <2>1
  <2> QED BY <1>1, <2>2, <2>3
<1> QED BY <1>1, <1>9, <1>11, <1>12, <1>13 DEF LengthInv

LEMMA LengthsStay ==
    ASSUME LengthInv, stage \notin {"start", "leaves", "combine"},
           UNCHANGED <<weight, length, tooLong, longest>>,
           stage' # "balance" => stage # "balance" \/ tooLong <= 0
    PROVE  LengthInv'
BY DEF LengthInv, Taken, Used

LEMMA LengthsNext ==
    ASSUME LoopInv, TreeInv, AlphabetInv, ForestInv, LengthInv, Next
    PROVE  LengthInv'
<1> USE DEF tree, balance
<1>1. CASE DeflateInit \/ CreateAlphabet \/ InsertLeaf \/ Combine
  BY <1>1 DEF DeflateInit, CreateAlphabet, StartTree, InsertLeaf, Combine, LengthInv
<1>2. CASE MeasureLengths
  BY <1>2, MeasuredLengths
<1>3. CASE Balance
  BY <1>3, BalancedLengths
<1>4. CASE AssignBitstrings \/ DescribeLengths \/ DescribeDistances \/ StartBlock
  BY <1>4, LengthsStay DEF AssignBitstrings, DescribeLengths, DescribeDistances, StartBlock
<1>5. CASE WriteCode \/ DeflateCompress \/ CompressReturn \/ EndBlock
  BY <1>5, LengthsStay DEF WriteCode, DeflateCompress, CompressReturn, EndBlock
<1>6. CASE CompressRepeat \/ CompressCached \/ CompressWord
  BY <1>6, LengthsStay DEF CompressRepeat, CompressCached, CompressWord, Iterating, huffmanVars
<1> QED BY <1>1, <1>2, <1>3, <1>4, <1>5, <1>6 DEF Next, HuffmanStep

-----------------------------------------------------------------------------
(* Bits of numbers. *)

LEMMA PowerOfSum ==
    ASSUME NEW a \in 0..15, NEW b \in 0..15, a + b <= 15
    PROVE  2^(a + b) = 2^a * 2^b
<1> DEFINE S == {k \in 0..(15 - a) : 2^(a + k) = 2^a * 2^k}
<1>1. 15 - a \in Nat /\ 2^a \in Nat
  <2>1. 2^a \in Nat
    BY PowersOfTwo DEF Positive
  <2> QED BY <2>1
<1>2. 0 \in S
  <2>1. a + 0 = a /\ 2^0 = 1 /\ 0 \in 0..(15 - a)
    BY <1>1, SMT
  <2> DEFINE p == 2^a
  <2>2. p * 1 = p
    BY <1>1
  <2> QED BY <2>1, <2>2
<1>3. ASSUME NEW k \in Nat, k < 15 - a, k \in S PROVE k + 1 \in S
  <2>1. /\ a + k \in 0..15 /\ a + k < 15 /\ a + (k + 1) = (a + k) + 1
        /\ k \in 0..15 /\ k < 15 /\ k + 1 \in 0..(15 - a)
    BY <1>3, SMT
  <2> DEFINE p == 2^a
             q == 2^k
             r == 2^(a + k)
  <2>2. 2^(a + (k + 1)) = 2 * r /\ 2^(k + 1) = 2 * q /\ q \in Nat /\ p \in Nat
    BY <1>1, <2>1, PowersOfTwo DEF Positive
  <2>3. r = p * q
    BY <1>3
  <2> HIDE DEF p, q, r
  <2>4. 2 * r = p * (2 * q)
    BY <2>2, <2>3, SMT
  <2>5. 2^(a + (k + 1)) = p * 2^(k + 1)
    BY <2>2, <2>4
  <2> QED BY <2>1, <2>5 DEF p
<1> HIDE DEF S
<1>4. \A k \in 0..(15 - a) : k \in S
  BY <1>1, <1>2, <1>3, Inherited
<1>5. b \in 0..(15 - a)
  BY SMT
<1> QED BY <1>4, <1>5 DEF S

\* A bit of the quotient is one further up of the number.
LEMMA BitOfQuotient ==
    ASSUME NEW v \in Nat, NEW d \in 0..15, NEW j \in 0..15, j + d <= 15
    PROVE  v \div 2^d \in Nat /\ Bit(v, j + d) = Bit(v \div 2^d, j)
<1> DEFINE p == 2^d
           q == 2^j
<1>1. p \in Positive /\ q \in Positive /\ 2^(j + d) = p * q
  <2>1. d + j = j + d /\ d + j <= 15
    BY SMT
  <2> QED BY <2>1, PowersOfTwo, PowerOfSum
<1> HIDE DEF p, q
<1>2. (v \div p) \div q = v \div (p * q)
  BY <1>1, QuotientOfQuotient
<1>3. v \div p \in Nat
  BY <1>1, SMT DEF Positive
<1> QED BY <1>1, <1>2, <1>3 DEF Bit, p, q

\* A number is made of its bits.
LEMMA BitsDetermine ==
    ASSUME NEW n \in 0..15, NEW x \in Nat, NEW y \in Nat, x < 2^n, y < 2^n,
           \A j \in 0..(n - 1) : Bit(x, j) = Bit(y, j)
    PROVE  x = y
<1> DEFINE Good(k) == \A a, b \in Nat : a < 2^k /\ b < 2^k
                         /\ (\A j \in 0..(k - 1) : Bit(a, j) = Bit(b, j)) => a = b
           S == {k \in 0..15 : Good(k)}
<1>1. 0 \in S
  <2>1. 2^0 = 1 /\ 0 \in 0..15
    BY SMT
  <2>2. Good(0)
    BY <2>1, SMT
  <2> QED BY <2>1, <2>2
<1>2. ASSUME NEW k \in Nat, k < 15, k \in S PROVE k + 1 \in S
  <2>1. k \in 0..15 /\ k + 1 \in 0..15 /\ 2^k \in Nat /\ 2^(k + 1) = 2 * 2^k /\ Good(k)
    <3>1. k \in 0..15 /\ k + 1 \in 0..15
      BY <1>2, SMT
    <3> QED BY <1>2, <3>1, PowersOfTwo DEF Positive
  <2>2. SUFFICES ASSUME NEW a \in Nat, NEW b \in Nat, a < 2^(k + 1), b < 2^(k + 1),
                        \A j \in 0..((k + 1) - 1) : Bit(a, j) = Bit(b, j)
                 PROVE  a = b
    BY <2>1
  <2>3. a \div 2 \in Nat /\ b \div 2 \in Nat /\ a \div 2 < 2^k /\ b \div 2 < 2^k
    <3> DEFINE p == 2^k
    <3>1. a < 2 * p /\ b < 2 * p /\ p \in Nat
      BY <2>1, <2>2
    <3> HIDE DEF p
    <3>2. a \div 2 \in Nat /\ b \div 2 \in Nat /\ a \div 2 < p /\ b \div 2 < p
      BY <3>1, SMT
    <3> QED BY <3>2 DEF p
  <2>4. ASSUME NEW j \in 0..(k - 1) PROVE Bit(a \div 2, j) = Bit(b \div 2, j)
    <3> DEFINE d == 1
    <3>1. j \in 0..15 /\ d \in 0..15 /\ j + d <= 15 /\ j + d \in 0..((k + 1) - 1) /\ 2^d = 2
      BY <2>1, SMT
    <3> HIDE DEF d
    <3>2. Bit(a, j + d) = Bit(a \div 2^d, j) /\ Bit(b, j + d) = Bit(b \div 2^d, j)
      BY <3>1, BitOfQuotient
    <3> QED BY <2>2, <3>1, <3>2
  <2>5. a \div 2 = b \div 2
    BY <2>1, <2>3, <2>4
  <2>6. Bit(a, 0) = Bit(b, 0)
    <3>1. 0 \in 0..((k + 1) - 1)
      BY SMT
    <3> QED BY <2>2, <3>1
  <2>7. a % 2 = b % 2
    <3>1. 2^0 = 1 /\ a \div 1 = a /\ b \div 1 = b
      BY SMT
    <3>2. (a % 2 = 0) <=> (b % 2 = 0)
      BY <2>6, <3>1 DEF Bit
    <3> QED BY <3>2, SMT
  <2> QED BY <2>5, <2>7, SMT
<1> HIDE DEF S
<1>3. \A k \in 0..15 : k \in S
  BY <1>1, <1>2, Inherited
<1>4. Good(n)
  BY <1>3 DEF S
<1> QED BY <1>4

-----------------------------------------------------------------------------
(* The first codes of each length. *)

CodesOfLength(l) == Cardinality(OfLength(l))

LEMMA LengthsFinite ==
    /\ \A l : IsFiniteSet(OfLength(l)) /\ CodesOfLength(l) \in Nat
    /\ \A l, s : IsFiniteSet({t \in OfLength(l) : t < s})
                 /\ Cardinality({t \in OfLength(l) : t < s}) \in Nat
<1>1. IsFiniteSet(Symbols)
  BY SymbolFacts, FS_Interval
<1>2. \A T : T \subseteq Symbols => IsFiniteSet(T) /\ Cardinality(T) \in Nat
  BY <1>1, FS_Subset, FS_CardinalityType
<1>3. \A l : OfLength(l) \subseteq Symbols /\ \A s : {t \in OfLength(l) : t < s} \subseteq Symbols
  BY DEF OfLength
<1> QED BY <1>2, <1>3 DEF CodesOfLength

LEMMA NextCodeIs ==
    /\ \A l \in 0..MaxBits : NextCode[l] \in Nat
    /\ NextCode[1] = 0
    /\ \A l \in 1..(MaxBits - 2) : NextCode[l + 1] = 2 * (NextCode[l] + CodesOfLength(l))
<1> DEFINE b == MaxBits
           value == [l \in 0..b |-> [g \in [0..(l - 1) -> Nat] |->
                        IF l \in {0, 1, MaxBits} THEN 0 ELSE 2 * (g[l - 1] + CodesOfLength(l - 1))]]
           Next_(p) == p = [l \in 0..b |-> IF l \in {0, 1, MaxBits} THEN 0
                                           ELSE 2 * (p[l - 1] + CodesOfLength(l - 1))]
<1>1. b \in Nat /\ b >= 2
  BY Sizes
<1>2. \A l : CodesOfLength(l) \in Nat
  BY LengthsFinite
<1>3. ASSUME NEW l \in 0..b, NEW g \in [0..(l - 1) -> Nat]
      PROVE  /\ value[l][g] = IF l \in {0, 1, MaxBits} THEN 0 ELSE 2 * (g[l - 1] + CodesOfLength(l - 1))
             /\ value[l][g] \in Nat
  <2>1. l # 0 => l - 1 \in 0..(l - 1)
    BY <1>1, SMT
  <2>2. l # 0 => g[l - 1] \in Nat
    BY <2>1
  <2>3. CodesOfLength(l - 1) \in Nat
    BY <1>2
  <2>4. value[l][g] = IF l \in {0, 1, MaxBits} THEN 0 ELSE 2 * (g[l - 1] + CodesOfLength(l - 1))
    OBVIOUS
  <2> HIDE DEF value
  <2> QED BY <2>2, <2>3, <2>4
<1> HIDE DEF value
<1>4. PICK p : IsMade(p, value, b, Nat)
  <2>1. Makes(value, b, Nat)
    BY <1>3 DEF Makes
  <2> HIDE DEF b
  <2> QED BY <1>1, <2>1, Recursion
<1>5. ASSUME NEW l \in 0..b
      PROVE  p[l] = IF l \in {0, 1, MaxBits} THEN 0 ELSE 2 * (p[l - 1] + CodesOfLength(l - 1))
  <2> DEFINE g == [j \in 0..(l - 1) |-> p[j]]
  <2>1. (l # 0 => l - 1 \in 0..(l - 1)) /\ \A j \in 0..(l - 1) : j \in 0..b
    BY <1>1, SMT
  <2>2. g \in [0..(l - 1) -> Nat] /\ \A j \in 0..(l - 1) : g[j] = p[j]
    BY <1>4, <2>1 DEF IsMade
  <2>3. l # 0 => g[l - 1] = p[l - 1]
    BY <2>1
  <2> HIDE DEF g
  <2>4. p[l] = value[l][g]
    BY <1>4, <2>2 DEF IsMade
  <2> QED BY <1>3, <2>2, <2>3, <2>4
<1>6. Next_(p)
  BY <1>4, <1>5 DEF IsMade
<1>7. NextCode = CHOOSE q : Next_(q)
  BY DEF NextCode, CodesOfLength
<1>8. Next_(NextCode)
  <2> HIDE DEF Next_
  <2> QED BY <1>6, <1>7
<1>9. ASSUME NEW l \in 0..b
      PROVE  NextCode[l] = IF l \in {0, 1, MaxBits} THEN 0 ELSE 2 * (NextCode[l - 1] + CodesOfLength(l - 1))
  BY <1>8
<1> DEFINE S == {l \in 0..b : NextCode[l] \in Nat}
<1>10. \A l \in 0..b : l \in S
  <2>1. 0 \in S
    BY <1>1, <1>9
  <2>2. ASSUME NEW l \in Nat, l < b, l \in S PROVE l + 1 \in S
    <3>1. l + 1 \in 0..b /\ (l + 1) - 1 = l
      BY <2>2, <1>1, SMT
    <3>2. NextCode[l] \in Nat /\ CodesOfLength(l) \in Nat
      BY <1>2, <2>2
    <3>3. NextCode[l + 1] \in {0, 2 * (NextCode[l] + CodesOfLength(l))}
      BY <1>9, <3>1
    <3> QED BY <3>1, <3>2, <3>3
  <2> HIDE DEF S, b
  <2> QED BY <1>1, <2>1, <2>2, Inherited
<1>11. NextCode[1] = 0
  <2>1. 1 \in 0..b
    BY <1>1, SMT
  <2> QED BY <1>9, <2>1
<1>12. ASSUME NEW l \in 1..(MaxBits - 2)
       PROVE  NextCode[l + 1] = 2 * (NextCode[l] + CodesOfLength(l))
  <2>1. l + 1 \in 0..b /\ (l + 1) - 1 = l /\ l + 1 \notin {0, 1, MaxBits}
    BY <1>1, SMT
  <2> QED BY <1>9, <2>1
<1> QED BY <1>10, <1>11, <1>12

-----------------------------------------------------------------------------
(* If the lengths take no more than all codes, the codes of each length    *)
(* fit in as many bits and leave room for the longer ones.                 *)

\* What the codes shorter than l take up.
ShareBelow(l) ==
    [i \in 1..CodeCount |-> IF length[i - 1] \in 1..(l - 1) THEN Share(length[i - 1]) ELSE 0]

LEMMA CodesTake ==
    ASSUME AlphabetInv, NEW l \in 1..(MaxBits - 1)
    PROVE  /\ SumOf(ShareBelow(l), CodeCount) = NextCode[l] * 2^(MaxBits - l)
           /\ SumOf(ShareBelow(l + 1), CodeCount)
                = (NextCode[l] + CodesOfLength(l)) * 2^(MaxBits - l)
<1>1. /\ MaxBits \in Nat /\ MaxBits >= 2 /\ MaxBits <= 15 /\ CodeCount \in Nat
      /\ \A i \in 1..CodeCount : i - 1 \in Symbols
      /\ \A i \in 1..CodeCount : length[i - 1] \in 0..MaxBits
  <2>1. \A i \in 1..CodeCount : i - 1 \in Symbols
    BY SymbolFacts, SMT
  <2> QED BY <2>1, Sizes DEF AlphabetInv
<1>2. \A k : CodesOfLength(k) \in Nat
  BY LengthsFinite
<1>3. \A k \in 0..MaxBits : NextCode[k] \in Nat
  BY NextCodeIs
<1> DEFINE Total_(k) == SumOf(ShareBelow(k), CodeCount)
           weight_(k) == 2^(MaxBits - k)
           Good(k) == Total_(k) = NextCode[k] * weight_(k)
<1>4. ASSUME NEW k \in 1..(MaxBits - 1)
      PROVE  /\ weight_(k) \in Nat /\ weight_(k + 1) \in Nat /\ weight_(k) = 2 * weight_(k + 1)
             /\ Total_(k) \in Int /\ Total_(k + 1) = Total_(k) + weight_(k) * CodesOfLength(k)
  <2>1. /\ MaxBits - k \in 0..15 /\ MaxBits - (k + 1) \in 0..15 /\ MaxBits - (k + 1) < 15
        /\ (MaxBits - (k + 1)) + 1 = MaxBits - k /\ k \in 1..MaxBits /\ k # 0
    BY <1>1, SMT
  <2>2. weight_(k) \in Nat /\ weight_(k + 1) \in Nat /\ weight_(k) = 2 * weight_(k + 1)
    BY <2>1, PowersOfTwo DEF Positive
  <2> DEFINE f == ShareBelow(k)
             g == [i \in 1..CodeCount |-> IF i - 1 \in OfLength(k) THEN weight_(k) ELSE 0]
             h == ShareBelow(k + 1)
  <2>3. Share(k) = weight_(k)
    BY <2>1 DEF Share
  <2> HIDE DEF weight_
  <2>4. ASSUME NEW i \in 1..CodeCount PROVE f[i] \in Int /\ g[i] \in Int /\ h[i] = f[i] + g[i]
    <3> DEFINE s == i - 1
    <3>1. s \in Symbols /\ length[s] \in 0..MaxBits /\ Share(length[s]) \in Nat
      BY <1>1, Shares
    <3> HIDE DEF s
    <3>2. f[i] = IF length[s] \in 1..(k - 1) THEN Share(length[s]) ELSE 0
      BY DEF ShareBelow, s
    <3>3. h[i] = IF length[s] \in 1..((k + 1) - 1) THEN Share(length[s]) ELSE 0
      BY DEF ShareBelow, s
    <3>4. g[i] = IF length[s] = k THEN weight_(k) ELSE 0
      BY <3>1 DEF OfLength, s
    <3> HIDE DEF f, g, h
    <3>5. CASE length[s] = k
      <4>1. length[s] \notin 1..(k - 1) /\ length[s] \in 1..((k + 1) - 1)
        BY <3>5, <2>1, SMT
      <4> QED BY <2>2, <2>3, <3>2, <3>3, <3>4, <3>5, <4>1
    <3>6. CASE length[s] # k
      <4>1. length[s] \in 1..(k - 1) <=> length[s] \in 1..((k + 1) - 1)
        BY <3>1, <3>6, SMT
      <4>2. g[i] = 0 /\ h[i] = f[i] /\ f[i] \in Int
        BY <3>1, <3>2, <3>3, <3>4, <3>6, <4>1
      <4> QED BY <4>2
    <3> QED BY <3>5, <3>6
  <2>5. SumOf(h, CodeCount) = SumOf(f, CodeCount) + SumOf(g, CodeCount)
    <3> HIDE DEF f, g, h
    <3> QED BY <1>1, <2>4, SumOfSums
  <2>6. SumOf(g, CodeCount) = weight_(k) * Cardinality(OfLength(k))
    <3> DEFINE T == OfLength(k)
               c == weight_(k)
    <3>1. T \subseteq 0..(CodeCount - 1)
      BY DEF OfLength, Symbols
    <3>2. c \in Int
      BY <2>2
    <3>3. \A i \in 1..CodeCount : g[i] = IF i - 1 \in T THEN c ELSE 0
      OBVIOUS
    <3> HIDE DEF T, c, g
    <3>4. SumOf(g, CodeCount) = c * Cardinality(T)
      BY <1>1, <3>1, <3>2, <3>3, SumOfSame
    <3> QED BY <3>4 DEF T, c
  <2>7. SumOf(f, CodeCount) \in Int
    <3> HIDE DEF f
    <3>1. CodeCount \in 0..CodeCount
      BY <1>1, SMT
    <3> QED BY <1>1, <2>4, <3>1, SumsAre
  <2> QED BY <2>2, <2>5, <2>6, <2>7 DEF CodesOfLength
<1>5. Good(1)
  <2> DEFINE f == ShareBelow(1)
  <2>1. \A i \in 1..CodeCount : f[i] = 0
    <3>1. 1..(1 - 1) = {}
      BY SMT
    <3> QED BY <3>1 DEF ShareBelow
  <2>2. 0 \in 0..CodeCount /\ (\A i \in 1..CodeCount : f[i] \in Int) /\ \A i \in (0 + 1)..CodeCount : f[i] = 0
    BY <1>1, <2>1
  <2> HIDE DEF f
  <2>3. SumOf(f, CodeCount) = SumOf(f, 0) /\ SumOf(f, 0) = 0
    BY <1>1, <2>2, SumOfZeros, SumsAre
  <2>4. NextCode[1] * weight_(1) = 0
    <3>1. 1 \in 1..(MaxBits - 1)
      BY <1>1, SMT
    <3>2. weight_(1) \in Nat
      BY <1>4, <3>1
    <3> HIDE DEF weight_
    <3>3. 0 * weight_(1) = 0
      BY <3>2
    <3> QED BY <3>3, NextCodeIs
  <2> QED BY <2>3, <2>4 DEF f
<1>6. ASSUME NEW k \in 1..(MaxBits - 1), Good(k)
      PROVE  /\ Total_(k + 1) = (NextCode[k] + CodesOfLength(k)) * weight_(k)
             /\ k < MaxBits - 1 => Good(k + 1)
  <2> HIDE DEF Total_, weight_
  <2> DEFINE n == NextCode[k]
             c == CodesOfLength(k)
             w == weight_(k)
             v == weight_(k + 1)
  <2>1. n \in Nat /\ c \in Nat
    <3>1. k \in 0..MaxBits
      BY <1>1, SMT
    <3> QED BY <1>2, <1>3, <3>1
  <2>2. w \in Nat /\ v \in Nat /\ w = 2 * v /\ Total_(k + 1) = n * w + w * c
    BY <1>4, <1>6
  <2>3. k < MaxBits - 1 => NextCode[k + 1] = 2 * (n + c)
    <3>1. k < MaxBits - 1 => k \in 1..(MaxBits - 2)
      BY <1>1, SMT
    <3> QED BY <3>1, NextCodeIs
  <2> HIDE DEF n, c, w, v
  <2>4. n * w + w * c = (n + c) * w
    BY <2>1, <2>2, SMT
  <2>5. n * w + w * c = (2 * (n + c)) * v
    BY <2>1, <2>2, SMT
  <2>6. Total_(k + 1) = (n + c) * w /\ Total_(k + 1) = (2 * (n + c)) * v
    BY <2>2, <2>4, <2>5
  <2> QED BY <2>3, <2>6 DEF n, c, w, v
<1> DEFINE S == {j \in 0..(MaxBits - 2) : Good(j + 1)}
<1>7. \A j \in 0..(MaxBits - 2) : j \in S
  <2> HIDE DEF Good
  <2>1. MaxBits - 2 \in Nat /\ 0 \in 0..(MaxBits - 2) /\ 0 + 1 = 1
    BY <1>1, SMT
  <2>2. 0 \in S
    BY <1>5, <2>1
  <2>3. ASSUME NEW j \in Nat, j < MaxBits - 2, j \in S PROVE j + 1 \in S
    <3>1. j + 1 \in 1..(MaxBits - 1) /\ j + 1 < MaxBits - 1 /\ j + 1 \in 0..(MaxBits - 2)
      BY <1>1, <2>3, SMT
    <3> QED BY <1>6, <2>3, <3>1
  <2> HIDE DEF S
  <2> QED BY <2>1, <2>2, <2>3, Inherited
<1>8. Good(l)
  <2>1. l - 1 \in 0..(MaxBits - 2) /\ (l - 1) + 1 = l
    BY <1>1, SMT
  <2> HIDE DEF Good
  <2> QED BY <1>7, <2>1
<1> QED BY <1>6, <1>8

LEMMA TakenIsNumber ==
    ASSUME AlphabetInv
    PROVE  Taken \in Int
<1> DEFINE taken == [i \in 1..CodeCount |-> Share(length[i - 1])]
<1>1. ASSUME NEW i \in 1..CodeCount PROVE taken[i] \in Int
  <2>1. i - 1 \in Symbols
    BY SymbolFacts, SMT
  <2> QED BY <2>1, Shares DEF AlphabetInv
<1>2. CodeCount \in 0..CodeCount /\ CodeCount \in Nat
  BY SymbolFacts, SMT
<1> HIDE DEF taken
<1>3. SumOf(taken, CodeCount) \in Int
  BY <1>1, <1>2, SumsAre
<1> QED BY <1>3 DEF Taken, taken

\* The codes of a length are numbers of as many bits.
LEMMA CodesFit ==
    ASSUME AlphabetInv, Taken <= 2^MaxBits, NEW l \in 1..(MaxBits - 1)
    PROVE  NextCode[l] + CodesOfLength(l) <= 2^l
<1> DEFINE x == NextCode[l] + CodesOfLength(l)
           w == 2^(MaxBits - l)
           p == 2^l
<1>1. MaxBits \in Nat /\ MaxBits <= 15 /\ CodeCount \in Nat
  BY Sizes
<1>2. x \in Nat
  <2>1. l \in 0..MaxBits
    BY <1>1, SMT
  <2> QED BY <2>1, LengthsFinite, NextCodeIs
<1>3. w \in Positive /\ p \in Nat /\ 2^MaxBits = p * w
  <2>1. l \in 0..15 /\ MaxBits - l \in 0..15 /\ l + (MaxBits - l) = MaxBits /\ l + (MaxBits - l) <= 15
    BY <1>1, SMT
  <2> QED BY <2>1, PowersOfTwo, PowerOfSum DEF Positive
<1>4. SumOf(ShareBelow(l + 1), CodeCount) = x * w
  BY CodesTake
<1>5. SumOf(ShareBelow(l + 1), CodeCount) <= Taken
  <2> DEFINE f == ShareBelow(l + 1)
             g == [i \in 1..CodeCount |-> Share(length[i - 1])]
  <2>1. ASSUME NEW i \in 1..CodeCount PROVE f[i] \in Int /\ g[i] \in Int /\ f[i] <= g[i]
    <3>1. i - 1 \in Symbols
      BY SymbolFacts, SMT
    <3>2. Share(length[i - 1]) \in Nat
      BY <3>1, Shares DEF AlphabetInv
    <3> QED BY <3>2 DEF ShareBelow
  <2> HIDE DEF f, g
  <2>2. SumOf(f, CodeCount) <= SumOf(g, CodeCount)
    BY <1>1, <2>1, SumsGrow
  <2> QED BY <2>2 DEF Taken, f, g
<1>6. Taken \in Int
  BY TakenIsNumber
<1> HIDE DEF x, w, p
<1>7. x * w <= p * w
  <2>1. x * w \in Int /\ p * w \in Int
    BY <1>2, <1>3, SMT DEF Positive
  <2> QED BY <1>3, <1>4, <1>5, <1>6, <2>1
<1>8. ~(p < x)
  <2> SUFFICES ASSUME p < x PROVE FALSE
    OBVIOUS
  <2>1. w * p + w <= w * x /\ w \in Nat /\ w > 0
    BY <1>2, <1>3, Multiples DEF Positive
  <2>2. x * w = w * x /\ p * w = w * p /\ w * x \in Int /\ w * p \in Int
    BY <1>2, <1>3, <2>1, SMT
  <2> QED BY <1>7, <2>1, <2>2
<1>9. x <= p
  BY <1>2, <1>3, <1>8
<1> QED BY <1>9 DEF x, p

\* The codes of a greater length begin after those of a smaller one.
LEMMA CodesFollow ==
    ASSUME NEW l \in 1..(MaxBits - 1), NEW k \in 1..(MaxBits - 1), l < k
    PROVE  (NextCode[l] + CodesOfLength(l)) * 2^(k - l) <= NextCode[k]
<1> DEFINE x == NextCode[l] + CodesOfLength(l)
           Good(j) == x * 2^j <= NextCode[l + j]
           b == MaxBits - 2 - l
           S == {i \in 0..b : Good(i + 1)}
<1>1. MaxBits \in Nat /\ MaxBits >= 2 /\ MaxBits <= 15
  BY Sizes
<1>2. \A j \in 0..MaxBits : NextCode[j] \in Nat
  BY NextCodeIs
<1>3. \A j : CodesOfLength(j) \in Nat
  BY LengthsFinite
<1>4. x \in Nat
  <2>1. l \in 0..MaxBits
    BY <1>1, SMT
  <2> QED BY <1>2, <1>3, <2>1
<1>5. 0 \in S
  <2>1. l \in 1..(MaxBits - 2) /\ 0 + 1 = 1 /\ 2^1 = 2 /\ 0 \in 0..b
    BY <1>1, SMT
  <2>2. NextCode[l + 1] = 2 * x
    BY <2>1, NextCodeIs
  <2> HIDE DEF x
  <2>3. x * 2 <= 2 * x
    BY <1>4
  <2> QED BY <2>1, <2>2, <2>3
<1>6. ASSUME NEW i \in Nat, i < b, i \in S PROVE i + 1 \in S
  <2> DEFINE p == 2^(i + 1)
             n == NextCode[l + (i + 1)]
             c == CodesOfLength(l + (i + 1))
  <2>1. /\ i + 1 \in 0..15 /\ i + 1 < 15 /\ i + 1 \in 0..b
        /\ l + (i + 1) \in 1..(MaxBits - 2) /\ l + (i + 1) \in 0..MaxBits
        /\ (l + (i + 1)) + 1 = l + ((i + 1) + 1)
    BY <1>1, <1>6, SMT
  <2>2. p \in Nat /\ 2^((i + 1) + 1) = 2 * p
    BY <2>1, PowersOfTwo DEF Positive
  <2>3. NextCode[l + ((i + 1) + 1)] = 2 * (n + c) /\ n \in Nat /\ c \in Nat
    <3>1. NextCode[(l + (i + 1)) + 1] = 2 * (n + c)
      BY <2>1, NextCodeIs
    <3>2. n \in Nat /\ c \in Nat
      BY <1>2, <1>3, <2>1
    <3> QED BY <2>1, <3>1, <3>2
  <2>4. x * p <= n
    BY <1>6
  <2> HIDE DEF x, p, n, c
  <2>5. x * (2 * p) <= 2 * (n + c)
    <3>1. x * (2 * p) = 2 * (x * p) /\ x * p \in Nat
      BY <1>4, <2>2, SMT
    <3> QED BY <2>3, <2>4, <3>1
  <2>6. Good((i + 1) + 1)
    BY <2>2, <2>3, <2>5
  <2> QED BY <2>1, <2>6
<1>7. b \in Nat
  BY <1>1, SMT
<1> HIDE DEF S, b
<1>8. \A i \in 0..b : i \in S
  BY <1>5, <1>6, <1>7, Inherited
<1>9. k - l - 1 \in 0..b /\ (k - l - 1) + 1 = k - l /\ l + (k - l) = k
  BY <1>1, SMT DEF b
<1>10. Good(k - l)
  BY <1>8, <1>9 DEF S
<1> QED BY <1>9, <1>10

\* The code of a symbol as a number.
Value(s) == NextCode[length[s]] + Cardinality({t \in OfLength(length[s]) : t < s})

LEMMA Values ==
    ASSUME AlphabetInv, Taken <= 2^MaxBits,
           NEW s \in Symbols, length[s] > 0, length[s] < MaxBits
    PROVE  /\ length[s] \in 1..(MaxBits - 1) /\ Value(s) \in Nat
           /\ Value(s) >= NextCode[length[s]]
           /\ Value(s) < NextCode[length[s]] + CodesOfLength(length[s])
           /\ Value(s) < 2^length[s]
           /\ \A t \in Symbols : length[t] = length[s] /\ t < s => Value(t) < Value(s)
<1> DEFINE l == length[s]
           before(t) == {u \in OfLength(l) : u < t}
<1>1. l \in 1..(MaxBits - 1) /\ l \in 0..MaxBits /\ l \in 0..15
  <2>1. MaxBits \in Nat /\ MaxBits <= 15
    BY Sizes
  <2>2. l \in 0..MaxBits
    BY DEF AlphabetInv
  <2> QED BY <2>1, <2>2, SMT
<1>2. \A t : IsFiniteSet(before(t)) /\ Cardinality(before(t)) \in Nat
  BY LengthsFinite
<1>3. NextCode[l] \in Nat /\ CodesOfLength(l) \in Nat /\ IsFiniteSet(OfLength(l))
  BY <1>1, LengthsFinite, NextCodeIs
\* The symbols of a length before one are fewer than those before it and it.
<1>4. ASSUME NEW t \in OfLength(l), NEW T, IsFiniteSet(T), before(t) \subseteq T, t \in T
      PROVE  Cardinality(before(t)) < Cardinality(T)
  <2>1. before(t) # T
    <3>1. t \in Symbols /\ ~(t < t)
      BY SymbolFacts, SMT DEF OfLength
    <3> QED BY <1>4, <3>1
  <2> DEFINE B == before(t)
  <2>2. B \in SUBSET T /\ B # T
    BY <1>4, <2>1
  <2>3. Cardinality(B) \in Nat /\ Cardinality(T) \in Nat
    BY <1>2, <1>4, FS_CardinalityType
  <2> HIDE DEF B
  <2>4. Cardinality(B) <= Cardinality(T) /\ Cardinality(B) # Cardinality(T)
    BY <1>4, <2>2, <2>3, FS_Subset
  <2>5. Cardinality(B) < Cardinality(T)
    BY <2>3, <2>4
  <2> QED BY <2>5 DEF B
<1>5. s \in OfLength(l)
  BY DEF OfLength
<1>6. Cardinality(before(s)) < CodesOfLength(l)
  <2>1. before(s) \subseteq OfLength(l)
    OBVIOUS
  <2> HIDE DEF before
  <2> QED BY <1>3, <1>4, <1>5, <2>1 DEF CodesOfLength
<1>7. Value(s) = NextCode[l] + Cardinality(before(s))
  BY DEF Value
<1>8. ASSUME NEW t \in Symbols, length[t] = l, t < s PROVE Value(t) < Value(s)
  <2>1. t \in OfLength(l) /\ Value(t) = NextCode[l] + Cardinality(before(t))
    BY <1>8 DEF OfLength, Value
  <2>2. before(t) \subseteq before(s) /\ t \in before(s)
    <3>1. \A u \in OfLength(l) : u < t => u < s
      BY <1>8, SymbolFacts, SMT DEF OfLength
    <3> QED BY <1>8, <2>1, <3>1
  <2> HIDE DEF before
  <2>3. Cardinality(before(t)) < Cardinality(before(s))
    BY <1>2, <1>4, <2>1, <2>2
  <2> QED BY <1>2, <1>3, <1>7, <2>1, <2>3
<1> HIDE DEF before
<1>9. NextCode[l] + CodesOfLength(l) <= 2^l
  BY <1>1, CodesFit
<1>10. 2^l \in Nat
  BY <1>1, PowersOfTwo DEF Positive
<1> HIDE DEF l
<1>11. /\ Value(s) \in Nat /\ Value(s) >= NextCode[l]
       /\ Value(s) < NextCode[l] + CodesOfLength(l) /\ Value(s) < 2^l
  <2> DEFINE p == 2^l
  <2>1. p \in Nat /\ NextCode[l] + CodesOfLength(l) <= p
    BY <1>9, <1>10
  <2> HIDE DEF p
  <2>2. /\ Value(s) \in Nat /\ Value(s) >= NextCode[l]
        /\ Value(s) < NextCode[l] + CodesOfLength(l) /\ Value(s) < p
    BY <1>2, <1>3, <1>6, <1>7, <2>1
  <2> QED BY <2>2 DEF p
<1> QED BY <1>1, <1>8, <1>11 DEF l

LEMMA NoPrefix ==
    ASSUME AlphabetInv, Taken <= 2^MaxBits, \A s \in Symbols : length[s] < MaxBits,
           NEW s \in Symbols, NEW t \in Symbols, s # t, length[s] > 0, length[t] > 0,
           IsPrefix(Bitstring(s), Bitstring(t))
    PROVE  FALSE
<1> DEFINE a == length[s]
           b == length[t]
           d == b - a
           v == Value(s)
           w == Value(t)
<1>1. MaxBits \in Nat /\ MaxBits <= 15
  BY Sizes
<1>2. /\ a \in 1..(MaxBits - 1) /\ v \in Nat /\ v < 2^a /\ v < NextCode[a] + CodesOfLength(a)
      /\ b \in 1..(MaxBits - 1) /\ w \in Nat /\ w < 2^b /\ NextCode[b] <= w
  BY Values
<1>3. ASSUME NEW u \in Symbols, length[u] \in Nat
      PROVE  /\ Bitstring(u) = [i \in 1..length[u] |-> Bit(Value(u), length[u] - i)]
             /\ Len(Bitstring(u)) = length[u]
  <2>1. Bitstring(u) = [i \in 1..length[u] |-> Bit(Value(u), length[u] - i)]
    BY DEF Bitstring, Value
  <2> QED BY <1>3, <2>1
<1>4. a <= b /\ \A i \in 1..a : Bit(v, a - i) = Bit(w, b - i)
  <2>1. a \in Nat /\ b \in Nat
    BY <1>2
  <2> DEFINE p == Bitstring(s)
             q == Bitstring(t)
  <2>2. /\ Len(p) = a /\ Len(q) = b
        /\ p = [i \in 1..a |-> Bit(v, a - i)] /\ q = [i \in 1..b |-> Bit(w, b - i)]
    BY <1>3, <2>1
  <2>3. Len(p) <= Len(q) /\ SubSeq(p, 1, Len(p)) = SubSeq(q, 1, Len(p))
    BY DEF IsPrefix
  <2> HIDE DEF p, q, a, b, v, w
  <2>4. a <= b
    BY <2>2, <2>3
  <2>5. ASSUME NEW i \in 1..a PROVE Bit(v, a - i) = Bit(w, b - i)
    <3>1. i \in 1..b /\ i \in 1..((a - 1) + 1) /\ 1 + (i - 1) = i
      BY <2>1, <2>4
    <3>2. p[i] = q[i]
      <4>1. SubSeq(p, 1, a) = [j \in 1..(a - 1 + 1) |-> p[1 + j - 1]]
        BY <2>1
      <4>2. SubSeq(q, 1, a) = [j \in 1..(a - 1 + 1) |-> q[1 + j - 1]]
        BY <2>1
      <4>3. i \in 1..(a - 1 + 1) /\ 1 + i - 1 = i
        BY <2>1
      <4>4. SubSeq(p, 1, a)[i] = p[i] /\ SubSeq(q, 1, a)[i] = q[i]
        BY <4>1, <4>2, <4>3
      <4> QED BY <2>2, <2>3, <4>4
    <3> QED BY <2>2, <3>1, <3>2
  <2> QED BY <2>4, <2>5
\* What is in the higher bits of the longer code is the shorter one.
<1>5. d \in 0..15 /\ a \in 0..15 /\ b \in 0..15 /\ a + d = b /\ a + d <= 15 /\ b - a = d
  BY <1>1, <1>2, <1>4, SMT
<1>6. 2^d \in Positive /\ 2^b = 2^a * 2^d /\ 2^a \in Nat
  BY <1>5, PowersOfTwo, PowerOfSum DEF Positive
<1> HIDE DEF d, v, w
<1>7. w \div 2^d = v
  <2> DEFINE u == w \div 2^d
  <2>1. u \in Nat /\ u < 2^a
    <3> DEFINE p == 2^d
               q == 2^a
    <3>1. p \in Positive /\ q \in Nat /\ w < p * q
      <4>1. p * q = q * p
        BY <1>6, SMT DEF Positive
      <4> QED BY <1>2, <1>6, <4>1
    <3> HIDE DEF p, q
    <3>2. w \div p \in Nat /\ w \div p < q
      <4>1. w \div p < q
        BY <1>2, <3>1, QuotientBounds
      <4>2. w \div p \in Nat
        BY <1>2, <3>1, SMT DEF Positive
      <4> QED BY <4>1, <4>2
    <3> QED BY <3>2 DEF p, q
  <2>2. ASSUME NEW j \in 0..(a - 1) PROVE Bit(u, j) = Bit(v, j)
    <3>1. a - j \in 1..a /\ a - (a - j) = j /\ b - (a - j) = j + d /\ j \in 0..15 /\ j + d <= 15
      BY <1>5, SMT
    <3>2. Bit(v, a - (a - j)) = Bit(w, b - (a - j))
      BY <1>4, <3>1
    <3>3. Bit(w, j + d) = Bit(u, j)
      BY <1>2, <1>5, <3>1, BitOfQuotient
    <3> QED BY <3>1, <3>2, <3>3
  <2> HIDE DEF u, a
  <2>3. u = v
    BY <1>2, <1>5, <2>1, <2>2, BitsDetermine
  <2> QED BY <2>3 DEF u
<1>8. CASE d = 0
  <2>1. w = v /\ a = b
    <3>1. 2^0 = 1 /\ w \div 1 = w
      BY <1>2, SMT
    <3> QED BY <1>5, <1>7, <1>8, <3>1
  <2>2. s < t \/ t < s
    BY SymbolFacts, SMT
  <2>3. Value(s) < Value(t) \/ Value(t) < Value(s)
    BY <2>1, <2>2, Values
  <2> QED BY <1>2, <2>1, <2>3 DEF v, w
<1>9. CASE d # 0
  <2>1. a < b
    BY <1>5, <1>9, SMT
  <2> DEFINE x == NextCode[a] + CodesOfLength(a)
             p == 2^d
  <2>2. x * p <= NextCode[b]
    BY <1>2, <2>1, CodesFollow DEF d
  <2>3. x \in Nat /\ NextCode[b] \in Nat
    <3>1. a \in 0..MaxBits /\ b \in 0..MaxBits
      BY <1>1, <1>2, SMT
    <3> QED BY <3>1, NextCodeIs, LengthsFinite
  <2>4. p \in Positive /\ v < x /\ w \div p = v /\ NextCode[b] <= w /\ w \in Nat /\ v \in Nat
    BY <1>2, <1>6, <1>7
  <2> HIDE DEF x, p
  <2>5. p * x <= w
    <3>1. p * x = x * p /\ x * p \in Nat
      BY <2>3, <2>4, SMT DEF Positive
    <3> QED BY <2>2, <2>3, <2>4, <3>1
  <2>6. x <= w \div p
    BY <2>3, <2>4, <2>5, QuotientBounds
  <2> QED BY <2>3, <2>4, <2>6
<1> QED BY <1>8, <1>9

-----------------------------------------------------------------------------
(* The codes are those of the format.                                      *)

\* The lengths as a decoder gets them.
Lengths == [i \in 1..CodeCount |-> length[i - 1]]

\* How many codes as long as l the shorter ones take up is the first one that
\* the encoder gives to length l.
LEMMA ShorterTake ==
    ASSUME AlphabetInv, NEW l \in 1..(MaxBits - 1), NEW f,
           f = [j \in 1..CodeCount |-> IF Lengths[j] \in 1..(l - 1) THEN 2^(l - Lengths[j]) ELSE 0]
    PROVE  /\ \A j \in 1..CodeCount : f[j] \in Int
           /\ SumOf(f, CodeCount) = NextCode[l]
<1> DEFINE c == 2^(MaxBits - l)
           h == ShareBelow(l)
<1>1. /\ MaxBits \in Nat /\ MaxBits <= 15 /\ CodeCount \in Nat
      /\ MaxBits - l \in 0..15 /\ l \in 0..MaxBits /\ NextCode[l] \in Nat
      /\ \A j \in 1..CodeCount : Lengths[j] = length[j - 1] /\ Lengths[j] \in 0..MaxBits
  <2>1. /\ MaxBits \in Nat /\ MaxBits <= 15 /\ CodeCount \in Nat
        /\ MaxBits - l \in 0..15 /\ l \in 0..MaxBits
    BY Sizes, SymbolFacts, SMT
  <2>2. \A j \in 1..CodeCount : j - 1 \in Symbols
    BY SymbolFacts, SMT
  <2> QED BY <2>1, <2>2, NextCodeIs DEF Lengths, AlphabetInv
<1>2. c \in Positive
  BY <1>1, PowersOfTwo
<1> HIDE DEF c
<1>3. ASSUME NEW j \in 1..CodeCount
      PROVE  f[j] \in Int /\ h[j] = f[j] * c
  <2> DEFINE k == Lengths[j]
  <2>1. /\ f[j] = (IF k \in 1..(l - 1) THEN 2^(l - k) ELSE 0)
        /\ h[j] = (IF k \in 1..(l - 1) THEN Share(k) ELSE 0)
    BY <1>1 DEF ShareBelow
  <2>2. CASE k \in 1..(l - 1)
    <3>1. /\ l - k \in 0..15 /\ (l - k) + (MaxBits - l) = MaxBits - k /\ (l - k) + (MaxBits - l) <= 15
          /\ k # 0
      <4>1. MaxBits \in Nat /\ MaxBits <= 15 /\ k \in 1..(l - 1) /\ l \in 1..(MaxBits - 1)
        BY <1>1, <2>2
      <4> HIDE DEF k
      <4> QED BY <4>1, SMT
    <3>2. 2^(MaxBits - k) = 2^(l - k) * c
      BY <1>1, <3>1, PowerOfSum DEF c
    <3>3. 2^(l - k) \in Int
      BY <3>1, PowersOfTwo DEF Positive
    <3> QED BY <2>1, <2>2, <3>1, <3>2, <3>3 DEF Share
  <2>3. CASE k \notin 1..(l - 1)
    <3>1. 0 * c = 0
      BY <1>2, SMT DEF Positive
    <3> QED BY <2>1, <2>3, <3>1
  <2> QED BY <2>2, <2>3
<1> HIDE DEF h
<1>4. SumOf(f, CodeCount) \in Int /\ SumOf(h, CodeCount) = SumOf(f, CodeCount) * c
  <2>1. c \in Int
    BY <1>2 DEF Positive
  <2> QED BY <1>1, <1>3, <2>1, SumOfProducts
<1>5. SumOf(h, CodeCount) = NextCode[l] * c
  BY CodesTake DEF h, c
<1> DEFINE a == SumOf(f, CodeCount)
           b == NextCode[l]
<1>6. a \in Int /\ b \in Int /\ a * c = b * c
  BY <1>1, <1>4, <1>5
<1> HIDE DEF a, b
<1>7. a = b
  <2>1. c * a = a * c /\ c * b = b * c /\ c \in Int /\ c > 0 /\ c * a \in Int /\ c * b \in Int
    BY <1>2, <1>6, SMT DEF Positive
  <2>2. ~(a < b)
    <3>1. a < b => c * a + c <= c * b
      BY <1>2, <1>6, Multiples
    <3> QED BY <1>6, <2>1, <3>1
  <2>3. ~(b < a)
    <3>1. b < a => c * b + c <= c * a
      BY <1>2, <1>6, Multiples
    <3> QED BY <1>6, <2>1, <3>1
  <2> QED BY <1>6, <2>2, <2>3
<1> QED BY <1>3, <1>7 DEF a, b

\* The code that the encoder gives a symbol is the one the format asks for.
LEMMA CodeIsCanonical ==
    ASSUME AlphabetInv, NEW s \in Symbols, length[s] < MaxBits
    PROVE  Bitstring(s) = CanonicalCode(Lengths, s + 1)
<1> DEFINE l == length[s]
           n == CodeCount
           h == [j \in 1..Len(Lengths) |->
                    IF Lengths[j] \in 1..(Lengths[s + 1] - 1) THEN 2^(Lengths[s + 1] - Lengths[j])
                    ELSE IF Lengths[j] = Lengths[s + 1] /\ j < s + 1 THEN 1 ELSE 0]
           v == SumOf(h, Len(Lengths))
           T == {t \in OfLength(l) : t < s}
<1>1. /\ n \in Nat /\ s \in Nat /\ s + 1 \in 1..n /\ l \in 0..(MaxBits - 1) /\ MaxBits \in Nat
      /\ \A j \in 1..n : j - 1 \in Symbols
      /\ Len(Lengths) = n
  <2>1. /\ n \in Nat /\ s \in Nat /\ s + 1 \in 1..n /\ MaxBits \in Nat
        /\ \A j \in 1..n : j - 1 \in Symbols
    BY Sizes, SymbolFacts, SMT
  <2>2. l \in 0..MaxBits
    BY DEF AlphabetInv
  <2>3. Len(Lengths) = n
    BY <2>1 DEF Lengths
  <2> QED BY <2>1, <2>2, <2>3, SMT
<1>2. Lengths[s + 1] = l /\ \A j \in 1..n : Lengths[j] = length[j - 1]
  BY <1>1, SMT DEF Lengths
<1>3. /\ Bitstring(s) = [b \in 1..l |-> Bit(Value(s), l - b)]
      /\ CanonicalCode(Lengths, s + 1) = [b \in 1..l |-> (v \div 2^(l - b)) % 2]
  BY <1>2 DEF Bitstring, Value, CanonicalCode
<1>4. CASE l = 0
  <2>1. 1..l = {}
    BY <1>4
  <2> QED BY <1>3, <2>1
<1>5. CASE l # 0
  <2>1. l \in 1..(MaxBits - 1)
    BY <1>1, <1>5
  <2> DEFINE f == [j \in 1..n |-> IF Lengths[j] \in 1..(l - 1) THEN 2^(l - Lengths[j]) ELSE 0]
             g == [j \in 1..n |-> IF j - 1 \in T THEN 1 ELSE 0]
  <2>2. (\A j \in 1..n : f[j] \in Int) /\ SumOf(f, n) = NextCode[l]
    <3> HIDE DEF l
    <3> QED BY <2>1, ShorterTake
  <2>3. Cardinality(T) \in Nat /\ SumOf(g, n) = Cardinality(T)
    <3> DEFINE U == T
    <3>1. U \subseteq 0..(n - 1)
      BY SymbolFacts DEF OfLength
    <3> HIDE DEF U
    <3>2. \A j \in 1..n : g[j] = IF j - 1 \in U THEN 1 ELSE 0
      BY DEF U
    <3> HIDE DEF g, n, T
    <3>5. 1 \in Int
      OBVIOUS
    <3>3. Cardinality(U) \in Nat /\ SumOf(g, n) = 1 * Cardinality(U)
      BY <1>1, <3>1, <3>2, <3>5, SumOfSame, ZenonT(30)
    <3>4. SumOf(g, n) = Cardinality(U)
      BY <3>3
    <3> QED BY <3>3, <3>4 DEF U
  <2>4. ASSUME NEW j \in 1..n PROVE g[j] \in Int /\ h[j] = f[j] + g[j]
    <3>1. /\ h[j] = IF Lengths[j] \in 1..(l - 1) THEN 2^(l - Lengths[j])
                    ELSE IF Lengths[j] = l /\ j < s + 1 THEN 1 ELSE 0
          /\ f[j] = IF Lengths[j] \in 1..(l - 1) THEN 2^(l - Lengths[j]) ELSE 0
          /\ g[j] = IF j - 1 \in T THEN 1 ELSE 0
      BY <1>1, <1>2
    <3>2. j - 1 \in T <=> Lengths[j] = l /\ j < s + 1
      <4>1. (j - 1 < s) <=> (j < s + 1)
        BY <1>1, SMT
      <4> QED BY <1>1, <1>2, <4>1 DEF OfLength
    <3>3. Lengths[j] = l => Lengths[j] \notin 1..(l - 1)
      BY <2>1, SMT
    <3>4. f[j] \in Int /\ g[j] \in Int
      BY <2>2
    <3> HIDE DEF f, g, h, T, l
    <3> QED BY <3>1, <3>2, <3>3, <3>4
  <2>5. v = NextCode[l] + Cardinality(T)
    <3> HIDE DEF f, g, h, n, T, l
    <3>1. SumOf(h, n) = SumOf(f, n) + SumOf(g, n)
      BY <1>1, <2>2, <2>4, SumOfSums
    <3> QED BY <1>1, <2>2, <2>3, <3>1
  <2>6. v = Value(s) /\ v \in Nat
    <3>1. NextCode[l] \in Nat
      <4>1. l \in 0..MaxBits
        BY <1>1, SMT
      <4> QED BY <4>1, NextCodeIs
    <3> HIDE DEF v
    <3> QED BY <2>3, <2>5, <3>1 DEF Value
  <2> HIDE DEF v
  <2>7. ASSUME NEW b \in 1..l PROVE Bit(v, l - b) = (v \div 2^(l - b)) % 2
    <3>1. l - b \in 0..15
      <4>1. MaxBits \in Nat /\ MaxBits <= 15 /\ l \in 1..(MaxBits - 1) /\ b \in 1..l
        BY <2>1, Sizes
      <4> HIDE DEF l
      <4> QED BY <4>1, SMT
    <3> DEFINE p == 2^(l - b)
    <3>2. p \in Positive
      BY <3>1, PowersOfTwo
    <3> HIDE DEF p
    <3>3. v \div p \in Int
      BY <2>6, <3>2, Division
    <3>4. (v \div p) % 2 \in {0, 1}
      BY <3>3, SMT
    <3>5. Bit(v, l - b) = IF (v \div p) % 2 = 0 THEN 0 ELSE 1
      BY DEF Bit, p
    <3>6. Bit(v, l - b) = (v \div p) % 2
      BY <3>4, <3>5
    <3> QED BY <3>6 DEF p
  <2> HIDE DEF l
  <2> QED BY <1>3, <2>6, <2>7
<1> QED BY <1>4, <1>5

-----------------------------------------------------------------------------
(* The invariant, and what follows from it.                                *)

LEMMA BitstringsNext ==
    ASSUME LoopInv, AlphabetInv, LengthInv, PrefixFree, CodesCanonical, Next
    PROVE  PrefixFree' /\ CodesCanonical'
<1>1. CASE AssignBitstrings
  <2>1. /\ stage = "balance" /\ tooLong <= 0 /\ UNCHANGED length
        /\ codes' = [s \in Symbols |-> Bitstring(s)]
    BY <1>1 DEF AssignBitstrings, balance
  <2>2. CodesCanonical'
    <3> SUFFICES ASSUME \A s \in Symbols : length[s] < MaxBits, NEW s \in Symbols
                 PROVE  Bitstring(s) = CanonicalCode(Lengths, s + 1)
      BY <2>1 DEF CodesCanonical, Lengths
    <3> QED BY CodeIsCanonical
  <2>3. PrefixFree'
    <3>1. SUFFICES ASSUME \A s \in Symbols : length[s] < MaxBits,
                          NEW s \in Symbols, NEW t \in Symbols, s # t, length[s] > 0, length[t] > 0
                   PROVE  ~IsPrefix(Bitstring(s), Bitstring(t))
      BY <2>1 DEF PrefixFree, NoneIsPrefix
    <3>2. tooLong \in Int /\ Taken <= 2^MaxBits + tooLong
      BY <2>1, <3>1 DEF LengthInv
    <3>3. Taken <= 2^MaxBits
      BY <2>1, <3>2, TakenIsNumber, Portions
    <3> QED BY <3>1, <3>3, NoPrefix
  <2> QED BY <2>2, <2>3
<1>2. CASE DeflateInit \/ CreateAlphabet \/ InsertLeaf \/ Combine \/ MeasureLengths \/ Balance
  BY <1>2 DEF DeflateInit, CreateAlphabet, StartTree, InsertLeaf, Combine, MeasureLengths,
              Balance, PrefixFree, CodesCanonical
<1>3. CASE DescribeLengths \/ DescribeDistances \/ StartBlock \/ WriteCode
  BY <1>3 DEF DescribeLengths, DescribeDistances, StartBlock, WriteCode, PrefixFree,
              CodesCanonical
<1>4. CASE DeflateCompress \/ CompressReturn \/ EndBlock
  BY <1>4 DEF DeflateCompress, CompressReturn, EndBlock, PrefixFree, CodesCanonical
<1>5. CASE CompressRepeat \/ CompressCached \/ CompressWord
  BY <1>5 DEF CompressRepeat, CompressCached, CompressWord, Iterating, huffmanVars, PrefixFree,
              CodesCanonical
<1> QED BY <1>1, <1>2, <1>3, <1>4, <1>5 DEF Next, HuffmanStep

CodeInv == DeflateInv /\ ForestInv /\ LengthInv /\ PrefixFree /\ CodesCanonical

LEMMA CodeInit == Init => CodeInv
BY InvInit DEF Init, CodeInv, ForestInv, LengthInv, PrefixFree, CodesCanonical

LEMMA CodeNext == CodeInv /\ [Next]_vars => CodeInv'
<1> SUFFICES ASSUME CodeInv, [Next]_vars PROVE CodeInv'
  OBVIOUS
<1>1. DeflateInv'
  BY InvNext DEF CodeInv
<1>2. CASE Next
  BY <1>1, <1>2, ForestNext, LengthsNext, BitstringsNext DEF CodeInv, DeflateInv
<1>3. CASE UNCHANGED vars
  <2>1. UNCHANGED <<stage, weight, parent, heap, tooLong, at, longest, length, codes>>
    BY <1>3 DEF vars, huffmanVars, tree, balance
  <2>2. ForestInv'
    BY <2>1 DEF CodeInv, ForestInv, Nodes, AreChildren
  <2>3. LengthInv' /\ PrefixFree' /\ CodesCanonical'
    BY <2>1 DEF CodeInv, LengthInv, Taken, Used, PrefixFree, NoneIsPrefix, CodesCanonical
  <2> QED BY <1>1, <2>2, <2>3 DEF CodeInv
<1> QED BY <1>2, <1>3

\* CodeInv is inductive: the heap is in order and holds the roots of a forest
\* of binary trees, from which the lengths come, and what they take up is
\* balanced against the codes cut off (calculate_lengths_from_counts).
THEOREM CodesAreSafe == Spec => []CodeInv
<1> QED BY CodeInit, CodeNext, PTL DEF Spec

\* For all counts in which symbol 0 occurs, as deflate_init sees to: once the
\* loop that balances the lengths ends they make up for all codes that had to
\* be cut, so that there is a prefix code of these lengths.  Of other counts
\* this says nothing: the loop may then lengthen symbol 0, which has no code
\* (calculate_lengths_from_counts).
THEOREM KraftIsKept == Spec => []KraftHolds
<1>1. ASSUME CodeInv PROVE KraftHolds
  <2> SUFFICES ASSUME stage = "created", 0 \in Used PROVE Taken <= 2^MaxBits
    BY DEF KraftHolds
  <2>1. tooLong \in Int /\ Taken <= 2^MaxBits + tooLong /\ tooLong <= 0
    BY <1>1 DEF CodeInv, LengthInv
  <2>2. Taken \in Int /\ 2^MaxBits \in Nat
    BY <1>1, TakenIsNumber, Portions DEF CodeInv, DeflateInv
  <2> QED BY <2>1, <2>2
<1> QED BY <1>1, CodesAreSafe, PTL

\* No code begins another, whatever the counts are and in whatever order equal
\* weights come out of the heap, if none has the greatest length
\* (huffman_create_alphabet).
THEOREM CodesArePrefixFree == Spec => []PrefixFree
<1>1. ASSUME CodeInv PROVE PrefixFree
  BY <1>1 DEF CodeInv
<1> QED BY <1>1, CodesAreSafe, PTL

\* Whatever the counts are, the codes are those that a decoder takes from the
\* lengths, if none has the greatest length (assign_bitstrings_to_symbols).
THEOREM CodesAreCanonical == Spec => []CodesCanonical
<1>1. ASSUME CodeInv PROVE CodesCanonical
  BY <1>1 DEF CodeInv
<1> QED BY <1>1, CodesAreSafe, PTL

\* The trees that Combine puts together are the lightest, whatever has been
\* inserted and removed before, and even if their weights wrap around: the heap
\* stays in order (heap_insert, heap_remove).
THEOREM LightestAreCombined == Spec => LightestCombined
<1> DEFINE Step == stage = "combine" /\ stage' = "combine" =>
                      \A i, j \in DOMAIN heap :
                          parent'[heap[i]] # NoNode /\ parent'[heap[j]] = NoNode =>
                              weight[heap[i]] <= weight[heap[j]]
<1>1. ASSUME CodeInv, [Next]_vars PROVE [Step]_huffmanVars
  <2> SUFFICES ASSUME Next, stage = "combine", stage' = "combine",
                      NEW i \in DOMAIN heap, NEW j \in DOMAIN heap,
                      parent'[heap[i]] # NoNode, parent'[heap[j]] = NoNode,
                      UNCHANGED huffmanVars => FALSE
               PROVE  weight[heap[i]] <= weight[heap[j]]
    <3>1. CASE Next
      BY <3>1
    <3>2. CASE UNCHANGED vars
      BY <3>2 DEF vars
    <3> QED BY <1>1, <3>1, <3>2
  <2>1. /\ Distinct(heap) /\ Ordered(weight, heap, 1)
        /\ \A n \in Entries(heap) : parent[n] = NoNode
    BY <1>1 DEF CodeInv, ForestInv
  <2>2. TreeInv
    BY <1>1 DEF CodeInv, DeflateInv
  <2>3. heap[i] \in Entries(heap) /\ heap[j] \in Entries(heap)
    BY DEF Entries
  <2>4. CASE Combine
    <3>1. PICK m \in Nat, a \in Entries(heap), b \in Entries(heap) :
            /\ Entries(heap) \subseteq 0..(m - 1)
            /\ parent' = [n \in 0..m |-> CASE n = m -> NoNode
                                           [] n \in {a, b} -> m
                                           [] OTHER -> parent[n]]
            /\ \A n \in Entries(heap) \ {a, b} : weight[a] <= weight[n] /\ weight[b] <= weight[n]
      BY <2>1, <2>2, <2>4, CombineDoes
    <3>2. \A n \in Entries(heap) : n \in 0..m /\ n # m
      BY <3>1, SMT
    <3>3. m # NoNode
      BY SMT DEF NoNode
    <3>4. \A n \in Entries(heap) : parent'[n] = IF n \in {a, b} THEN m ELSE parent[n]
      BY <3>1, <3>2
    <3>5. heap[i] \in {a, b} /\ heap[j] \notin {a, b}
      BY <2>1, <2>3, <3>3, <3>4
    <3> QED BY <2>3, <3>1, <3>5
  <2>5. CASE InsertLeaf \/ MeasureLengths \/ Balance \/ AssignBitstrings
             \/ DescribeLengths \/ DescribeDistances
    BY <2>5 DEF InsertLeaf, MeasureLengths, Balance, AssignBitstrings, DescribeLengths,
                DescribeDistances
  <2>6. CASE DeflateInit \/ CreateAlphabet \/ StartBlock \/ WriteCode \/ DeflateCompress
             \/ CompressReturn \/ EndBlock \/ CompressRepeat \/ CompressCached \/ CompressWord
    BY <2>6 DEF DeflateInit, CreateAlphabet, StartBlock, WriteCode, DeflateCompress,
                CompressReturn, EndBlock, CompressRepeat, CompressCached, CompressWord, Iterating
  <2> QED BY <2>4, <2>5, <2>6 DEF Next, HuffmanStep
<1> QED BY <1>1, CodesAreSafe, PTL DEF Spec, LightestCombined

-----------------------------------------------------------------------------
(* The symbols for the lengths of repetitions.                             *)

\* Symbol s of the format stands for the length n, given what is taken off it.
Agrees(n, s, first, extra) ==
    /\ extra = LengthExtra[s]
    /\ n - LengthBase[s] = (n - first) % 2^extra

\* From symbol i on, k symbols stand for p lengths each, from b on.
Follow(i, k, b, p, e) ==
    \A q \in 0..(k - 1) : LengthExtra[i + q] = e /\ LengthBase[i + q] = b + q * p

\* The symbols of a branch follow each other in the tables: each stands for p
\* lengths, and there are k.
LEMMA BranchAgrees ==
    ASSUME NEW b \in Nat, NEW i \in Nat, NEW e \in 0..5, NEW k \in Nat, NEW p \in Positive, p = 2^e,
           NEW n \in Nat, n >= b, n < b + k * p,
           Follow(i, k, b, p, e)
    PROVE  Agrees(n, i + (n - b) \div p, b, e) /\ i + (n - b) \div p \in Nat
<1> DEFINE d == n - b
           q == d \div p
           r == d % p
<1>1. d \in Nat /\ d < k * p
  BY DEF Positive
<1> HIDE DEF d
<1>2. d = p * q + r /\ r \in 0..(p - 1) /\ q \in Nat
  <2>1. /\ p \in Int /\ p > 0 /\ d \in Int /\ p * q \in Int /\ q \in Int /\ r \in Int
        /\ 0 <= r /\ r < p /\ d = p * q + r
    <3>1. d \in Int
      BY <1>1
    <3> QED BY <3>1, Division
  <2>2. q \in Nat
    <3>1. 0 <= q
      <4>1. p * 0 <= d /\ 0 \in Int
        BY <1>1, <2>1
      <4> QED BY <2>1, <4>1, QuotientBounds
    <3> QED BY <2>1, <3>1
  <2> HIDE DEF q, r
  <2>3. r \in 0..(p - 1)
    BY <2>1
  <2> QED BY <2>1, <2>2, <2>3
<1>3. q < k
  <2>1. p * k = k * p
    BY SMT DEF Positive
  <2>2. d < p * k
    BY <1>1, <2>1
  <2> QED BY <1>1, <2>2, QuotientBounds
<1> HIDE DEF q, r
<1>4. LengthExtra[i + q] = e /\ LengthBase[i + q] = b + q * p
  <2>1. q \in 0..(k - 1)
    BY <1>2, <1>3, SMT
  <2> QED BY <2>1 DEF Follow
<1>5. n - LengthBase[i + q] = r
  <2>1. p * q = q * p /\ p * q \in Nat /\ r \in Nat
    BY <1>2, SMT DEF Positive
  <2>2. n = b + d
    BY <1>1 DEF d
  <2> QED BY <1>2, <1>4, <2>1, <2>2, SMT
<1>6. i + q \in Nat
  BY <1>2
<1> QED BY <1>4, <1>5, <1>6 DEF Agrees, q, r, d

LEMMA TablesAgree ==
    ASSUME NEW n \in 3..257
    PROVE  /\ Agrees(n, Branch(n)[2] + (n - Branch(n)[1]) \div 2^Branch(n)[3], Branch(n)[1], Branch(n)[3])
           /\ Branch(n)[2] + (n - Branch(n)[1]) \div 2^Branch(n)[3] \in Nat
           /\ Branch(n)[2] \in Nat /\ (n - Branch(n)[1]) \div 2^Branch(n)[3] \in Int
<1>1. 2^0 = 1 /\ 2^1 = 2 /\ 2^2 = 4 /\ 2^3 = 8 /\ 2^4 = 16 /\ 2^5 = 32
  OBVIOUS
<1>2. CASE n < 11
  <2>1. Follow(1, 8, 3, 1, 0)
    BY DEF Follow, LengthExtra, LengthBase
  <2>2. n \notin 11..18 /\ n \notin 19..34 /\ n \notin 35..66 /\ n \notin 67..130 /\ ~(n > 130)
    BY <1>2
  <2>3. Branch(n) = <<3, 1, 0>>
    BY <1>2, <2>2 DEF Branch
  <2>4. /\ n \in Nat /\ n >= 3 /\ n < 3 + 8 * 1 /\ 1 \in Positive /\ 1 = 2^0
        /\ 3 \in Nat /\ 1 \in Nat /\ 0 \in 0..5 /\ 8 \in Nat
    BY <1>2, <1>1 DEF Positive
  <2>5. Agrees(n, 1 + (n - 3) \div 1, 3, 0) /\ 1 + (n - 3) \div 1 \in Nat
    BY <2>1, <2>4, BranchAgrees, ZenonT(30)
  <2> QED BY <1>1, <2>3, <2>5
<1>3. CASE n \in 11..18
  <2>1. Follow(9, 4, 11, 2, 1)
    BY DEF Follow, LengthExtra, LengthBase
  <2>2. ~(n < 11) /\ n \notin 19..34 /\ n \notin 35..66 /\ n \notin 67..130 /\ ~(n > 130)
    BY <1>3
  <2>3. Branch(n) = <<11, 9, 1>>
    BY <1>3, <2>2 DEF Branch
  <2>4. /\ n \in Nat /\ n >= 11 /\ n < 11 + 4 * 2 /\ 2 \in Positive /\ 2 = 2^1
        /\ 11 \in Nat /\ 9 \in Nat /\ 1 \in 0..5 /\ 4 \in Nat
    BY <1>3, <1>1 DEF Positive
  <2>5. Agrees(n, 9 + (n - 11) \div 2, 11, 1) /\ 9 + (n - 11) \div 2 \in Nat
    BY <2>1, <2>4, BranchAgrees, ZenonT(30)
  <2> QED BY <1>1, <2>3, <2>5
<1>4. CASE n \in 19..34
  <2>1. Follow(13, 4, 19, 4, 2)
    BY DEF Follow, LengthExtra, LengthBase
  <2>2. ~(n < 11) /\ n \notin 11..18 /\ n \notin 35..66 /\ n \notin 67..130 /\ ~(n > 130)
    BY <1>4
  <2>3. Branch(n) = <<19, 13, 2>>
    BY <1>4, <2>2 DEF Branch
  <2>4. /\ n \in Nat /\ n >= 19 /\ n < 19 + 4 * 4 /\ 4 \in Positive /\ 4 = 2^2
        /\ 19 \in Nat /\ 13 \in Nat /\ 2 \in 0..5 /\ 4 \in Nat
    BY <1>4, <1>1 DEF Positive
  <2>5. Agrees(n, 13 + (n - 19) \div 4, 19, 2) /\ 13 + (n - 19) \div 4 \in Nat
    BY <2>1, <2>4, BranchAgrees, ZenonT(30)
  <2> QED BY <1>1, <2>3, <2>5
<1>5. CASE n \in 35..66
  <2>1. Follow(17, 4, 35, 8, 3)
    BY DEF Follow, LengthExtra, LengthBase
  <2>2. ~(n < 11) /\ n \notin 11..18 /\ n \notin 19..34 /\ n \notin 67..130 /\ ~(n > 130)
    BY <1>5
  <2>3. Branch(n) = <<35, 17, 3>>
    BY <1>5, <2>2 DEF Branch
  <2>4. /\ n \in Nat /\ n >= 35 /\ n < 35 + 4 * 8 /\ 8 \in Positive /\ 8 = 2^3
        /\ 35 \in Nat /\ 17 \in Nat /\ 3 \in 0..5 /\ 4 \in Nat
    BY <1>5, <1>1 DEF Positive
  <2>5. Agrees(n, 17 + (n - 35) \div 8, 35, 3) /\ 17 + (n - 35) \div 8 \in Nat
    BY <2>1, <2>4, BranchAgrees, ZenonT(30)
  <2> QED BY <1>1, <2>3, <2>5
<1>6. CASE n \in 67..130
  <2>1. Follow(21, 4, 67, 16, 4)
    BY DEF Follow, LengthExtra, LengthBase
  <2>2. ~(n < 11) /\ n \notin 11..18 /\ n \notin 19..34 /\ n \notin 35..66 /\ ~(n > 130)
    BY <1>6
  <2>3. Branch(n) = <<67, 21, 4>>
    BY <1>6, <2>2 DEF Branch
  <2>4. /\ n \in Nat /\ n >= 67 /\ n < 67 + 4 * 16 /\ 16 \in Positive /\ 16 = 2^4
        /\ 67 \in Nat /\ 21 \in Nat /\ 4 \in 0..5 /\ 4 \in Nat
    BY <1>6, <1>1 DEF Positive
  <2>5. Agrees(n, 21 + (n - 67) \div 16, 67, 4) /\ 21 + (n - 67) \div 16 \in Nat
    BY <2>1, <2>4, BranchAgrees, ZenonT(30)
  <2> QED BY <1>1, <2>3, <2>5
<1>7. CASE n > 130
  <2>1. Follow(25, 4, 131, 32, 5)
    BY DEF Follow, LengthExtra, LengthBase
  <2>2. ~(n < 11) /\ n \notin 11..18 /\ n \notin 19..34 /\ n \notin 35..66 /\ n \notin 67..130
    BY <1>7
  <2>3. Branch(n) = <<131, 25, 5>>
    BY <1>7, <2>2 DEF Branch
  <2>4. /\ n \in Nat /\ n >= 131 /\ n < 131 + 4 * 32 /\ 32 \in Positive /\ 32 = 2^5
        /\ 131 \in Nat /\ 25 \in Nat /\ 5 \in 0..5 /\ 4 \in Nat
    BY <1>7, <1>1 DEF Positive
  <2>5. Agrees(n, 25 + (n - 131) \div 32, 131, 5) /\ 25 + (n - 131) \div 32 \in Nat
    BY <2>1, <2>4, BranchAgrees, ZenonT(90)
  <2> QED BY <1>1, <2>3, <2>5
<1> QED BY <1>2, <1>3, <1>4, <1>5, <1>6, <1>7

\* The length symbols and extra bits of repeat_length_code mean, by the tables
\* of the format, the length that was asked for, whatever the literals are.
THEOREM LengthsAreCoded == Spec => []LengthCodesAgree
<1>1. LengthCodesAgree
  <2> SUFFICES ASSUME NEW n \in 3..257
               PROVE  LET s == LengthIndex(n) - Literals
                      IN  /\ Branch(n)[3] = LengthExtra[s]
                          /\ n - LengthBase[s] = (n - Branch(n)[1]) % 2^Branch(n)[3]
    BY DEF LengthCodesAgree
  <2> DEFINE s == Branch(n)[2] + (n - Branch(n)[1]) \div 2^Branch(n)[3]
  <2>1. Agrees(n, s, Branch(n)[1], Branch(n)[3])
    BY TablesAgree, Zenon
  <2>2. Branch(n)[2] \in Nat /\ (n - Branch(n)[1]) \div 2^Branch(n)[3] \in Int
    BY TablesAgree, Zenon
  <2>3. LengthIndex(n) - Literals = s
    BY <2>2, SymbolFacts DEF LengthIndex
  <2> QED BY <2>1, <2>3 DEF Agrees
<1> QED BY <1>1, PTL
=============================================================================
