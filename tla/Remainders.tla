----------------------------- MODULE Remainders -----------------------------
(***************************************************************************)
(* Lemmas on division by any positive number, which SMT does not find by   *)
(* itself: for the positions of rings, counters that wrap around, the      *)
(* phases of filters and the dividers of clocks.  And the least and the    *)
(* greatest member of a set of numbers.                                    *)
(***************************************************************************)
EXTENDS Sums, WellFoundedInduction, TLAPS

Positive == Nat \ {0}

\* A number below the next one, and not the one before it, is below that.
LEMMA StillBelow ==
    ASSUME NEW n \in Nat, NEW m \in Nat, m <= n + 1, NEW b \in Int, n <= b,
           NEW j \in 0..(m - 1), j # n
    PROVE  j \in 0..(n - 1) /\ j \in 0..(b - 1)
BY SMT

LEMMA Multiples ==
    ASSUME NEW m \in Positive, NEW p \in Int, NEW q \in Int, p < q
    PROVE  m * p \in Int /\ m * q \in Int /\ m * p + m <= m * q
<1>1. /\ m \in Int /\ m > 0 /\ p + 1 \in Int /\ p + 1 <= q
      /\ m * p \in Int /\ m * q \in Int
  BY SMT DEF Positive
<1>2. m * (p + 1) = m * p + m
  BY <1>1, SMT
<1>3. m * (p + 1) <= m * q
  BY <1>1, SMT
<1> QED BY <1>1, <1>2, <1>3

LEMMA Division ==
    ASSUME NEW m \in Positive, NEW a \in Int
    PROVE  /\ m \in Int /\ m > 0
           /\ a \div m \in Int /\ m * (a \div m) \in Int
           /\ a % m \in Int /\ 0 <= a % m /\ a % m < m
           /\ a = m * (a \div m) + (a % m)
BY SMT DEF Positive

\* The remainder is what is left of a multiple.
LEMMA RemainderIs ==
    ASSUME NEW m \in Positive, NEW q \in Int, NEW r \in Int, 0 <= r, r < m,
           NEW a \in Int, a = m * q + r
    PROVE  a % m = r /\ a \div m = q
<1> DEFINE p == a \div m
           s == a % m
<1>1. /\ m \in Int /\ p \in Int /\ m * p \in Int /\ m * q \in Int
      /\ s \in Int /\ 0 <= s /\ s < m /\ a = m * p + s
  BY Division, SMT
<1> HIDE DEF p, s
<1>2. ~(p < q)
  <2> SUFFICES ASSUME p < q PROVE FALSE
    OBVIOUS
  <2>1. m * p + m <= m * q
    BY <1>1, Multiples
  <2> QED BY <1>1, <2>1, SMT
<1>3. ~(q < p)
  <2> SUFFICES ASSUME q < p PROVE FALSE
    OBVIOUS
  <2>1. m * q + m <= m * p
    BY <1>1, Multiples
  <2> QED BY <1>1, <2>1, SMT
<1>4. p = q
  BY <1>1, <1>2, <1>3, SMT
<1>5. s = r
  BY <1>1, <1>4, SMT
<1> QED BY <1>4, <1>5 DEF p, s

\* Adding a multiple does not change the remainder.
LEMMA RemainderOfSum ==
    ASSUME NEW m \in Positive, NEW q \in Int, NEW a \in Int
    PROVE  (m * q + a) % m = a % m
<1> DEFINE p == a \div m
           r == a % m
<1>1. /\ m \in Int /\ p \in Int /\ m * p \in Int /\ m * q \in Int
      /\ r \in Int /\ 0 <= r /\ r < m /\ a = m * p + r
  BY Division, SMT DEF Positive
<1> HIDE DEF p, r
<1>2. p + q \in Int /\ m * (p + q) = m * p + m * q
  BY <1>1, SMT
<1> DEFINE b == m * q + a
<1>3. b \in Int /\ b = m * (p + q) + r
  BY <1>1, <1>2, SMT
<1> HIDE DEF b
<1>4. b % m = r
  BY <1>1, <1>2, <1>3, RemainderIs
<1> QED BY <1>4 DEF r, b

\* Two numbers with the same remainder differ by a multiple, ...
LEMMA SameRemainder ==
    ASSUME NEW m \in Positive, NEW a \in Int, NEW b \in Int, a % m = b % m
    PROVE  /\ (a - b) % m = 0
           /\ b - m < a => b <= a
<1> DEFINE p == a \div m
           q == b \div m
           r == a % m
<1>1. /\ m \in Int /\ m > 0 /\ p \in Int /\ m * p \in Int /\ q \in Int /\ m * q \in Int
      /\ r \in Int /\ a = m * p + r /\ b = m * q + r
  BY Division, SMT
<1> HIDE DEF p, q, r
<1>2. (a - b) % m = 0
  <2>1. p - q \in Int /\ m * (p - q) = m * p - m * q
    BY <1>1, SMT
  <2>2. a - b \in Int /\ a - b = m * (p - q) + 0
    BY <1>1, <2>1, SMT
  <2> QED BY <1>1, <2>1, <2>2, RemainderIs, SMT
<1>3. b - m < a => b <= a
  <2> SUFFICES ASSUME b - m < a, a < b PROVE FALSE
    BY SMT
  <2>1. p < q
    <3> SUFFICES ASSUME ~(p < q) PROVE FALSE
      OBVIOUS
    <3>1. p = q \/ q < p
      BY <1>1, SMT
    <3>2. q < p => m * q + m <= m * p
      BY <1>1, Multiples
    <3> QED BY <1>1, <3>1, <3>2, SMT
  <2>2. m * p + m <= m * q
    BY <1>1, <2>1, Multiples
  <2> QED BY <1>1, <2>2, SMT
<1> QED BY <1>2, <1>3

\* ... and the other way round.
LEMMA RemainderOfMultiple ==
    ASSUME NEW m \in Positive, NEW a \in Int, NEW b \in Int, (a - b) % m = 0
    PROVE  a % m = b % m
<1> DEFINE d == a - b
           q == d \div m
<1>1. d \in Int /\ d % m = 0
  OBVIOUS
<1> HIDE DEF d
<1>2. m \in Int /\ q \in Int /\ m * q \in Int /\ d = m * q + 0
  BY <1>1, Division
<1> HIDE DEF q
<1>3. a = m * q + b
  BY <1>2, SMT DEF d
<1> QED BY <1>2, <1>3, RemainderOfSum

\* A counter that wraps at a multiple of m has the same remainder.
LEMMA RemainderOfRemainder ==
    ASSUME NEW m \in Positive, NEW w \in Positive, w % m = 0, NEW a \in Int, NEW b \in Int
    PROVE  ((a % w) + b) % m = (a + b) % m
<1> DEFINE p == a \div w
           r == a % w
           q == w \div m
<1>1. m \in Int /\ w \in Int
  BY SMT DEF Positive
<1>2. /\ p \in Int /\ w * p \in Int
      /\ r \in Int /\ a = w * p + r
  BY Division
<1>3. q \in Int /\ m * q \in Int /\ w = m * q + 0
  BY <1>1, Division
<1> HIDE DEF p, q, r
<1>4. q * p \in Int /\ w * p = m * (q * p)
  BY <1>1, <1>2, <1>3, SMT
<1>5. r + b \in Int /\ a + b = m * (q * p) + (r + b)
  BY <1>1, <1>2, <1>4, SMT
<1> QED BY <1>4, <1>5, RemainderOfSum DEF r

\* Taking remainders on the way makes no difference to that of a sum.
LEMMA SumOfRemainders ==
    ASSUME NEW m \in Positive, NEW a \in Int, NEW b \in Int
    PROVE  ((a % m) + b) % m = (a + b) % m
<1>1. m \in Int /\ m = m * 1 + 0 /\ 0 < m
  BY SMT DEF Positive
<1>2. m % m = 0
  BY <1>1, RemainderIs
<1> QED BY <1>2, RemainderOfRemainder

\* A quotient is on the same side of a number as its numerator.
LEMMA QuotientBounds ==
    ASSUME NEW m \in Positive, NEW a \in Int, NEW k \in Int
    PROVE  /\ m * k <= a => k <= a \div m
           /\ a <= m * k => a \div m <= k
           /\ a < m * k => a \div m < k
<1> DEFINE q == a \div m
           r == a % m
<1>1. /\ m \in Int /\ m > 0 /\ q \in Int /\ m * q \in Int /\ m * k \in Int
      /\ r \in Int /\ 0 <= r /\ r < m /\ a = m * q + r
  <2>1. m * k \in Int
    BY SMT DEF Positive
  <2> QED BY <2>1, Division
<1> HIDE DEF q, r
<1>2. q < k => m * q + m <= m * k
  BY <1>1, Multiples
<1>3. k < q => m * k + m <= m * q
  BY <1>1, Multiples
<1>4. k = q => m * k = m * q
  OBVIOUS
<1> QED BY <1>1, <1>2, <1>3, <1>4, SMT DEF q

\* Dividing twice is dividing by the product.
LEMMA QuotientOfQuotient ==
    ASSUME NEW m \in Positive, NEW k \in Positive, NEW a \in Int
    PROVE  m * k \in Positive /\ (a \div m) \div k = a \div (m * k)
<1> DEFINE q == a \div m
           r == a % m
           p == q \div k
           t == q % k
           n == m * k
           s == m * t + r
<1>1. /\ m \in Int /\ m > 0 /\ q \in Int /\ m * q \in Int
      /\ r \in Int /\ 0 <= r /\ r < m /\ a = m * q + r
  BY Division
<1> HIDE DEF q, r
<1>2. /\ k \in Int /\ k > 0 /\ p \in Int /\ k * p \in Int
      /\ t \in Int /\ 0 <= t /\ t < k /\ q = k * p + t
  BY <1>1, Division
<1> HIDE DEF p, t
<1>3. n \in Int /\ n > 0
  BY <1>1, <1>2, SMT
<1>4. m * t + m <= n /\ m * t \in Int /\ 0 <= m * t
  <2>1. m * t + m <= m * k /\ m * t \in Int
    BY <1>2, Multiples
  <2>2. 0 <= m * t
    BY <1>1, <1>2, SMT
  <2> QED BY <2>1, <2>2
<1>5. n * p = m * (k * p) /\ m * q = m * (k * p) + m * t /\ n * p \in Int
  BY <1>1, <1>2, SMT
<1> HIDE DEF n
<1>6. s \in Int /\ 0 <= s /\ s < n /\ a = n * p + s
  BY <1>1, <1>3, <1>4, <1>5, SMT
<1> HIDE DEF s
<1>7. n \in Positive
  BY <1>3, SMT DEF Positive
<1>8. a \div n = p
  BY <1>1, <1>2, <1>6, <1>7, RemainderIs
<1> QED BY <1>7, <1>8 DEF n, p, q

\* A phase that counts to twice d, and the multiples of d it has passed.
LEMMA PhaseCounts ==
    ASSUME NEW d \in Positive, NEW t \in Nat
    PROVE  LET p == t % (2 * d)
           IN  /\ p \in Nat
               /\ (t + 1) % (2 * d) = IF p + 1 = 2 * d THEN 0 ELSE p + 1
               /\ t \div d \in Nat
               /\ IF p + 1 \in {d, 2 * d}
                  THEN (t + 1) \div d = (t \div d) + 1 /\ d * ((t \div d) + 1) = t + 1
                  ELSE (t + 1) \div d = t \div d
<1> DEFINE w == 2 * d
           p == t % w
           q == t \div w
           u == t + 1
           b == t \div d
           c == u \div d
           x == u % w
<1> SUFFICES /\ p \in Nat
             /\ x = IF p + 1 = w THEN 0 ELSE p + 1
             /\ b \in Nat
             /\ IF p + 1 \in {d, w} THEN c = b + 1 /\ d * (b + 1) = u ELSE c = b
  OBVIOUS
<1>1. /\ d \in Int /\ d > 0 /\ t \in Int /\ u \in Int /\ w \in Int /\ w > 0
      /\ 0 \in Int /\ 0 <= 0 /\ 0 < d /\ 0 < w
  BY SMT DEF Positive
<1>2. w \in Positive
  BY <1>1, SMT DEF Positive
<1> HIDE DEF w
<1>3. /\ q \in Int /\ w * q \in Int
      /\ p \in Int /\ 0 <= p /\ p < w /\ t = w * q + p
  BY <1>1, <1>2, Division
<1> HIDE DEF p, q
<1>4. /\ w = 2 * d /\ d * (2 * q) = w * q /\ d * (2 * q + 1) = w * q + d
      /\ d * (2 * q + 2) = w * q + w /\ w * (q + 1) = w * q + w
  BY <1>1, <1>3, SMT DEF w
<1>5. b \in Nat
  <2>1. d * 0 <= t
    BY <1>1, SMT
  <2>2. 0 <= b /\ b \in Int
    BY <1>1, <2>1, QuotientBounds, Division
  <2> HIDE DEF b
  <2> QED BY <2>2, SMT
\* What a representation of t and of t + 1 says of the quotients.
<1>6. ASSUME NEW k \in Int, NEW r \in Int, 0 <= r, r < d, t = d * k + r
      PROVE  b = k
  BY <1>1, <1>6, RemainderIs
<1>7. ASSUME NEW k \in Int, NEW r \in Int, 0 <= r, r < d, u = d * k + r
      PROVE  c = k
  <2> HIDE DEF u
  <2> QED BY <1>1, <1>7, RemainderIs
<1>8. ASSUME NEW k \in Int, NEW r \in Int, 0 <= r, r < w, u = w * k + r
      PROVE  x = r
  <2> HIDE DEF u
  <2> QED BY <1>1, <1>2, <1>8, RemainderIs
<1>9. u = t + 1
  OBVIOUS
<1> HIDE DEF u, b, c, x
<1>10. CASE p + 1 = w
  <2>1. x = 0
    <3>1. q + 1 \in Int /\ u = w * (q + 1) + 0
      BY <1>1, <1>3, <1>4, <1>9, <1>10, SMT
    <3> QED BY <1>1, <1>8, <3>1
  <2>2. b = 2 * q + 1
    <3>1. /\ 2 * q + 1 \in Int /\ d - 1 \in Int /\ 0 <= d - 1 /\ d - 1 < d
          /\ t = d * (2 * q + 1) + (d - 1)
      BY <1>1, <1>3, <1>4, <1>10, SMT
    <3> QED BY <1>6, <3>1
  <2>3. c = 2 * q + 2 /\ d * (2 * q + 2) = u
    <3>1. /\ 2 * q + 2 \in Int /\ u = d * (2 * q + 2) + 0
          /\ d * (2 * q + 2) = u
      BY <1>1, <1>3, <1>4, <1>9, <1>10, SMT
    <3> QED BY <1>1, <1>7, <3>1
  <2>4. 2 * q + 2 = b + 1
    BY <1>3, <2>2, SMT
  <2>5. c = b + 1 /\ d * (b + 1) = u /\ p + 1 \in {d, w}
    BY <1>10, <2>3, <2>4
  <2> QED BY <1>3, <1>5, <1>10, <2>1, <2>5, SMT
<1>11. CASE p + 1 # w
  <2>1. x = p + 1
    <3>1. p + 1 \in Int /\ 0 <= p + 1 /\ p + 1 < w /\ u = w * q + (p + 1)
      BY <1>1, <1>3, <1>9, <1>11, SMT
    <3> QED BY <1>3, <1>8, <3>1
  <2>2. CASE p < d
    <3>1. b = 2 * q
      <4>1. 2 * q \in Int /\ t = d * (2 * q) + p
        BY <1>1, <1>3, <1>4, SMT
      <4> QED BY <1>3, <1>6, <2>2, <4>1
    <3>2. CASE p + 1 = d
      <4>1. 2 * q + 1 \in Int /\ u = d * (2 * q + 1) + 0 /\ d * (2 * q + 1) = u
        BY <1>1, <1>3, <1>4, <1>9, <3>2, SMT
      <4>2. c = 2 * q + 1
        BY <1>1, <1>7, <4>1
      <4>3. c = b + 1 /\ d * (b + 1) = u /\ p + 1 \in {d, w}
        BY <3>1, <3>2, <4>1, <4>2
      <4> QED BY <1>3, <1>5, <1>11, <2>1, <4>3, SMT
    <3>3. CASE p + 1 # d
      <4>1. /\ 2 * q \in Int /\ p + 1 \in Int /\ 0 <= p + 1 /\ p + 1 < d
            /\ u = d * (2 * q) + (p + 1)
        BY <1>1, <1>3, <1>4, <1>9, <2>2, <3>3, SMT
      <4>2. c = b
        BY <1>7, <3>1, <4>1
      <4> QED BY <1>3, <1>5, <1>11, <2>1, <3>3, <4>2, SMT
    <3> QED BY <3>2, <3>3
  <2>3. CASE ~(p < d)
    <3>1. /\ 2 * q + 1 \in Int
          /\ p - d \in Int /\ 0 <= p - d /\ p - d < d /\ t = d * (2 * q + 1) + (p - d)
          /\ p + 1 - d \in Int /\ 0 <= p + 1 - d /\ p + 1 - d < d
          /\ u = d * (2 * q + 1) + (p + 1 - d)
      BY <1>1, <1>3, <1>4, <1>9, <1>11, <2>3, SMT
    <3>2. b = 2 * q + 1
      BY <1>6, <3>1
    <3>3. c = 2 * q + 1
      BY <1>7, <3>1
    <3>4. p + 1 \notin {d, w} /\ c = b
      BY <1>1, <1>3, <1>11, <2>3, <3>2, <3>3, SMT
    <3> QED BY <1>3, <1>5, <1>11, <2>1, <3>4, SMT
  <2> QED BY <2>2, <2>3
<1> QED BY <1>10, <1>11

\* A factor keeps the order.
LEMMA Monotonic ==
    ASSUME NEW m \in Nat, NEW a \in Int, NEW b \in Int, a <= b
    PROVE  m * a \in Int /\ m * b \in Int /\ m * a <= m * b
<1>1. CASE m = 0
  BY <1>1, SMT
<1>2. CASE m # 0
  <2>1. m \in Positive
    BY <1>2 DEF Positive
  <2>2. m * a \in Int /\ m * b \in Int /\ m > 0
    BY <2>1, SMT DEF Positive
  <2>3. a < b => m * a + m <= m * b
    BY <2>1, Multiples
  <2>4. a = b => m * a = m * b
    OBVIOUS
  <2> QED BY <2>2, <2>3, <2>4, SMT
<1> QED BY <1>1, <1>2

-----------------------------------------------------------------------------
Below == {pair \in Nat \X Nat : pair[1] < pair[2]}

\* There is a least number in every set of numbers.
LEMMA LeastNumber ==
    ASSUME NEW S, S \subseteq Nat, S # {}
    PROVE  \E n \in S : \A m \in S : n <= m
<1>1. IsWellFoundedOn(Below, Nat)
  BY NatLessThanWellFounded, Zenon DEF OpToRel, Below
<1>2. PICK n \in S : \A m \in S : ~(<<m, n>> \in Below)
  BY <1>1, WFMin
<1>3. ASSUME NEW m \in S PROVE n <= m
  <2>1. m \in Nat /\ n \in Nat /\ ~(<<m, n>> \in Below)
    BY <1>2
  <2> QED BY <2>1, SMT DEF Below
<1> QED BY <1>3

\* There is a greatest one if they are bounded.
LEMMA GreatestNumber ==
    ASSUME NEW S, NEW b \in Nat, S \subseteq 0..b, S # {}
    PROVE  \E n \in S : \A m \in S : n >= m
<1> DEFINE T == {k \in Nat : b - k \in S}
<1>1. PICK x \in S : TRUE
  OBVIOUS
<1>2. b - x \in T
  BY <1>1, SMT
<1>3. T # {} /\ T \subseteq Nat
  BY <1>2
<1> HIDE DEF T
<1>4. PICK k \in T : \A j \in T : k <= j
  BY <1>3, LeastNumber
<1>5. k \in Nat /\ b - k \in S
  BY <1>4 DEF T
<1>6. ASSUME NEW m \in S PROVE b - k >= m
  <2>1. m \in Nat /\ b - m \in Nat /\ m = b - (b - m)
    BY SMT
  <2>2. b - m \in T
    BY <2>1 DEF T
  <2>3. k <= b - m
    BY <1>4, <2>2
  <2> QED BY <1>5, <2>1, <2>3, SMT
<1> QED BY <1>5, <1>6

-----------------------------------------------------------------------------
(* Sums are recursive functions: that they exist, and do not depend on     *)
(* what comes later, is shown by the least number for which it would not   *)
(* hold.                                                                   *)

\* The function s has the sums of the first 0 to n members of f.
AreSums(s, f, n) == s[0] = 0 /\ \A m \in 1..n : s[m] = s[m - 1] + f[m]

LEMMA SumsExist ==
    ASSUME NEW n \in Nat, NEW f, \A m \in 1..n : f[m] \in Int
    PROVE  \E g \in [0..n -> Int] : AreSums(g, f, n)
<1> DEFINE Good(k) == \E g \in [0..k -> Int] :
                          g[0] = 0 /\ \A m \in 1..k : g[m] = g[m - 1] + f[m]
           bad == {k \in 0..n : ~Good(k)}
<1>1. Good(0)
  <2> DEFINE g == [i \in 0..0 |-> 0]
  <2>1. g \in [0..0 -> Int] /\ g[0] = 0 /\ \A m \in 1..0 : g[m] = g[m - 1] + f[m]
    BY SMT
  <2> QED BY <2>1
<1>2. ASSUME NEW k \in 1..n, Good(k - 1) PROVE Good(k)
  <2>1. /\ k \in Nat /\ k - 1 \in 0..(k - 1) /\ k \notin 0..(k - 1) /\ 0 \in 0..(k - 1)
        /\ \A i \in 0..k : i \in 0..(k - 1) \/ i = k
        /\ \A m \in 1..k : m \in 0..k /\ m - 1 \in 0..k /\ m - 1 \in 0..(k - 1)
        /\ \A m \in 1..k : m # k => m \in 1..(k - 1)
        /\ 0 \in 0..k /\ k # 0
    BY SMT
  <2>2. PICK g \in [0..(k - 1) -> Int] :
            g[0] = 0 /\ \A m \in 1..(k - 1) : g[m] = g[m - 1] + f[m]
    BY <1>2
  <2> DEFINE top == g[k - 1] + f[k]
             h == [i \in 0..k |-> IF i = k THEN top ELSE g[i]]
  <2>3. top \in Int
    <3>1. g[k - 1] \in Int /\ f[k] \in Int
      BY <2>1
    <3> QED BY <3>1, SMT
  <2>4. ASSUME NEW m \in 1..k PROVE h[m] = h[m - 1] + f[m]
    <3>1. m - 1 # k
      BY <2>1
    <3>2. h[m - 1] = g[m - 1]
      BY <2>1, <3>1
    <3>3. CASE m = k
      BY <2>1, <3>2, <3>3
    <3>4. CASE m # k
      <4>1. h[m] = g[m] /\ m \in 1..(k - 1)
        BY <2>1, <3>4
      <4> QED BY <2>2, <3>2, <4>1
    <3> QED BY <3>3, <3>4
  <2> HIDE DEF top
  <2>5. h \in [0..k -> Int]
    BY <2>1, <2>3
  <2>6. h[0] = 0
    BY <2>1, <2>2
  <2> HIDE DEF h
  <2> QED BY <2>4, <2>5, <2>6
<1> HIDE DEF Good
<1>3. bad = {}
  <2> SUFFICES ASSUME bad # {} PROVE FALSE
    OBVIOUS
  <2>1. bad \subseteq Nat
    BY SMT
  <2>2. PICK k \in bad : \A m \in bad : k <= m
    BY <2>1, LeastNumber
  <2>3. k \in 0..n /\ ~Good(k)
    OBVIOUS
  <2>4. k # 0 /\ k \in 1..n /\ k - 1 \in 0..n /\ ~(k <= k - 1)
    BY <1>1, <2>3, SMT
  <2>5. ~Good(k - 1)
    BY <1>2, <2>3, <2>4
  <2>6. k - 1 \in bad
    BY <2>4, <2>5
  <2> QED BY <2>2, <2>4, <2>6
<1>4. n \in 0..n
  BY SMT
<1>5. Good(n)
  BY <1>3, <1>4
<1> QED BY <1>5 DEF Good, AreSums

LEMMA SumsAgree ==
    ASSUME NEW n \in Nat, NEW f, NEW a, NEW b, AreSums(a, f, n), AreSums(b, f, n)
    PROVE  \A m \in 0..n : a[m] = b[m]
<1> DEFINE bad == {m \in 0..n : a[m] # b[m]}
<1> SUFFICES ASSUME bad # {} PROVE FALSE
  OBVIOUS
<1>1. bad \subseteq Nat
  BY SMT
<1>2. PICK k \in bad : \A m \in bad : k <= m
  BY <1>1, LeastNumber
<1>3. k \in 0..n /\ a[k] # b[k]
  OBVIOUS
<1>4. k # 0 /\ k \in 1..n /\ k - 1 \in 0..n /\ ~(k <= k - 1)
  <2>1. a[0] = b[0]
    BY DEF AreSums
  <2>2. k # 0
    BY <1>3, <2>1
  <2> QED BY <1>3, <2>2, SMT
<1>5. a[k - 1] = b[k - 1]
  <2>1. k - 1 \notin bad
    BY <1>2, <1>4
  <2> QED BY <1>4, <2>1
<1>6. k # 0 => a[k] = a[k - 1] + f[k] /\ b[k] = b[k - 1] + f[k]
  BY <1>4 DEF AreSums
<1> QED BY <1>3, <1>4, <1>5, <1>6

LEMMA SummedIs ==
    ASSUME NEW n \in Nat, NEW f, \A m \in 1..n : f[m] \in Int
    PROVE  /\ Summed(f, n) \in [0..n -> Int]
           /\ AreSums(Summed(f, n), f, n)
<1> DEFINE Sums(s) == s = [m \in 0..n |-> IF m = 0 THEN 0 ELSE s[m - 1] + f[m]]
<1>1. 0 \in 0..n /\ \A m \in 1..n : m \in 0..n /\ m # 0
  BY SMT
<1>2. PICK g \in [0..n -> Int] : AreSums(g, f, n)
  BY SumsExist
<1>3. Sums(g)
  <2>1. ASSUME NEW m \in 0..n PROVE g[m] = IF m = 0 THEN 0 ELSE g[m - 1] + f[m]
    <3>1. m = 0 \/ m \in 1..n
      BY SMT
    <3> QED BY <1>1, <1>2, <3>1 DEF AreSums
  <2>2. g = [m \in 0..n |-> g[m]]
    OBVIOUS
  <2> QED BY <2>1, <2>2
<1>4. PICK s : s = Summed(f, n) /\ Sums(s)
  <2>1. Summed(f, n) = CHOOSE s : Sums(s)
    BY DEF Summed
  <2> HIDE DEF Sums
  <2> QED BY <1>3, <2>1
<1>5. AreSums(s, f, n)
  BY <1>1, <1>4 DEF AreSums
<1>6. \A m \in 0..n : s[m] = g[m]
  BY <1>2, <1>5, SumsAgree
<1>7. s \in [0..n -> Int]
  <2>1. DOMAIN s = 0..n /\ s = [m \in 0..n |-> s[m]]
    BY <1>4
  <2>2. \A m \in 0..n : s[m] \in Int
    BY <1>6
  <2> QED BY <2>1, <2>2
<1> QED BY <1>4, <1>5, <1>7

\* What comes later makes no difference to a sum.
LEMMA SummedSame ==
    ASSUME NEW n \in Nat, NEW k \in Nat, n <= k, NEW f, NEW g,
           \A m \in 1..k : g[m] \in Int, \A m \in 1..n : f[m] = g[m]
    PROVE  \A m \in 0..n : Summed(f, n)[m] = Summed(g, k)[m]
<1>1. \A m \in 1..n : m \in 1..k
  BY SMT
<1>2. \A m \in 1..n : f[m] \in Int
  BY <1>1
<1> DEFINE a == Summed(f, n)
           b == Summed(g, k)
<1>3. AreSums(a, f, n)
  BY <1>2, SummedIs
<1>4. AreSums(b, f, n)
  <2>1. AreSums(b, g, k)
    BY SummedIs
  <2> HIDE DEF b
  <2> QED BY <1>1, <2>1 DEF AreSums
<1> HIDE DEF a, b
<1>5. \A m \in 0..n : a[m] = b[m]
  BY <1>3, <1>4, SumsAgree
<1> QED BY <1>5 DEF a, b

\* What holds of 0 and of each number's successor, up to a bound, holds of all.
LEMMA Inherited ==
    ASSUME NEW b \in Nat, NEW S, 0 \in S, \A n \in Nat : n < b /\ n \in S => n + 1 \in S
    PROVE  \A n \in 0..b : n \in S
<1> DEFINE bad == {n \in 0..b : n \notin S}
<1> SUFFICES ASSUME bad # {} PROVE FALSE
  OBVIOUS
<1>1. bad \subseteq Nat
  BY SMT
<1>2. PICK k \in bad : \A m \in bad : k <= m
  BY <1>1, LeastNumber
<1>3. k \in 0..b /\ k \notin S
  OBVIOUS
<1>4. k # 0
  BY <1>3
<1>5. k - 1 \in Nat /\ k - 1 < b /\ k - 1 \in 0..b /\ (k - 1) + 1 = k /\ ~(k <= k - 1)
  BY <1>3, <1>4, SMT
<1>6. k - 1 \in S
  BY <1>2, <1>5
<1> QED BY <1>3, <1>5, <1>6

\* value[k] makes an element of T of any k elements.
Makes(value, b, T) == \A k \in 0..b : \A g \in [0..(k - 1) -> T] : value[k][g] \in T

\* The members 0 to b of f are made of the ones before them.
IsMade(f, value, b, T) ==
    /\ f \in [0..b -> T]
    /\ \A k \in 0..b : \A g \in [0..(k - 1) -> T] :
          (\A i \in 0..(k - 1) : g[i] = f[i]) => f[k] = value[k][g]

\* A function may be defined by what its members are made of.
LEMMA Recursion ==
    ASSUME NEW b \in Nat, NEW T, NEW value, Makes(value, b, T)
    PROVE  \E f : IsMade(f, value, b, T)
<1> USE DEF Makes
<1> DEFINE Before(f, k) == [i \in 0..(k - 1) |-> f[i]]
           Good(n) == \E f \in [0..n -> T] : \A k \in 0..n : f[k] = value[k][Before(f, k)]
           S == {n \in 0..b : Good(n)}
<1>1. Good(0)
  <2> DEFINE g == [i \in 0..0 |-> value[0][[j \in 0..(0 - 1) |-> i]]]
  <2>1. 0 \in 0..b /\ 0..(0 - 1) = {} /\ \A k \in 0..0 : k = 0
    BY SMT
  <2>2. [j \in 0..(0 - 1) |-> 0] \in [0..(0 - 1) -> T]
    BY <2>1
  <2>3. value[0][[j \in 0..(0 - 1) |-> 0]] \in T
    BY <2>1, <2>2
  <2>4. g \in [0..0 -> T]
    BY <2>1, <2>3
  <2>5. Before(g, 0) = [j \in 0..(0 - 1) |-> 0]
    BY <2>1
  <2>6. g[0] = value[0][Before(g, 0)]
    <3>1. g[0] = value[0][[j \in 0..(0 - 1) |-> 0]]
      BY SMT
    <3> QED BY <2>5, <3>1
  <2> HIDE DEF g
  <2> QED BY <2>1, <2>4, <2>6
<1>2. ASSUME NEW n \in Nat, n < b, n \in S PROVE n + 1 \in S
  <2>1. /\ n + 1 \in 0..b /\ n + 1 \notin 0..n /\ n \in 0..n /\ (n + 1) - 1 = n
        /\ \A i \in 0..(n + 1) : i \in 0..n \/ i = n + 1
        /\ \A i \in 0..n : i \in 0..(n + 1)
        /\ \A k \in 0..n : \A i \in 0..(k - 1) : i \in 0..n
    BY <1>2, SMT
  <2>2. PICK f \in [0..n -> T] : \A k \in 0..n : f[k] = value[k][Before(f, k)]
    BY <1>2
  <2> DEFINE top == value[n + 1][f]
             g == [i \in 0..(n + 1) |-> IF i = n + 1 THEN top ELSE f[i]]
  <2>3. top \in T
    BY <2>1
  <2>4. \A i \in 0..n : g[i] = f[i]
    BY <2>1
  <2>5. g[n + 1] = top
    BY <2>1, SMT
  <2> HIDE DEF top
  <2>6. g \in [0..(n + 1) -> T]
    BY <2>1, <2>3
  <2> HIDE DEF g
  <2>7. ASSUME NEW k \in 0..n PROVE g[k] = value[k][Before(g, k)]
    <3>1. Before(g, k) = Before(f, k)
      BY <2>1, <2>4
    <3> QED BY <2>2, <2>4, <3>1
  <2>8. g[n + 1] = value[n + 1][Before(g, n + 1)]
    <3>1. Before(g, n + 1) = f
      <4>1. Before(g, n + 1) = [i \in 0..n |-> f[i]]
        BY <2>1, <2>4
      <4> QED BY <4>1
    <3> QED BY <2>5, <3>1 DEF top
  <2>9. Good(n + 1)
    BY <2>1, <2>6, <2>7, <2>8
  <2> QED BY <2>1, <2>9
<1>3. 0 \in S
  BY <1>1, SMT
<1> HIDE DEF S
<1>4. \A n \in 0..b : n \in S
  BY <1>2, <1>3, Inherited
<1>5. b \in S
  BY <1>4, SMT
<1>6. PICK f \in [0..b -> T] : \A k \in 0..b : f[k] = value[k][Before(f, k)]
  BY <1>5 DEF S
<1>7. ASSUME NEW k \in 0..b, NEW g \in [0..(k - 1) -> T], \A i \in 0..(k - 1) : g[i] = f[i]
      PROVE  f[k] = value[k][g]
  <2>1. g = Before(f, k)
    BY <1>7
  <2> HIDE DEF Before
  <2> QED BY <1>6, <2>1
<1> QED BY <1>7 DEF IsMade

\* What the sums of the first members are.
LEMMA SumsAre ==
    ASSUME NEW n \in Nat, NEW f, \A m \in 1..n : f[m] \in Int
    PROVE  /\ SumOf(f, 0) = 0
           /\ \A k \in 0..n : SumOf(f, k) \in Int
           /\ \A k \in Nat : k < n => SumOf(f, k + 1) = SumOf(f, k) + f[k + 1]
<1>1. ASSUME NEW k \in 0..n PROVE SumOf(f, k) = Summed(f, n)[k]
  <2>1. k \in Nat /\ k <= n /\ k \in 0..k
    BY SMT
  <2>2. \A m \in 0..k : Summed(f, k)[m] = Summed(f, n)[m]
    BY <2>1, SummedSame
  <2> QED BY <2>1, <2>2 DEF SumOf
<1> DEFINE s == Summed(f, n)
<1>2. s \in [0..n -> Int] /\ s[0] = 0 /\ \A m \in 1..n : s[m] = s[m - 1] + f[m]
  BY SummedIs DEF AreSums
<1> HIDE DEF s
<1>3. 0 \in 0..n
  BY SMT
<1>4. ASSUME NEW k \in Nat, k < n PROVE SumOf(f, k + 1) = SumOf(f, k) + f[k + 1]
  <2>1. k \in 0..n /\ k + 1 \in 0..n /\ k + 1 \in 1..n /\ (k + 1) - 1 = k
    BY <1>4, SMT
  <2> QED BY <1>1, <1>2, <2>1 DEF s
<1> QED BY <1>1, <1>2, <1>3, <1>4 DEF s

LEMMA SumUnchanged ==
    ASSUME NEW n \in Nat, NEW f, NEW g,
           \A m \in 1..n : g[m] \in Int, \A m \in 1..n : f[m] = g[m]
    PROVE  SumOf(f, n) = SumOf(g, n)
<1>1. n <= n /\ n \in 0..n
  BY SMT
<1> QED BY <1>1, SummedSame DEF SumOf

\* A sum grows with its members.
LEMMA SumsGrow ==
    ASSUME NEW n \in Nat, NEW f, NEW g, \A m \in 1..n : f[m] \in Int /\ g[m] \in Int,
           \A m \in 1..n : f[m] <= g[m]
    PROVE  SumOf(f, n) <= SumOf(g, n)
<1> DEFINE S == {k \in 0..n : SumOf(f, k) <= SumOf(g, k)}
<1>1. /\ SumOf(f, 0) = 0 /\ SumOf(g, 0) = 0
      /\ \A k \in 0..n : SumOf(f, k) \in Int /\ SumOf(g, k) \in Int
      /\ \A k \in Nat : k < n => SumOf(f, k + 1) = SumOf(f, k) + f[k + 1]
      /\ \A k \in Nat : k < n => SumOf(g, k + 1) = SumOf(g, k) + g[k + 1]
  BY SumsAre
<1>2. 0 \in S
  BY <1>1
<1>3. ASSUME NEW k \in Nat, k < n, k \in S PROVE k + 1 \in S
  <2>1. k \in 0..n /\ k + 1 \in 0..n /\ k + 1 \in 1..n
    BY <1>3, SMT
  <2>2. f[k + 1] \in Int /\ g[k + 1] \in Int /\ f[k + 1] <= g[k + 1]
    BY <2>1
  <2>3. SumOf(f, k) <= SumOf(g, k) /\ SumOf(f, k) \in Int /\ SumOf(g, k) \in Int
    BY <1>1, <1>3, <2>1
  <2>4. SumOf(f, k + 1) <= SumOf(g, k + 1)
    BY <1>1, <1>3, <2>2, <2>3
  <2> QED BY <2>1, <2>4
<1> HIDE DEF S
<1>4. \A k \in 0..n : k \in S
  BY <1>2, <1>3, Inherited
<1>5. n \in S
  BY <1>4, SMT
<1> QED BY <1>5 DEF S

\* Sums are added member by member.
LEMMA SumOfSums ==
    ASSUME NEW n \in Nat, NEW f, NEW g, NEW h, \A m \in 1..n : f[m] \in Int /\ g[m] \in Int,
           \A m \in 1..n : h[m] = f[m] + g[m]
    PROVE  SumOf(h, n) = SumOf(f, n) + SumOf(g, n)
<1> DEFINE S == {k \in 0..n : SumOf(h, k) = SumOf(f, k) + SumOf(g, k)}
<1>1. \A m \in 1..n : h[m] \in Int
  BY SMT
<1>2. /\ SumOf(f, 0) = 0 /\ SumOf(g, 0) = 0 /\ SumOf(h, 0) = 0
      /\ \A k \in 0..n : SumOf(f, k) \in Int /\ SumOf(g, k) \in Int
      /\ \A k \in Nat : k < n => SumOf(f, k + 1) = SumOf(f, k) + f[k + 1]
      /\ \A k \in Nat : k < n => SumOf(g, k + 1) = SumOf(g, k) + g[k + 1]
      /\ \A k \in Nat : k < n => SumOf(h, k + 1) = SumOf(h, k) + h[k + 1]
  BY <1>1, SumsAre
<1>3. 0 \in S
  BY <1>2
<1>4. ASSUME NEW k \in Nat, k < n, k \in S PROVE k + 1 \in S
  <2>1. k \in 0..n /\ k + 1 \in 0..n /\ k + 1 \in 1..n
    BY <1>4, SMT
  <2>2. f[k + 1] \in Int /\ g[k + 1] \in Int /\ h[k + 1] = f[k + 1] + g[k + 1]
    BY <2>1
  <2>3. SumOf(h, k) = SumOf(f, k) + SumOf(g, k) /\ SumOf(f, k) \in Int /\ SumOf(g, k) \in Int
    BY <1>2, <1>4, <2>1
  <2>4. SumOf(h, k + 1) = SumOf(f, k + 1) + SumOf(g, k + 1)
    BY <1>2, <1>4, <2>2, <2>3
  <2> QED BY <2>1, <2>4
<1> HIDE DEF S
<1>5. \A k \in 0..n : k \in S
  BY <1>3, <1>4, Inherited
<1>6. n \in S
  BY <1>5, SMT
<1> QED BY <1>6 DEF S

\* Members that are 0 at the end do not count.
LEMMA SumOfZeros ==
    ASSUME NEW n \in Nat, NEW k \in 0..n, NEW f, \A m \in 1..n : f[m] \in Int,
           \A m \in (k + 1)..n : f[m] = 0
    PROVE  SumOf(f, n) = SumOf(f, k)
<1> DEFINE S == {j \in 0..n : j >= k => SumOf(f, j) = SumOf(f, k)}
<1>1. /\ \A j \in 0..n : SumOf(f, j) \in Int
      /\ \A j \in Nat : j < n => SumOf(f, j + 1) = SumOf(f, j) + f[j + 1]
  BY SumsAre
<1>2. 0 \in S
  BY SMT
<1>3. ASSUME NEW j \in Nat, j < n, j \in S PROVE j + 1 \in S
  <2>1. j \in 0..n /\ j + 1 \in 0..n /\ (j >= k => j + 1 \in (k + 1)..n) /\ k \in Nat
    BY <1>3, SMT
  <2>2. CASE j >= k
    <3>1. SumOf(f, j) = SumOf(f, k) /\ f[j + 1] = 0 /\ SumOf(f, j) \in Int
      BY <1>1, <1>3, <2>1, <2>2
    <3>2. SumOf(f, j + 1) = SumOf(f, k)
      BY <1>1, <1>3, <3>1
    <3> QED BY <2>1, <3>2
  <2>3. CASE ~(j >= k)
    <3>1. j + 1 >= k => j + 1 = k
      BY <2>1, <2>3, SMT
    <3> QED BY <2>1, <3>1
  <2> QED BY <2>2, <2>3
<1> HIDE DEF S
<1>4. \A j \in 0..n : j \in S
  BY <1>2, <1>3, Inherited
<1>5. n \in S /\ n >= k
  BY <1>4, SMT
<1> QED BY <1>5 DEF S

\* One member is another.
LEMMA SumChanged ==
    ASSUME NEW n \in Nat, NEW f, NEW g, \A m \in 1..n : f[m] \in Int /\ g[m] \in Int,
           NEW i \in 1..n, \A m \in 1..n : m # i => g[m] = f[m]
    PROVE  /\ SumOf(f, n) \in Int /\ f[i] \in Int /\ g[i] \in Int
           /\ SumOf(g, n) = SumOf(f, n) + (g[i] - f[i])
<1> DEFINE S == {k \in 0..n : SumOf(g, k) = SumOf(f, k) + (IF k < i THEN 0 ELSE g[i] - f[i])}
<1>1. /\ SumOf(f, 0) = 0 /\ SumOf(g, 0) = 0
      /\ \A k \in 0..n : SumOf(f, k) \in Int /\ SumOf(g, k) \in Int
      /\ \A k \in Nat : k < n => SumOf(f, k + 1) = SumOf(f, k) + f[k + 1]
      /\ \A k \in Nat : k < n => SumOf(g, k + 1) = SumOf(g, k) + g[k + 1]
  BY SumsAre
<1>2. 0 \in S
  BY <1>1, SMT
<1>3. ASSUME NEW k \in Nat, k < n, k \in S PROVE k + 1 \in S
  <2>1. k \in 0..n /\ k + 1 \in 0..n /\ k + 1 \in 1..n /\ i \in Nat /\ i >= 1
    BY <1>3, SMT
  <2>2. /\ f[k + 1] \in Int /\ g[k + 1] \in Int /\ f[i] \in Int /\ g[i] \in Int
        /\ k + 1 # i => g[k + 1] = f[k + 1]
    BY <2>1
  <2>3. /\ SumOf(g, k) = SumOf(f, k) + (IF k < i THEN 0 ELSE g[i] - f[i])
        /\ SumOf(f, k) \in Int /\ SumOf(g, k) \in Int
    BY <1>1, <1>3, <2>1
  <2>4. /\ SumOf(f, k + 1) = SumOf(f, k) + f[k + 1]
        /\ SumOf(g, k + 1) = SumOf(g, k) + g[k + 1]
    BY <1>1, <1>3
  <2>5. SumOf(g, k + 1) = SumOf(f, k + 1) + (IF k + 1 < i THEN 0 ELSE g[i] - f[i])
    <3>1. CASE k + 1 = i
      BY <2>1, <2>2, <2>3, <2>4, <3>1, SMT
    <3>2. CASE k + 1 # i
      <4>1. (k + 1 < i) <=> (k < i)
        BY <2>1, <3>2, SMT
      <4> QED BY <2>1, <2>2, <2>3, <2>4, <3>2, <4>1, SMT
    <3> QED BY <3>1, <3>2
  <2> QED BY <2>1, <2>5
<1> HIDE DEF S
<1>4. \A k \in 0..n : k \in S
  BY <1>2, <1>3, Inherited
<1>5. n \in S /\ n \in 0..n /\ ~(n < i)
  BY <1>4, SMT
<1> QED BY <1>1, <1>5 DEF S

\* Two sequences of numbers that differ in three places.
Alike(f, g, n, i, j, k) ==
    /\ {i, j, k} \subseteq 1..n /\ i # j /\ i # k /\ j # k
    /\ \A m \in 1..n : f[m] \in Int /\ g[m] \in Int
    /\ \A m \in 1..n : m \notin {i, j, k} => g[m] = f[m]

\* A sum of which three members change.
LEMMA SumChangedThrice ==
    ASSUME NEW n \in Nat, NEW f, NEW g, NEW i, NEW j, NEW k, Alike(f, g, n, i, j, k)
    PROVE  /\ SumOf(f, n) \in Int
           /\ SumOf(g, n) = SumOf(f, n) + (g[i] - f[i]) + (g[j] - f[j]) + (g[k] - f[k])
<1> DEFINE a == [m \in 1..n |-> IF m = i THEN g[m] ELSE f[m]]
           b == [m \in 1..n |-> IF m = j THEN g[m] ELSE a[m]]
<1>1. /\ \A m \in 1..n : a[m] \in Int /\ b[m] \in Int
      /\ \A m \in 1..n : m # i => a[m] = f[m]
      /\ \A m \in 1..n : m # j => b[m] = a[m]
      /\ \A m \in 1..n : m # k => g[m] = b[m]
      /\ a[i] = g[i] /\ a[j] = f[j] /\ b[j] = g[j] /\ b[k] = f[k]
      /\ \A m \in 1..n : f[m] \in Int /\ g[m] \in Int
      /\ i \in 1..n /\ j \in 1..n /\ k \in 1..n
  BY DEF Alike
<1> HIDE DEF a, b
<1>2. /\ SumOf(f, n) \in Int /\ f[i] \in Int /\ a[i] \in Int
      /\ SumOf(a, n) = SumOf(f, n) + (a[i] - f[i])
  BY <1>1, SumChanged
<1>3. /\ SumOf(a, n) \in Int /\ a[j] \in Int /\ b[j] \in Int
      /\ SumOf(b, n) = SumOf(a, n) + (b[j] - a[j])
  BY <1>1, SumChanged
<1>4. /\ SumOf(b, n) \in Int /\ b[k] \in Int /\ g[k] \in Int
      /\ SumOf(g, n) = SumOf(b, n) + (g[k] - b[k])
  BY <1>1, SumChanged
<1> QED BY <1>1, <1>2, <1>3, <1>4, SMT

\* A factor of all members is one of their sum.
LEMMA SumOfProducts ==
    ASSUME NEW n \in Nat, NEW c \in Int, NEW f, NEW h, \A m \in 1..n : f[m] \in Int,
           \A m \in 1..n : h[m] = f[m] * c
    PROVE  SumOf(f, n) \in Int /\ SumOf(h, n) = SumOf(f, n) * c
<1> DEFINE S == {k \in 0..n : SumOf(h, k) = SumOf(f, k) * c}
<1>1. \A m \in 1..n : h[m] \in Int
  BY SMT
<1>2. /\ SumOf(f, 0) = 0 /\ SumOf(h, 0) = 0
      /\ \A k \in 0..n : SumOf(f, k) \in Int /\ SumOf(h, k) \in Int
      /\ \A k \in Nat : k < n => SumOf(f, k + 1) = SumOf(f, k) + f[k + 1]
      /\ \A k \in Nat : k < n => SumOf(h, k + 1) = SumOf(h, k) + h[k + 1]
  BY <1>1, SumsAre
<1>3. 0 \in S
  BY <1>2, SMT
<1>4. ASSUME NEW k \in Nat, k < n, k \in S PROVE k + 1 \in S
  <2>1. k \in 0..n /\ k + 1 \in 0..n /\ k + 1 \in 1..n
    BY <1>4, SMT
  <2>2. f[k + 1] \in Int /\ h[k + 1] = f[k + 1] * c
    BY <2>1
  <2>3. SumOf(h, k) = SumOf(f, k) * c /\ SumOf(f, k) \in Int
    BY <1>2, <1>4, <2>1
  <2>4. /\ SumOf(f, k + 1) = SumOf(f, k) + f[k + 1]
        /\ SumOf(h, k + 1) = SumOf(h, k) + h[k + 1]
    BY <1>2, <1>4
  <2> DEFINE a == SumOf(f, k)
             b == f[k + 1]
  <2>5. a \in Int /\ b \in Int
    BY <2>2, <2>3
  <2> HIDE DEF a, b
  <2>6. (a + b) * c = a * c + b * c
    BY <2>5, SMT
  <2>7. SumOf(h, k + 1) = SumOf(f, k + 1) * c
    BY <2>2, <2>3, <2>4, <2>6 DEF a, b
  <2> QED BY <2>1, <2>7
<1> HIDE DEF S
<1>5. \A k \in 0..n : k \in S
  BY <1>3, <1>4, Inherited
<1>6. n \in S /\ n \in 0..n
  BY <1>5, SMT
<1> QED BY <1>2, <1>6 DEF S
=============================================================================
