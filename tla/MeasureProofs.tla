---------------------------- MODULE MeasureProofs ----------------------------
(***************************************************************************)
(* Proofs about the computations on measured values, for filters and clocks *)
(* of any size: no work is missing in the processor load, and no filter    *)
(* loses or repeats a sample, however its input is split into calls.       *)
(***************************************************************************)
EXTENDS MCMeasures, Remainders, SequenceTheorems, TLAPS

-----------------------------------------------------------------------------
(* The processor load, of an idle thread that gets around its loop within  *)
(* a second.  In the invariant, what others have run for since the counter *)
(* was read is never more than the time since the stored counter value;    *)
(* and where it is read and not yet stored, never more than the time since *)
(* that reading, which is the one to be stored.                            *)

Times == 0..(CounterWrap - 1)

UsageInv ==
    /\ clock \in Times /\ prevTime \in Times /\ time \in Times
    /\ usage \in 0..(Scale + Error)
    /\ delta \in 0..Frequency
    /\ later \in Nat /\ later <= Elapsed(prevTime)
    /\ busy \in Nat /\ (idlePc # "update" => busy <= Elapsed(prevTime))
    /\ idlePc \in {"read", "store", "update"}
    /\ idlePc = "read" => Elapsed(prevTime) <= Frequency - 1
    /\ idlePc = "update" => Elapsed(prevTime) <= Frequency - 2
    /\ idlePc = "store" => /\ Elapsed(prevTime) <= Frequency
                           /\ later <= Elapsed(time)
                           /\ Elapsed(time) <= Elapsed(prevTime)
                           /\ Elapsed(time) <= Frequency - 3
    /\ LoadShown

LEMMA UsageSizes ==
    /\ Frequency \in Positive /\ Frequency \in Int /\ Frequency > 3
    /\ Threshold \in Int /\ 0 <= Threshold
    /\ CounterWrap \in Positive /\ CounterWrap \in Int /\ CounterWrap > Frequency
    /\ Scale \in Positive /\ Scale \in Int /\ Scale > 0
    /\ Error \in Int /\ 0 <= Error /\ 200 * Error < Scale
    /\ MaxRound \in Int
    /\ \A n \in BusyTimes : n \in Int /\ n > 0
<1>1. /\ Frequency \in Nat /\ Threshold \in Nat /\ CounterWrap \in Nat /\ Scale \in Nat \ {0}
      /\ Threshold > 3 /\ Threshold < Frequency /\ CounterWrap > Frequency
  BY UsageAssumption DEF UsageAssumption
<1>2. /\ Error \in Nat /\ 200 * Error < Scale /\ MaxRound \in Nat
      /\ BusyTimes \subseteq Nat \ {0}
  BY UsageAssumption DEF UsageAssumption
<1> QED BY <1>1, <1>2, SMT DEF Positive

LEMMA ElapsedType ==
    ASSUME clock \in Times, NEW since \in Times
    PROVE  Elapsed(since) \in Int /\ 0 <= Elapsed(since) /\ Elapsed(since) < CounterWrap
<1>1. clock - since \in Int
  BY UsageSizes, SMT DEF Times
<1> QED BY <1>1, UsageSizes, Division DEF Elapsed

\* The counter wraps around, the time elapsed does not, as long as it fits.
LEMMA ElapsedGrows ==
    ASSUME clock \in Times, NEW since \in Times, NEW n \in Int, 0 <= n,
           clock' = (clock + n) % CounterWrap, Elapsed(since) + n < CounterWrap
    PROVE  /\ clock' \in Times
           /\ (clock' - since) % CounterWrap = Elapsed(since) + n
<1> DEFINE e == Elapsed(since)
           q == (clock - since) \div CounterWrap
           d == n - since
<1>1. /\ clock \in Int /\ since \in Int /\ d \in Int /\ clock + n \in Int
  BY UsageSizes, SMT DEF Times
<1>2. clock' \in Int /\ 0 <= clock' /\ clock' < CounterWrap
  BY <1>1, UsageSizes, Division
<1>3. /\ q \in Int /\ CounterWrap * q \in Int /\ e \in Int /\ 0 <= e
      /\ clock - since = CounterWrap * q + e
  <2>1. clock - since \in Int
    BY <1>1, SMT
  <2> QED BY <2>1, UsageSizes, Division DEF Elapsed
<1>4. CounterWrap % CounterWrap = 0
  <2>1. CounterWrap = CounterWrap * 1 + 0
    BY UsageSizes, SMT
  <2> QED BY <2>1, UsageSizes, RemainderIs
<1>5. (clock' - since) % CounterWrap = (clock + n - since) % CounterWrap
  <2> DEFINE s == -since
             c == clock + n
  <2>1. /\ s \in Int /\ c \in Int /\ clock' - since = clock' + s
        /\ clock + n - since = c + s /\ clock' = c % CounterWrap
    BY <1>1, <1>2, SMT
  <2> HIDE DEF s, c
  <2>2. CounterWrap \in Positive
    BY UsageSizes
  <2>3. ((c % CounterWrap) + s) % CounterWrap = (c + s) % CounterWrap
    BY <1>4, <2>1, <2>2, RemainderOfRemainder
  <2> QED BY <2>1, <2>3
<1>6. (clock + n - since) % CounterWrap = e + n
  <2> DEFINE a == clock + n - since
  <2> HIDE DEF e, q
  <2>1. a \in Int /\ e + n \in Int /\ 0 <= e + n /\ a = CounterWrap * q + (e + n)
    BY <1>1, <1>3, SMT
  <2> DEFINE f == e + n
  <2>2. f < CounterWrap /\ f \in Int /\ 0 <= f /\ a = CounterWrap * q + f
    BY <2>1 DEF e
  <2> HIDE DEF a, f
  <2>3. CounterWrap \in Positive /\ q \in Int
    BY <1>3, UsageSizes
  <2>4. a % CounterWrap = f
    BY <2>1, <2>2, <2>3, RemainderIs
  <2> QED BY <2>4 DEF a, f
<1>7. clock' \in Times
  BY <1>2, UsageSizes, SMT DEF Times
<1> QED BY <1>5, <1>6, <1>7

\* Loads and the cycles of up to a second, as numbers.
LEMMA LoadNumbers ==
    ASSUME NEW u \in 0..(Scale + Error), NEW d \in 0..Frequency
    PROVE  /\ u \in Int /\ 0 <= u /\ u <= Scale + Error
           /\ d \in Int /\ 0 <= d /\ d <= Frequency
           /\ Frequency * u \in Int /\ (Scale - u) * d \in Int /\ u * d \in Int
           /\ Frequency * Error \in Int /\ Frequency * Scale \in Int /\ Scale * d \in Int
<1>1. /\ u \in Int /\ 0 <= u /\ u <= Scale + Error
      /\ d \in Int /\ 0 <= d /\ d <= Frequency
  BY UsageSizes, SMT
<1>2. /\ Frequency \in Int /\ Error \in Int /\ Scale \in Int /\ Scale - u \in Int
  BY <1>1, UsageSizes, SMT
<1> QED BY <1>1, <1>2, SMT

\* A float sum is a number that is close to the exact one.
LEMMA FloatSumIs ==
    ASSUME NEW u \in Int, NEW c \in Int, NEW x \in FloatSum(u, c)
    PROVE  /\ x \in Int
           /\ Frequency * x \in Int /\ Frequency * u \in Int /\ Frequency * Error \in Int
           /\ Frequency * x <= Frequency * u + c + Frequency * Error
           /\ Frequency * u + c <= Frequency * x + Frequency * Error
           /\ c >= 0 => x >= u
           /\ c <= 0 => x <= u
           /\ Frequency * u + c >= 0 => x >= 0
<1> DEFINE q == c \div Frequency
           fe == Frequency * Error
           fx == Frequency * x
           fu == Frequency * u
<1>1. q \in Int /\ Error \in Int /\ Frequency \in Int
  BY UsageSizes, Division
<1>2. /\ x \in ((u + q) - Error)..(u + q + 1 + Error)
      /\ Frequency * (x - u) <= c + Frequency * Error
      /\ Frequency * (x - u) >= c - Frequency * Error
      /\ c >= 0 => x >= u
      /\ c <= 0 => x <= u
      /\ Frequency * u + c >= 0 => x >= 0
  <2>1. SumMayBe(u, c, x) /\ x \in ((u + q) - Error)..(u + q + 1 + Error)
    BY DEF FloatSum
  <2> QED BY <2>1 DEF SumMayBe
<1>3. x \in Int
  <2> HIDE DEF q
  <2> QED BY <1>1, <1>2, SMT
<1>4. Frequency * (x - u) = fx - fu /\ fx \in Int /\ fu \in Int /\ fe \in Int
  BY <1>1, <1>3, SMT
<1>5. fx - fu <= c + fe /\ fx - fu >= c - fe
  BY <1>2, <1>4
<1> HIDE DEF fe, fx, fu
<1>6. fx <= fu + c + fe /\ fu + c <= fx + fe
  BY <1>4, <1>5, SMT
<1> QED BY <1>2, <1>3, <1>4, <1>6 DEF fe, fx, fu

\* A multiple of the frequency that is not greater.
LEMMA PerSecond ==
    ASSUME NEW a \in Int, NEW b \in Int, Frequency * a <= Frequency * b
    PROVE  a <= b
<1>1. b < a => Frequency * b + Frequency <= Frequency * a
  BY UsageSizes, Multiples
<1>2. Frequency * a \in Int /\ Frequency * b \in Int /\ Frequency \in Int /\ Frequency > 0
  BY UsageSizes, SMT
<1> DEFINE x == Frequency * a
           y == Frequency * b
<1> HIDE DEF x, y
<1>3. (b < a => y + Frequency <= x) /\ x <= y /\ x \in Int /\ y \in Int
  BY <1>1, <1>2 DEF x, y
<1> QED BY <1>2, <1>3, SMT

\* The load after d busy cycles is, but for the error, not below their share,
\* nor above the scale.
LEMMA RaisedBounds ==
    ASSUME NEW u \in 0..(Scale + Error), NEW d \in 0..Frequency, NEW x \in Raised(u, d)
    PROVE  /\ x \in 0..(Scale + Error)
           /\ Scale * d <= Frequency * x + Frequency * Error
<1> DEFINE c == (Scale - u) * d
           fe == Frequency * Error
           fx == Frequency * x
           fu == Frequency * u
           fs == Frequency * Scale
           sd == Scale * d
           ud == u * d
<1>1. /\ u \in Int /\ 0 <= u /\ u <= Scale + Error
      /\ d \in Int /\ 0 <= d /\ d <= Frequency
      /\ fu \in Int /\ c \in Int /\ ud \in Int /\ fe \in Int /\ fs \in Int /\ sd \in Int
  BY LoadNumbers
<1>2. x \in FloatSum(u, c)
  BY DEF Raised
<1>3. /\ x \in Int /\ fx \in Int
      /\ fx <= fu + c + fe /\ fu + c <= fx + fe
      /\ c >= 0 => x >= u
      /\ c <= 0 => x <= u
      /\ fu + c >= 0 => x >= 0
  <2> HIDE DEF c
  <2> QED BY <1>1, <1>2, FloatSumIs
<1>4. c = sd - ud
  BY <1>1, UsageSizes, SMT
<1>5. sd <= fs /\ 0 <= sd
  <2>1. Scale \in Nat
    BY UsageSizes, SMT
  <2>2. Scale * 0 <= Scale * d /\ Scale * d <= Scale * Frequency
    BY <1>1, <2>1, UsageSizes, Monotonic
  <2>3. Scale * 0 = 0 /\ Scale * Frequency = fs
    BY UsageSizes, SMT
  <2> QED BY <2>2, <2>3
<1>6. ud <= fu /\ 0 <= ud
  <2>1. u \in Nat
    BY <1>1, SMT
  <2>2. u * 0 <= u * d /\ u * d <= u * Frequency
    BY <1>1, <2>1, UsageSizes, Monotonic
  <2>3. u * 0 = 0 /\ u * Frequency = fu
    BY <1>1, UsageSizes, SMT
  <2> QED BY <2>2, <2>3
<1>7. CASE u <= Scale
  <2>1. 0 <= c /\ c <= fs - fu
    <3> DEFINE m == Scale - u
    <3>1. m \in Nat
      BY <1>1, <1>7, UsageSizes, SMT
    <3>2. m * 0 <= m * d /\ m * d <= m * Frequency
      BY <1>1, <3>1, UsageSizes, Monotonic
    <3>3. m * 0 = 0 /\ m * Frequency = fs - fu /\ m * d = c
      BY <1>1, UsageSizes, SMT
    <3> HIDE DEF m, c, fs, fu
    <3> QED BY <3>2, <3>3
  <2> HIDE DEF c, fe, fx, fu, fs, sd, ud
  <2>2. fx <= fs + fe /\ 0 <= x
    BY <1>1, <1>3, <2>1, SMT
  <2>3. x <= Scale + Error
    <3>1. Frequency * (Scale + Error) = fs + fe /\ Scale + Error \in Int
      BY UsageSizes, SMT DEF fs, fe
    <3>2. Frequency * x <= Frequency * (Scale + Error)
      BY <2>2, <3>1 DEF fx
    <3> QED BY <1>3, <3>1, <3>2, PerSecond
  <2>4. sd <= fx + fe
    BY <1>1, <1>3, <1>4, <1>6, SMT
  <2>5. x \in 0..(Scale + Error)
    BY <1>3, <2>2, <2>3, UsageSizes, SMT
  <2> QED BY <2>4, <2>5 DEF sd, fx, fe
<1>8. CASE u > Scale
  <2>1. c <= 0
    <3> DEFINE m == u - Scale
    <3>1. m \in Nat
      BY <1>1, <1>8, UsageSizes, SMT
    <3>2. m * 0 <= m * d
      BY <1>1, <3>1, UsageSizes, Monotonic
    <3>3. m * 0 = 0 /\ m * d = -c
      BY <1>1, UsageSizes, SMT
    <3> HIDE DEF m, c
    <3> QED BY <1>1, <3>2, <3>3, SMT
  <2> HIDE DEF c, fe, fx, fu, fs, sd, ud
  <2>2. fu + c >= 0 /\ sd <= fx + fe
    BY <1>1, <1>3, <1>4, <1>5, <1>6, SMT
  <2>3. x \in 0..(Scale + Error)
    BY <1>1, <1>3, <2>1, <2>2, UsageSizes, SMT
  <2> QED BY <2>2, <2>3 DEF sd, fx, fe
<1> QED BY <1>1, <1>7, <1>8, UsageSizes, SMT

\* A step of the idle thread takes one cycle.
LEMMA OneCycle ==
    ASSUME UsageInv, IdleRuns, NEW since \in Times, Elapsed(since) <= Frequency - 1
    PROVE  /\ clock' \in Times
           /\ (clock' - since) % CounterWrap = Elapsed(since) + 1
           /\ LoadShown'
<1>1. clock \in Times /\ clock' = (clock + 1) % CounterWrap
  BY DEF UsageInv, IdleRuns
<1>2. Elapsed(since) + 1 < CounterWrap
  <2>1. Elapsed(since) \in Int
    BY <1>1, ElapsedType
  <2> QED BY <2>1, UsageSizes, SMT
<1>3. clock' \in Times /\ (clock' - since) % CounterWrap = Elapsed(since) + 1
  BY <1>1, <1>2, ElapsedGrows, SMT
<1>4. LoadShown'
  BY SMT DEF IdleRuns, Nothing, LoadShown, Percentage, UsageSinceUpdate
<1> QED BY <1>3, <1>4

LEMMA IdleReadKeeps ==
    ASSUME UsageInv, IdleRead
    PROVE  UsageInv'
<1> DEFINE e == Elapsed(prevTime)
<1>1. /\ clock \in Times /\ prevTime \in Times /\ IdleRuns
      /\ e <= Frequency - 1
      /\ idlePc' = "store" /\ time' = clock /\ delta' = e /\ later' = 0
      /\ busy' = busy /\ busy \in Nat /\ busy <= e
      /\ prevTime' = prevTime /\ usage' = usage
  BY DEF IdleRead, UsageInv
<1>2. e \in Int /\ 0 <= e
  BY <1>1, ElapsedType
<1>3. Elapsed(clock) = 0
  <2>1. clock - clock = CounterWrap * 0 + 0 /\ clock - clock \in Int
    BY <1>1, UsageSizes, SMT DEF Times
  <2>2. (clock - clock) % CounterWrap = 0
    <3> DEFINE a == clock - clock
    <3>1. a \in Int /\ a = CounterWrap * 0 + 0
      BY <2>1
    <3> HIDE DEF a
    <3>2. a % CounterWrap = 0
      BY <3>1, UsageSizes, RemainderIs
    <3> QED BY <3>2 DEF a
  <2> QED BY <2>2 DEF Elapsed
<1>4. clock' \in Times /\ LoadShown' /\ Elapsed(prevTime)' = e + 1
  <2>1. clock' \in Times /\ LoadShown' /\ (clock' - prevTime) % CounterWrap = e + 1
    BY <1>1, OneCycle
  <2> QED BY <1>1, <2>1 DEF Elapsed
<1>5. Elapsed(time)' = 1
  <2>1. Elapsed(clock) <= Frequency - 1
    BY <1>3, UsageSizes, SMT
  <2>2. (clock' - clock) % CounterWrap = Elapsed(clock) + 1
    BY <1>1, <2>1, OneCycle
  <2>3. (clock' - clock) % CounterWrap = 1
    BY <1>3, <2>2, SMT
  <2> QED BY <1>1, <2>3 DEF Elapsed
<1> HIDE DEF e
<1>6. /\ delta' \in 0..Frequency /\ busy' \in Nat /\ busy' <= Elapsed(prevTime)'
      /\ later' \in Nat /\ later' <= Elapsed(prevTime)'
      /\ Elapsed(prevTime)' <= Frequency
      /\ later' <= Elapsed(time)' /\ Elapsed(time)' <= Elapsed(prevTime)'
      /\ Elapsed(time)' <= Frequency - 3
  BY <1>1, <1>2, <1>4, <1>5, UsageSizes, SMT
<1>7. prevTime' \in Times /\ time' \in Times /\ usage' \in 0..(Scale + Error)
  BY <1>1 DEF UsageInv
<1> QED BY <1>1, <1>4, <1>6, <1>7 DEF UsageInv

LEMMA IdleStoreKeeps ==
    ASSUME UsageInv, IdleStore
    PROVE  UsageInv'
<1> DEFINE t == Elapsed(time)
<1>1. /\ clock \in Times /\ time \in Times /\ IdleRuns
      /\ t <= Frequency - 3 /\ later <= t /\ later \in Nat /\ busy \in Nat
      /\ idlePc' = "update" /\ prevTime' = time /\ time' = 0
      /\ usage' = usage /\ delta' = delta /\ busy' = busy /\ later' = later
  BY DEF IdleStore, StoredTime, UsageInv
<1>2. t \in Int /\ 0 <= t
  BY <1>1, ElapsedType
<1>3. clock' \in Times /\ LoadShown' /\ Elapsed(prevTime)' = t + 1
  <2>1. t <= Frequency - 1
    <3> HIDE DEF t
    <3> QED BY <1>1, <1>2, UsageSizes, SMT
  <2>2. clock' \in Times /\ LoadShown' /\ (clock' - time) % CounterWrap = t + 1
    BY <1>1, <2>1, OneCycle
  <2> QED BY <1>1, <2>2 DEF Elapsed
<1> HIDE DEF t
<1>4. /\ busy' \in Nat /\ later' \in Nat /\ later' <= Elapsed(prevTime)'
      /\ Elapsed(prevTime)' <= Frequency - 2
      /\ 0 \in Times
  BY <1>1, <1>2, <1>3, UsageSizes, SMT DEF Times
<1>5. usage' \in 0..(Scale + Error) /\ delta' \in 0..Frequency
  BY <1>1 DEF UsageInv
<1> QED BY <1>1, <1>3, <1>4, <1>5 DEF UsageInv

\* The estimate decays to no less than 0.
LEMMA Decays ==
    ASSUME NEW u \in 0..(Scale + Error), NEW d \in 0..Frequency, NEW x \in Decayed(u, d)
    PROVE  x \in 0..(Scale + Error)
<1> DEFINE ud == u * d
           fu == Frequency * u
           c == -ud
<1>1. /\ u \in Int /\ 0 <= u /\ u <= Scale + Error
      /\ d \in Int /\ 0 <= d /\ d <= Frequency
      /\ fu \in Int /\ ud \in Int
  BY LoadNumbers
<1>2. ud <= fu /\ 0 <= ud
  <2>1. u \in Nat
    BY <1>1, SMT
  <2>2. u * 0 <= u * d /\ u * d <= u * Frequency
    BY <1>1, <2>1, UsageSizes, Monotonic
  <2>3. u * 0 = 0 /\ u * Frequency = fu
    BY <1>1, UsageSizes, SMT
  <2> QED BY <2>2, <2>3
<1>3. x \in FloatSum(u, c)
  BY DEF Decayed
<1> HIDE DEF ud
<1>4. c \in Int /\ c <= 0 /\ fu + c >= 0
  <2> HIDE DEF fu
  <2> QED BY <1>1, <1>2, SMT
<1> HIDE DEF c
<1>5. x \in Int /\ x <= u /\ x >= 0
  BY <1>1, <1>3, <1>4, FloatSumIs
<1> QED BY <1>1, <1>5, UsageSizes, SMT

LEMMA IdleUpdateKeeps ==
    ASSUME UsageInv, IdleUpdate
    PROVE  UsageInv'
<1> DEFINE e == Elapsed(prevTime)
<1>1. /\ clock \in Times /\ prevTime \in Times /\ IdleRuns
      /\ e <= Frequency - 2 /\ later <= e /\ later \in Nat
      /\ idlePc' = "read" /\ delta' = 0
      /\ prevTime' = prevTime /\ time' = time /\ busy' = later /\ later' = later
  BY DEF IdleUpdate, UsageInv
<1>2. e \in Int /\ 0 <= e
  BY <1>1, ElapsedType
<1>3. clock' \in Times /\ LoadShown' /\ Elapsed(prevTime)' = e + 1
  <2>1. e <= Frequency - 1
    <3> HIDE DEF e
    <3> QED BY <1>1, <1>2, UsageSizes, SMT
  <2>2. clock' \in Times /\ LoadShown' /\ (clock' - prevTime) % CounterWrap = e + 1
    BY <1>1, <2>1, OneCycle
  <2> QED BY <1>1, <2>2 DEF Elapsed
<1>4. usage' \in 0..(Scale + Error)
  <2>1. usage \in 0..(Scale + Error) /\ delta \in 0..Frequency
    BY DEF UsageInv
  <2>2. usage' \in Raised(usage, delta) \/ usage' \in Decayed(usage, delta)
    BY DEF IdleUpdate
  <2> QED BY <2>1, <2>2, RaisedBounds, Decays
<1> HIDE DEF e
<1>5. /\ busy' \in Nat /\ busy' <= Elapsed(prevTime)'
      /\ later' \in Nat /\ later' <= Elapsed(prevTime)'
      /\ Elapsed(prevTime)' <= Frequency - 1
      /\ delta' \in 0..Frequency
  BY <1>1, <1>2, <1>3, UsageSizes, SMT
<1>6. prevTime' \in Times /\ time' \in Times
  BY <1>1 DEF UsageInv
<1> QED BY <1>1, <1>3, <1>4, <1>5, <1>6 DEF UsageInv

\* The time others run for is time elapsed since whichever reading.
LEMMA OthersRunKeeps ==
    ASSUME UsageInv, OthersRun, MaxRound <= Frequency
    PROVE  UsageInv'
<1> DEFINE e == Elapsed(prevTime)
           t == Elapsed(time)
<1>1. PICK n \in BusyTimes : /\ e + n + 3 <= MaxRound
                             /\ clock' = (clock + n) % CounterWrap
                             /\ busy' = busy + n /\ later' = later + n
  BY DEF OthersRun
<1>2. /\ clock \in Times /\ prevTime \in Times /\ time \in Times
      /\ shown' = Nothing
      /\ UNCHANGED <<prevTime, usage, idlePc, time, delta>>
      /\ later \in Nat /\ later <= e
      /\ busy \in Nat /\ (idlePc # "update" => busy <= e)
  BY DEF OthersRun, UsageInv
<1>3. e \in Int /\ 0 <= e /\ t \in Int /\ 0 <= t /\ n \in Int /\ n > 0
  BY <1>2, UsageSizes, ElapsedType
<1>10. e + n + 3 <= Frequency
  <2> HIDE DEF e
  <2> QED BY <1>1, <1>3, UsageSizes, SMT
<1>4. clock' \in Times /\ Elapsed(prevTime)' = e + n
  <2>1. e + n < CounterWrap /\ 0 <= n
    <3> HIDE DEF e
    <3> QED BY <1>3, <1>10, UsageSizes, SMT
  <2>2. clock' \in Times /\ (clock' - prevTime) % CounterWrap = e + n
    BY <1>1, <1>2, <1>3, <2>1, ElapsedGrows
  <2> QED BY <1>2, <2>2 DEF Elapsed
<1>5. ASSUME idlePc = "store"
      PROVE  later <= t /\ t <= e /\ Elapsed(time)' = t + n
  <2>1. later <= t /\ t <= e
    BY <1>5 DEF UsageInv
  <2>2. t + n < CounterWrap /\ 0 <= n
    <3> HIDE DEF e, t
    <3> QED BY <1>3, <1>10, <2>1, UsageSizes, SMT
  <2>3. (clock' - time) % CounterWrap = t + n
    BY <1>1, <1>2, <1>3, <2>2, ElapsedGrows
  <2>4. Elapsed(time)' = t + n
    BY <1>2, <2>3 DEF Elapsed
  <2> QED BY <2>1, <2>4
<1> HIDE DEF e, t
<1>6. /\ later' \in Nat /\ later' <= Elapsed(prevTime)'
      /\ busy' \in Nat /\ (idlePc # "update" => busy' <= Elapsed(prevTime)')
      /\ Elapsed(prevTime)' <= Frequency /\ Elapsed(prevTime)' <= Frequency - 1
      /\ Elapsed(prevTime)' <= Frequency - 2
  BY <1>1, <1>2, <1>3, <1>4, <1>10, UsageSizes, SMT
<1>7. ASSUME idlePc = "store"
      PROVE  /\ later' <= Elapsed(time)'
             /\ Elapsed(time)' <= Elapsed(prevTime)'
             /\ Elapsed(time)' <= Frequency - 3
  BY <1>1, <1>2, <1>3, <1>4, <1>5, <1>7, <1>10, UsageSizes, SMT
<1>8. LoadShown'
  BY <1>2, SMT DEF Nothing, LoadShown, Percentage, UsageSinceUpdate
<1>9. /\ prevTime' \in Times /\ time' \in Times /\ usage' \in 0..(Scale + Error)
      /\ delta' \in 0..Frequency /\ idlePc' \in {"read", "store", "update"}
      /\ idlePc' = idlePc
  BY <1>2 DEF UsageInv
<1> QED BY <1>4, <1>6, <1>7, <1>8, <1>9 DEF UsageInv

\* What a percentage is computed from.
LEMMA PercentsAre ==
    ASSUME NEW u \in 0..(Scale + Error), NEW percent \in Percents(u)
    PROVE  \E w \in Int : /\ 0 <= w /\ u - Error <= w /\ w <= Scale + 2 * Error
                          /\ percent = (w * 100) \div Scale
<1>1. u \in Int /\ 0 <= u /\ u <= Scale + Error /\ Error \in Int
  BY UsageSizes, SMT
<1>2. PICK w \in {v \in (u - Error)..(u + Error) : u >= 0 => v >= 0} :
          percent = Truncated(w * 100)
  BY DEF Percents
<1>3. w \in Int /\ 0 <= w /\ u - Error <= w /\ w <= Scale + 2 * Error /\ w * 100 >= 0
  BY <1>1, <1>2, UsageSizes, SMT
<1>4. percent = (w * 100) \div Scale
  BY <1>2, <1>3 DEF Truncated
<1> QED BY <1>3, <1>4

\* It is one, ...
LEMMA PercentOf ==
    ASSUME NEW u \in 0..(Scale + Error), NEW percent \in Percents(u)
    PROVE  percent \in 0..100
<1>1. PICK w \in Int : /\ 0 <= w /\ u - Error <= w /\ w <= Scale + 2 * Error
                       /\ percent = (w * 100) \div Scale
  BY PercentsAre
<1> DEFINE a == w * 100
<1>2. /\ a \in Int /\ Scale * 0 <= a /\ a < Scale * 101 /\ Scale \in Positive
  BY <1>1, UsageSizes, SMT
<1> HIDE DEF a
<1>3. 0 <= a \div Scale /\ a \div Scale < 101 /\ a \div Scale \in Int
  <2>1. 0 \in Int /\ 101 \in Int
    OBVIOUS
  <2>2. 0 <= a \div Scale /\ a \div Scale < 101
    BY <1>2, <2>1, QuotientBounds
  <2> QED BY <1>2, <2>2, Division
<1>4. percent = a \div Scale
  BY <1>1 DEF a
<1> QED BY <1>3, <1>4, SMT

\* ... and that of a load raised by d cycles not less than that of a part of
\* them, but for one percent.
LEMMA ShareShown ==
    ASSUME NEW u \in 0..(Scale + Error), NEW d \in 0..Frequency, NEW b \in Nat, b <= d,
           NEW x \in Raised(u, d), NEW percent \in Percents(x)
    PROVE  (b * 100) \div Frequency <= percent + 1
<1> DEFINE a == b * 100
           k == a \div Frequency
<1>1. x \in 0..(Scale + Error) /\ Scale * d <= Frequency * x + Frequency * Error
  BY RaisedBounds
<1>2. PICK w \in Int : /\ 0 <= w /\ x - Error <= w /\ w <= Scale + 2 * Error
                       /\ percent = (w * 100) \div Scale
  BY <1>1, PercentsAre
<1>3. percent \in Int
  BY <1>1, PercentOf, SMT
<1>4. a \in Int /\ k \in Int /\ Frequency * k \in Int /\ Frequency * k <= a
  <2>1. a \in Int
    BY SMT
  <2> HIDE DEF a
  <2>2. /\ k \in Int /\ Frequency * k \in Int /\ 0 <= a % Frequency /\ a % Frequency \in Int
        /\ a = Frequency * k + (a % Frequency)
    BY <2>1, UsageSizes, Division
  <2> DEFINE fk == Frequency * k
             t == a % Frequency
  <2>3. fk \in Int /\ 0 <= t /\ t \in Int /\ a = fk + t
    BY <2>2
  <2> HIDE DEF fk, t
  <2>4. fk <= a
    BY <2>1, <2>3, SMT
  <2> QED BY <2>1, <2>2, <2>4 DEF fk
<1> HIDE DEF k
<1>5. Scale * (Frequency * k) <= (Scale * d) * 100 /\ Scale * (Frequency * k) \in Int
  <2>1. Scale \in Nat /\ d \in Int /\ a \in Int
    BY <1>4, UsageSizes, SMT
  <2>2. Frequency * k <= d * 100
    BY <1>4, <2>1, SMT
  <2> DEFINE fk == Frequency * k
             e == d * 100
  <2>3. fk \in Int /\ e \in Int /\ fk <= e /\ Scale * e = (Scale * d) * 100
    BY <1>4, <2>1, <2>2, SMT
  <2> HIDE DEF fk, e
  <2>4. Scale * fk <= Scale * e /\ Scale * fk \in Int
    BY <2>1, <2>3, Monotonic
  <2> QED BY <2>3, <2>4 DEF fk
<1>6. Scale * k <= w * 100 + Scale /\ Scale * k \in Int
  <2> DEFINE y == w * 100 + Scale
             sk == Scale * k
  <2>1. x \in Int /\ sk \in Int /\ y \in Int /\ Scale \in Int /\ Error \in Int
    BY <1>1, <1>4, UsageSizes, SMT
  <2>2. x + Error <= w + 2 * Error /\ (w + 2 * Error) * 100 <= y
    BY <1>2, <2>1, UsageSizes, SMT
  <2>3. Frequency * sk = Scale * (Frequency * k)
    BY <1>4, UsageSizes, SMT
  <2>4. Frequency * (x + Error) = Frequency * x + Frequency * Error
        /\ x + Error \in Int
    BY <2>1, UsageSizes, SMT
  <2> DEFINE v == x + Error
             fv == Frequency * v
             sd == Scale * d
  <2>5. sd <= fv /\ v \in Int /\ (v * 100) <= y
    BY <1>1, <2>1, <2>2, <2>4, SMT
  <2>6. sd \in Int /\ fv \in Int
    <3>1. d \in Int /\ v \in Int /\ Frequency \in Int /\ Scale \in Int
      BY <2>4, UsageSizes, SMT
    <3> HIDE DEF v
    <3> QED BY <3>1, SMT
  <2>7. fv * 100 = Frequency * (v * 100)
    <3> HIDE DEF v
    <3> QED BY <2>5, UsageSizes, SMT
  <2>8. Frequency * sk <= sd * 100
    BY <1>5, <2>3
  <2>9. Frequency * sk \in Int
    <3> HIDE DEF sk
    <3> QED BY <2>1, UsageSizes, SMT
  <2>10. Frequency * sk <= Frequency * (v * 100)
    <3> DEFINE fs == Frequency * sk
               z == Frequency * (v * 100)
    <3>1. fs \in Int /\ fs <= sd * 100 /\ fv * 100 = z
      BY <2>7, <2>8, <2>9
    <3> HIDE DEF fs, z, sd, fv
    <3>2. fs <= z
      BY <2>5, <2>6, <3>1, SMT
    <3> QED BY <3>2 DEF fs, z
  <2> HIDE DEF sk, y, v
  <2>11. v * 100 \in Int
    BY <2>5, SMT
  <2>12. sk <= v * 100
    BY <2>1, <2>10, <2>11, PerSecond
  <2>13. sk <= y
    BY <2>1, <2>5, <2>11, <2>12, SMT
  <2> QED BY <2>1, <2>13 DEF sk, y
<1>7. k - 1 <= percent
  <2> DEFINE y == w * 100
             j == k - 1
  <2>1. Scale * j <= y /\ j \in Int /\ y \in Int
    BY <1>4, <1>6, UsageSizes, SMT
  <2> HIDE DEF y, j
  <2>2. j <= y \div Scale
    BY <2>1, UsageSizes, QuotientBounds
  <2> QED BY <1>2, <2>2 DEF y, j
<1>8. k <= percent + 1
  BY <1>3, <1>4, <1>7, SMT
<1> QED BY <1>8 DEF k, a

LEMMA GetCpuUsageKeeps ==
    ASSUME UsageInv, GetCpuUsage
    PROVE  UsageInv'
<1> DEFINE d == Elapsed(prevTime)
<1>1. /\ clock \in Times /\ prevTime \in Times /\ usage \in 0..(Scale + Error)
      /\ later \in Nat /\ later <= d /\ d <= Frequency
      /\ busy \in Nat /\ (idlePc # "update" => busy <= d)
  <2>1. d \in Int
    BY ElapsedType DEF UsageInv
  <2>2. d <= Frequency
    <3> HIDE DEF d
    <3> QED BY <2>1, UsageSizes, SMT DEF UsageInv, d
  <2> QED BY <2>2 DEF UsageInv
<1>2. d \in 0..Frequency /\ d \in Int
  <2>1. d \in Int /\ 0 <= d
    BY <1>1, ElapsedType
  <2> HIDE DEF d
  <2> QED BY <1>1, <2>1, UsageSizes, SMT
<1>3. UNCHANGED <<clock, prevTime, usage, idlePc, time, delta, busy, later>>
  BY DEF GetCpuUsage
<1>4. PICK u \in (IF d > Threshold THEN Raised(usage, d) ELSE {usage}) :
          \E percent \in Percents(u) :
              shown' = [percent |-> percent, busy |-> Share(busy), later |-> Share(later)]
  BY DEF GetCpuUsage
<1>5. PICK percent \in Percents(u) :
          shown' = [percent |-> percent, busy |-> Share(busy), later |-> Share(later)]
  BY <1>4
<1> HIDE DEF d
<1>6. u \in 0..(Scale + Error)
  <2>1. CASE d > Threshold
    <3>1. u \in Raised(usage, d)
      BY <1>4, <2>1
    <3> QED BY <1>1, <1>2, <3>1, RaisedBounds
  <2>2. CASE ~(d > Threshold)
    BY <1>1, <1>4, <2>2
  <2> QED BY <2>1, <2>2
<1>7. percent \in 0..100
  BY <1>5, <1>6, PercentOf
<1>8. ASSUME NEW b \in Nat, b <= d
      PROVE  Share(b) <= percent + 1
  <2>1. CASE b > Threshold
    <3>1. d > Threshold
      BY <1>2, <1>8, <2>1, UsageSizes, SMT
    <3>2. u \in Raised(usage, d)
      BY <1>4, <3>1
    <3>3. (b * 100) \div Frequency <= percent + 1
      BY <1>1, <1>2, <1>5, <1>8, <3>2, ShareShown
    <3> QED BY <2>1, <3>3 DEF Share
  <2>2. CASE ~(b > Threshold)
    <3>1. Share(b) = 0
      BY <2>2 DEF Share
    <3> QED BY <1>7, <3>1, SMT
  <2> QED BY <2>1, <2>2
<1>9. LoadShown'
  <2>1. Share(later) <= percent + 1 /\ (idlePc # "update" => Share(busy) <= percent + 1)
    BY <1>1, <1>8
  <2>2. shown'.percent = percent /\ shown'.busy = Share(busy) /\ shown'.later = Share(later)
    BY <1>5
  <2> QED BY <1>3, <1>7, <2>1, <2>2 DEF LoadShown, Percentage, UsageSinceUpdate
<1> QED BY <1>3, <1>9 DEF UsageInv, Elapsed

LEMMA UsageInvariant ==
    ASSUME MaxRound <= Frequency
    PROVE  Spec => []UsageInv
<1>1. Init => UsageInv
  <2> SUFFICES ASSUME Init PROVE UsageInv
    OBVIOUS
  <2>1. /\ clock = 0 /\ prevTime = 0 /\ usage = 0 /\ idlePc = "read" /\ time = 0
        /\ delta = 0 /\ busy = 0 /\ later = 0 /\ shown = Nothing
    BY DEF Init, UsageInit
  <2>2. Elapsed(prevTime) = 0
    <3>1. 0 - 0 = 0 /\ 0 = CounterWrap * 0 + 0
      BY UsageSizes, SMT
    <3>2. 0 % CounterWrap = 0
      BY <3>1, UsageSizes, RemainderIs
    <3> QED BY <2>1, <3>1, <3>2 DEF Elapsed
  <2>3. 0 \in Times /\ 0 \in 0..(Scale + Error) /\ 0 \in 0..Frequency /\ 0 <= Frequency - 1
    BY UsageSizes, SMT DEF Times
  <2>4. LoadShown
    BY <2>1, SMT DEF Nothing, LoadShown, Percentage, UsageSinceUpdate
  <2> QED BY <2>1, <2>2, <2>3, <2>4, SMT DEF UsageInv
<1>2. UsageInv /\ [Next]_vars => UsageInv'
  <2> SUFFICES ASSUME UsageInv, [Next]_vars PROVE UsageInv'
    OBVIOUS
  <2>1. CASE UsageNext
    BY <2>1, IdleReadKeeps, IdleStoreKeeps, IdleUpdateKeeps, OthersRunKeeps,
       GetCpuUsageKeeps DEF UsageNext
  <2>2. CASE UNCHANGED usageVars
    BY <2>2 DEF usageVars, UsageInv, Elapsed, LoadShown, Percentage, UsageSinceUpdate
  <2> QED BY <2>1, <2>2 DEF Next, vars
<1> QED BY <1>1, <1>2, PTL DEF Spec

\* As long as the idle thread gets around its loop within a second, the load
\* shown is a percentage that contains, but for rounding, the work the estimate
\* does not contain yet: wherever in its loop the idle thread is preempted, all
\* since the counter was last read, and more except between storing it and
\* updating the estimate (debug.c:106-138).
THEOREM NoWorkIsLost ==
    ASSUME MaxRound <= Frequency
    PROVE  Spec => []LoadShown
<1>1. UsageInv => LoadShown
  BY DEF UsageInv
<1> QED BY <1>1, UsageInvariant, PTL

-----------------------------------------------------------------------------
(* The filter.  The phase says how many samples there are since the last   *)
(* output: it counts to twice the divider.                                 *)

SinceOutput == IF phase < Divider THEN phase ELSE phase - Divider

FilterInv ==
    /\ phase \in 0..(2 * Divider - 1)
    /\ left \in Nat
    /\ taken \in Seq(Samples)
    /\ \E S : produced \in Seq(S)
    /\ Len(taken) = Divider * Len(produced) + SinceOutput
    /\ \A n \in DOMAIN produced : produced[n].after = n * Divider

LEMMA FilterSizes ==
    /\ Divider \in Positive /\ Divider \in Int /\ Divider > 0
    /\ FastLoop => Divider = 3
    /\ CallSizes \subseteq Nat
BY FilterAssumption, SMT DEF FilterAssumption, Positive

\* A list with one more entry, of whatever kind.
LEMMA Appended ==
    ASSUME NEW S, NEW list \in Seq(S), NEW e
    PROVE  /\ Append(list, e) \in Seq(S \cup {e})
           /\ Len(list) \in Nat /\ DOMAIN list = 1..Len(list)
           /\ Len(Append(list, e)) = Len(list) + 1
           /\ DOMAIN Append(list, e) = 1..(Len(list) + 1)
           /\ \A n \in 1..Len(list) : Append(list, e)[n] = list[n]
           /\ Append(list, e)[Len(list) + 1] = e
<1>1. list \in Seq(S \cup {e})
  BY SMT
<1> QED BY <1>1, AppendProperties, LenProperties, SMT

\* One more output at its time.
LEMMA OneMore ==
    ASSUME NEW S, NEW list \in Seq(S), NEW value, NEW after,
           \A n \in DOMAIN list : list[n].after = n * Divider,
           after = (Len(list) + 1) * Divider
    PROVE  LET e    == [value |-> value, after |-> after]
               more == Append(list, e)
           IN  /\ more \in Seq(S \cup {e}) /\ Len(more) = Len(list) + 1
               /\ Len(list) \in Nat
               /\ \A n \in DOMAIN more : more[n].after = n * Divider
<1> DEFINE e    == [value |-> value, after |-> after]
           more == Append(list, e)
<1>1. e.after = after
  OBVIOUS
<1> HIDE DEF e
<1>2. /\ more \in Seq(S \cup {e}) /\ Len(list) \in Nat /\ DOMAIN list = 1..Len(list)
      /\ Len(more) = Len(list) + 1 /\ DOMAIN more = 1..(Len(list) + 1)
      /\ \A n \in 1..Len(list) : more[n] = list[n]
      /\ more[Len(list) + 1] = e
  BY Appended
<1> HIDE DEF more
<1>3. ASSUME NEW n \in DOMAIN more PROVE more[n].after = n * Divider
  <2>1. CASE n \in 1..Len(list)
    BY <1>2, <2>1
  <2>2. CASE n = Len(list) + 1
    BY <1>1, <1>2, <2>2
  <2>3. n \in 1..Len(list) \/ n = Len(list) + 1
    BY <1>2, SMT
  <2> QED BY <2>1, <2>2, <2>3
<1> QED BY <1>2, <1>3 DEF e, more

LEMMA SlowKeeps ==
    ASSUME FilterInv, Slow
    PROVE  FilterInv'
<1> DEFINE k == Len(produced)
           l == Len(taken)
           p == IF phase + 1 = 2 * Divider THEN 1 ELSE 0
           v == Scaled(Combed(integrators'[4], p).value)
<1>1. PICK x \in Samples : taken' = Append(taken, x)
  BY DEF Slow
<1>2. taken' \in Seq(Samples) /\ l \in Nat /\ Len(taken') = l + 1
  BY <1>1, AppendProperties, LenProperties DEF FilterInv
<1>3. PICK S : produced \in Seq(S)
  BY DEF FilterInv
<1>4. k \in Nat /\ Divider * k \in Int /\ DOMAIN produced = 1..k
  <2>1. k \in Nat /\ DOMAIN produced = 1..k
    BY <1>3, LenProperties
  <2> HIDE DEF k
  <2> QED BY <2>1, FilterSizes, SMT
<1>5. /\ phase \in Nat /\ phase < 2 * Divider
      /\ l = Divider * k + SinceOutput
      /\ \A n \in DOMAIN produced : produced[n].after = n * Divider
  BY FilterSizes, SMT DEF FilterInv
<1>6. left' \in Nat
  BY SMT DEF Slow, TakeOne, FilterInv
<1>7. CASE phase + 1 \in {Divider, 2 * Divider}
  <2>1. /\ produced' = Append(produced, Output(v, 1))
        /\ phase' = IF p = 1 THEN 0 ELSE phase + 1
    BY <1>7 DEF Slow
  <2> HIDE DEF v, k, l
  <2>2. /\ l + 1 = (k + 1) * Divider
        /\ Divider * (k + 1) = Divider * k + Divider
        /\ phase' \in 0..(2 * Divider - 1) /\ SinceOutput' = 0
    BY <1>4, <1>5, <1>7, <2>1, FilterSizes, SMT DEF SinceOutput
  <2> DEFINE e == [value |-> v, after |-> l + 1]
  <2>3. produced' = Append(produced, e)
    BY <2>1 DEF Output, l
  <2>4. /\ Append(produced, e) \in Seq(S \cup {e})
        /\ Len(Append(produced, e)) = k + 1
        /\ \A n \in DOMAIN Append(produced, e) : Append(produced, e)[n].after = n * Divider
    <3>1. l + 1 = (Len(produced) + 1) * Divider
      BY <2>2 DEF k
    <3> QED BY <1>3, <1>5, <3>1, OneMore DEF k
  <2> HIDE DEF e
  <2>5. /\ \E T : produced' \in Seq(T)
        /\ Len(produced') = k + 1
        /\ \A n \in DOMAIN produced' : produced'[n].after = n * Divider
    BY <2>3, <2>4
  <2>6. Len(taken') = Divider * Len(produced') + SinceOutput'
    BY <1>2, <1>4, <2>2, <2>5, FilterSizes, SMT
  <2> QED BY <1>2, <1>6, <2>2, <2>5, <2>6 DEF FilterInv
<1>8. CASE phase + 1 \notin {Divider, 2 * Divider}
  <2>1. phase' = phase + 1 /\ produced' = produced
    BY <1>8 DEF Slow
  <2> HIDE DEF k, l
  <2>2. phase' \in 0..(2 * Divider - 1) /\ SinceOutput' = SinceOutput + 1
    BY <1>5, <1>8, <2>1, FilterSizes, SMT DEF SinceOutput
  <2>3. SinceOutput \in Int
    BY <1>5, FilterSizes, SMT DEF SinceOutput
  <2>4. Len(taken') = Divider * k + SinceOutput'
    BY <1>2, <1>4, <1>5, <2>2, <2>3, SMT
  <2> QED BY <1>2, <1>3, <1>5, <1>6, <2>1, <2>2, <2>4 DEF FilterInv, k
<1> QED BY <1>7, <1>8

LEMMA FastKeeps ==
    ASSUME FilterInv, Fast
    PROVE  FilterInv'
<1> DEFINE k == Len(produced)
           l == Len(taken)
<1>1. FastLoop /\ phase = 0 /\ left \in Nat /\ left >= 6
  BY SMT DEF Fast, TakeOne, FilterInv
<1>2. Divider = 3 /\ SinceOutput = 0
  BY <1>1, FilterSizes, SMT DEF SinceOutput
<1>3. PICK s \in [1..3 -> Samples], t \in [1..3 -> Samples] :
        /\ produced' = produced \o
               <<Output(Combed(Integrated3(integrators, s)[4], 0).value, 3),
                 Output(Combed(integrators'[4], 1).value, 6)>>
        /\ taken' = taken \o <<s[1], s[2], s[3], t[1], t[2], t[3]>>
  BY DEF Fast
<1>4. taken' \in Seq(Samples) /\ l \in Nat /\ Len(taken') = l + 6
  <2> DEFINE six == <<s[1], s[2], s[3], t[1], t[2], t[3]>>
  <2>1. six \in Seq(Samples) /\ Len(six) = 6
    BY SMT
  <2>2. taken \in Seq(Samples)
    BY DEF FilterInv
  <2> HIDE DEF six
  <2>3. taken \o six \in Seq(Samples) /\ Len(taken \o six) = Len(taken) + Len(six)
    BY <2>1, <2>2, ConcatProperties
  <2>4. taken' = taken \o six
    BY <1>3 DEF six
  <2> QED BY <2>1, <2>2, <2>3, <2>4, LenProperties
<1>5. PICK S : produced \in Seq(S)
  BY DEF FilterInv
<1>6. k \in Nat /\ DOMAIN produced = 1..k
  BY <1>5, LenProperties
<1>7. l = 3 * k /\ \A n \in DOMAIN produced : produced[n].after = n * Divider
  <2>1. l = Divider * k + SinceOutput
    BY DEF FilterInv
  <2> HIDE DEF k, l
  <2>2. l = 3 * k
    BY <1>2, <1>6, <2>1, SMT
  <2> QED BY <2>2 DEF FilterInv
<1> DEFINE v == Combed(Integrated3(integrators, s)[4], 0).value
           w == Combed(integrators'[4], 1).value
           d == [value |-> v, after |-> l + 3]
           e == [value |-> w, after |-> l + 6]
           half == Append(produced, d)
<1>8. produced' = Append(half, e)
  <2>1. produced' = produced \o <<d, e>>
    BY <1>3 DEF Output
  <2> HIDE DEF d, e
  <2>2. produced \in Seq(S \cup {d, e})
    BY <1>5, SMT
  <2>3. produced \o <<d, e>> = Append(Append(produced, d), e)
    BY <2>2, SMT
  <2> QED BY <2>1, <2>3
<1> HIDE DEF v, w
<1>9. /\ l + 3 = (Len(produced) + 1) * Divider
      /\ l + 6 = (Len(produced) + 1 + 1) * Divider
  <2> HIDE DEF k, l
  <2>1. l + 3 = (k + 1) * Divider /\ l + 6 = (k + 1 + 1) * Divider
    BY <1>2, <1>6, <1>7, SMT
  <2> QED BY <2>1 DEF k
<1>10. /\ half \in Seq(S \cup {d}) /\ Len(half) = k + 1
       /\ \A n \in DOMAIN half : half[n].after = n * Divider
  BY <1>5, <1>7, <1>9, OneMore
<1>11. l + 6 = (Len(half) + 1) * Divider
  BY <1>9, <1>10
<1> HIDE DEF half
<1>12. /\ Append(half, e) \in Seq((S \cup {d}) \cup {e}) /\ Len(Append(half, e)) = k + 1 + 1
       /\ \A n \in DOMAIN Append(half, e) : Append(half, e)[n].after = n * Divider
  <2> HIDE DEF d
  <2> QED BY <1>10, <1>11, OneMore
<1> HIDE DEF d, e
<1>13. /\ \E T : produced' \in Seq(T)
       /\ Len(produced') = k + 1 + 1
       /\ \A n \in DOMAIN produced' : produced'[n].after = n * Divider
  BY <1>8, <1>12
<1>14. phase' = phase /\ SinceOutput' = 0 /\ left' = left - 6
  BY <1>1, FilterSizes, SMT DEF Fast, SinceOutput
<1>15. Len(taken') = Divider * Len(produced') + SinceOutput'
  <2> HIDE DEF k, l
  <2> QED BY <1>2, <1>4, <1>6, <1>7, <1>13, <1>14, SMT
<1>16. left' \in Nat /\ phase' \in 0..(2 * Divider - 1)
  BY <1>1, <1>14, SMT DEF FilterInv
<1> QED BY <1>4, <1>13, <1>15, <1>16 DEF FilterInv

LEMMA FilterInvariant == Spec => []FilterInv
<1>1. Init => FilterInv
  <2> SUFFICES ASSUME Init PROVE FilterInv
    OBVIOUS
  <2>1. phase = 0 /\ left = 0 /\ taken = <<>> /\ produced = <<>>
    BY DEF Init, FilterInit
  <2>2. taken \in Seq(Samples) /\ produced \in Seq({}) /\ Len(taken) = 0 /\ Len(produced) = 0
    BY <2>1, SMT
  <2>3. \A n \in DOMAIN produced : produced[n].after = n * Divider
    BY <2>1, SMT
  <2>4. Len(taken) = Divider * Len(produced) + SinceOutput /\ phase \in 0..(2 * Divider - 1)
    BY <2>1, <2>2, FilterSizes, SMT DEF SinceOutput
  <2>5. left \in Nat
    BY <2>1
  <2> QED BY <2>2, <2>3, <2>4, <2>5 DEF FilterInv
<1>2. FilterInv /\ [Next]_vars => FilterInv'
  <2> SUFFICES ASSUME FilterInv, [Next]_vars PROVE FilterInv'
    OBVIOUS
  <2>1. ASSUME NEW n \in CallSizes, Call(n) PROVE FilterInv'
    <3>1. left' \in Nat /\ UNCHANGED <<phase, taken, produced>>
      BY <2>1, FilterSizes DEF Call
    <3> QED BY <3>1 DEF FilterInv, SinceOutput
  <2>2. CASE FilterNext
    BY <2>1, <2>2, SlowKeeps, FastKeeps DEF FilterNext
  <2>3. CASE UNCHANGED filterVars
    BY <2>3 DEF filterVars, FilterInv, SinceOutput
  <2> QED BY <2>2, <2>3 DEF Next, vars
<1> QED BY <1>1, <1>2, PTL DEF Spec

\* A filter of any divider puts out one value after exactly each Divider-th
\* sample, however the samples are split into calls and whichever of its two
\* loops takes them (cic_filter.c:16-212).
THEOREM NoSampleIsLost == Spec => []OutputsOnTime
<1>1. FilterInv => OutputsOnTime
  <2> SUFFICES ASSUME FilterInv PROVE OutputsOnTime
    OBVIOUS
  <2> DEFINE k == Len(produced)
             l == Len(taken)
             r == SinceOutput
  <2>1. k \in Nat /\ l \in Nat
    <3>1. PICK S : produced \in Seq(S)
      BY DEF FilterInv
    <3> QED BY <3>1, LenProperties DEF FilterInv
  <2>2. r \in Int /\ 0 <= r /\ r < Divider /\ l = Divider * k + r
    BY FilterSizes, SMT DEF FilterInv, SinceOutput
  <2> HIDE DEF k, l, r
  <2>3. l \div Divider = k
    BY <2>1, <2>2, FilterSizes, RemainderIs
  <2>4. Len(produced) = Len(taken) \div Divider
    BY <2>3 DEF k, l
  <2> QED BY <2>4 DEF OutputsOnTime, FilterInv
<1> QED BY <1>1, FilterInvariant, PTL

-----------------------------------------------------------------------------
(* The first two integrators.                                              *)

\* The sum of the first n sums.
Twice(f, n) == Summed(Summed(f, n), n)[n]

\* Sums of the same.
LEMMA SumsSame ==
    ASSUME NEW n \in Nat, NEW f, NEW g,
           \A m \in 1..n : g[m] \in Int, \A m \in 1..n : f[m] = g[m]
    PROVE  SumOf(f, n) = SumOf(g, n) /\ Twice(f, n) = Twice(g, n)
<1> DEFINE a == Summed(f, n)
           b == Summed(g, n)
<1>1. n \in 0..n /\ n <= n /\ \A m \in 1..n : m \in 0..n
  BY SMT
<1>2. \A m \in 0..n : a[m] = b[m]
  BY <1>1, SummedSame
<1>3. \A m \in 1..n : b[m] \in Int
  <2>1. b \in [0..n -> Int]
    BY SummedIs
  <2> QED BY <1>1, <2>1
<1> HIDE DEF a, b
<1>4. \A m \in 1..n : a[m] = b[m]
  BY <1>1, <1>2
<1>5. \A m \in 0..n : Summed(a, n)[m] = Summed(b, n)[m]
  BY <1>1, <1>3, <1>4, SummedSame
<1> QED BY <1>1, <1>2, <1>5 DEF SumOf, Twice, a, b

\* One sample more.
LEMMA SumsStep ==
    ASSUME NEW n \in Nat, NEW g, \A m \in 1..(n + 1) : g[m] \in Int
    PROVE  /\ SumOf(g, n) \in Int /\ Twice(g, n) \in Int /\ g[n + 1] \in Int
           /\ SumOf(g, n + 1) = SumOf(g, n) + g[n + 1]
           /\ Twice(g, n + 1) = Twice(g, n) + SumOf(g, n + 1)
<1> DEFINE a == Summed(g, n)
           b == Summed(g, n + 1)
           c == Summed(a, n)
           d == Summed(b, n + 1)
<1>1. /\ n \in 0..n /\ n <= n + 1 /\ n + 1 \in Nat /\ n + 1 \in 1..(n + 1)
      /\ \A m \in 1..n : m \in 1..(n + 1) /\ m \in 0..n
      /\ \A m \in 1..(n + 1) : m \in 0..(n + 1)
      /\ n + 1 - 1 = n
  BY SMT
<1>2. \A m \in 1..n : g[m] \in Int
  BY <1>1
<1>3. a \in [0..n -> Int]
  BY <1>2, SummedIs
<1>4. b \in [0..(n + 1) -> Int] /\ \A m \in 1..(n + 1) : b[m] = b[m - 1] + g[m]
  BY <1>1, SummedIs DEF AreSums
<1>5. \A m \in 0..n : a[m] = b[m]
  BY <1>1, SummedSame
<1> HIDE DEF a, b
<1>6. \A m \in 1..n : a[m] \in Int /\ a[m] = b[m]
  BY <1>1, <1>3, <1>5
<1>7. \A m \in 1..(n + 1) : b[m] \in Int
  BY <1>1, <1>4
<1>8. c \in [0..n -> Int]
  BY <1>6, SummedIs
<1>9. \A m \in 1..(n + 1) : d[m] = d[m - 1] + b[m]
  BY <1>1, <1>7, SummedIs DEF AreSums
<1>10. \A m \in 0..n : c[m] = d[m]
  BY <1>1, <1>6, <1>7, SummedSame
<1> HIDE DEF c, d
<1>11. b[n + 1] = a[n] + g[n + 1] /\ a[n] \in Int
  BY <1>1, <1>3, <1>4, <1>5
<1>12. d[n + 1] = c[n] + b[n + 1] /\ c[n] \in Int
  BY <1>1, <1>8, <1>9, <1>10
<1> QED BY <1>1, <1>11, <1>12 DEF SumOf, Twice, a, b, c, d

\* Three samples more.
LEMMA ThreeSteps ==
    ASSUME NEW n \in Nat, NEW g, \A m \in 1..(n + 3) : g[m] \in Int
    PROVE  LET x == g[n + 1]
               y == g[n + 2]
               z == g[n + 3]
           IN  /\ x \in Int /\ y \in Int /\ z \in Int
               /\ SumOf(g, n) \in Int /\ Twice(g, n) \in Int
               /\ SumOf(g, n + 3) = SumOf(g, n) + x + y + z
               /\ Twice(g, n + 3) = Twice(g, n) + 3 * SumOf(g, n) + 3 * x + 2 * y + z
<1> DEFINE x == g[n + 1]
           y == g[n + 2]
           z == g[n + 3]
<1>1. /\ n + 1 \in Nat /\ n + 2 \in Nat /\ n + 1 + 1 = n + 2 /\ n + 2 + 1 = n + 3
      /\ \A m \in 1..(n + 1) : m \in 1..(n + 3)
      /\ \A m \in 1..(n + 2) : m \in 1..(n + 3)
  BY SMT
<1>2. /\ SumOf(g, n) \in Int /\ Twice(g, n) \in Int /\ x \in Int
      /\ SumOf(g, n + 1) = SumOf(g, n) + x
      /\ Twice(g, n + 1) = Twice(g, n) + SumOf(g, n + 1)
  BY <1>1, SumsStep
<1>3. /\ y \in Int
      /\ SumOf(g, n + 2) = SumOf(g, n + 1) + y
      /\ Twice(g, n + 2) = Twice(g, n + 1) + SumOf(g, n + 2)
  <2> DEFINE k == n + 1
  <2>1. k \in Nat /\ k + 1 = n + 2 /\ \A m \in 1..(k + 1) : g[m] \in Int
    BY <1>1
  <2> HIDE DEF k
  <2>2. /\ g[k + 1] \in Int
        /\ SumOf(g, k + 1) = SumOf(g, k) + g[k + 1]
        /\ Twice(g, k + 1) = Twice(g, k) + SumOf(g, k + 1)
    BY <2>1, SumsStep
  <2> QED BY <2>1, <2>2 DEF k
<1>4. /\ z \in Int
      /\ SumOf(g, n + 3) = SumOf(g, n + 2) + z
      /\ Twice(g, n + 3) = Twice(g, n + 2) + SumOf(g, n + 3)
  <2> DEFINE k == n + 2
  <2>1. k \in Nat /\ k + 1 = n + 3 /\ \A m \in 1..(k + 1) : g[m] \in Int
    BY <1>1
  <2> HIDE DEF k
  <2>2. /\ g[k + 1] \in Int
        /\ SumOf(g, k + 1) = SumOf(g, k) + g[k + 1]
        /\ Twice(g, k + 1) = Twice(g, k) + SumOf(g, k + 1)
    BY <2>1, SumsStep
  <2> QED BY <2>1, <2>2 DEF k
<1> HIDE DEF x, y, z
<1>5. /\ SumOf(g, n + 3) = SumOf(g, n) + x + y + z
      /\ Twice(g, n + 3) = Twice(g, n) + 3 * SumOf(g, n) + 3 * x + 2 * y + z
  BY <1>2, <1>3, <1>4, SMT
<1> QED BY <1>2, <1>3, <1>4, <1>5 DEF x, y, z

\* What an update makes of the remainders of the sums.
LEMMA SingleUpdate ==
    ASSUME NEW w \in Positive, NEW o \in Int, NEW t \in Int, NEW x \in Int
    PROVE  /\ ((o % w) + x) % w = (o + x) % w
           /\ ((t % w) + ((o + x) % w)) % w = (t + (o + x)) % w
<1> DEFINE p == o + x
           q == p % w
<1>1. p \in Int
  OBVIOUS
<1> HIDE DEF p
<1>2. q \in Int
  BY <1>1, Division
<1> HIDE DEF q
<1>3. ((t % w) + q) % w = (t + q) % w
  BY <1>2, SumOfRemainders
<1>4. (q + t) % w = (p + t) % w
  BY <1>1, SumOfRemainders DEF q
<1>5. t + q = q + t /\ p + t = t + p
  BY <1>1, <1>2, SMT
<1>6. ((o % w) + x) % w = (o + x) % w
  BY SumOfRemainders
<1> QED BY <1>3, <1>4, <1>5, <1>6 DEF p, q

LEMMA TripleUpdate ==
    ASSUME NEW w \in Positive, NEW o \in Int, NEW t \in Int, NEW c \in Int
    PROVE  ((t % w) + 3 * (o % w) + c) % w = (t + 3 * o + c) % w
<1> DEFINE r == o % w
           u == t % w
           b1 == 3 * r + c
           b2 == 2 * r + t + c
           b3 == r + o + t + c
           b4 == 2 * o + t + c
<1>1. r \in Int /\ u \in Int
  BY Division
<1> HIDE DEF r, u
<1>2. /\ b1 \in Int /\ b2 \in Int /\ b3 \in Int /\ b4 \in Int
      /\ u + 3 * r + c = u + b1
      /\ t + b1 = r + b2
      /\ o + b2 = r + b3
      /\ o + b3 = r + b4
      /\ o + b4 = t + 3 * o + c
  BY <1>1, SMT
<1> HIDE DEF b1, b2, b3, b4
<1>3. (u + b1) % w = (t + b1) % w
  BY <1>2, SumOfRemainders DEF u
<1>4. (r + b2) % w = (o + b2) % w
  BY <1>2, SumOfRemainders DEF r
<1>5. (r + b3) % w = (o + b3) % w
  BY <1>2, SumOfRemainders DEF r
<1>6. (r + b4) % w = (o + b4) % w
  BY <1>2, SumOfRemainders DEF r
<1>7. (u + 3 * r + c) % w = (t + 3 * o + c) % w
  BY <1>2, <1>3, <1>4, <1>5, <1>6
<1> QED BY <1>7 DEF r, u

\* The recursive function of a single update.
LEMMA IntegratedIs ==
    ASSUME NEW x
    PROVE  /\ Integrated(x)[0] = (integrators[0] + x) % Word
           /\ Integrated(x)[1] = (integrators[1] + Integrated(x)[0]) % Word
<1> DEFINE Updates(g) == g = [k \in Stages |->
                (integrators[k] + (IF k = 0 THEN x ELSE g[k - 1])) % Word]
           Plus(k, y) == (integrators[k] + y) % Word
           i0 == Plus(0, x)
           i1 == Plus(1, i0)
           i2 == Plus(2, i1)
           i3 == Plus(3, i2)
           i4 == Plus(4, i3)
           g == [k \in Stages |-> IF k = 0 THEN i0 ELSE IF k = 1 THEN i1
                                  ELSE IF k = 2 THEN i2 ELSE IF k = 3 THEN i3 ELSE i4]
           u == CHOOSE h : Updates(h)
<1>1. /\ \A k \in Stages : k \in {0, 1, 2, 3, 4}
      /\ 0 \in Stages /\ 1 \in Stages /\ 2 \in Stages /\ 3 \in Stages /\ 4 \in Stages
      /\ 1 - 1 = 0 /\ 2 - 1 = 1 /\ 3 - 1 = 2 /\ 4 - 1 = 3
      /\ 1 # 0 /\ 2 # 0 /\ 2 # 1 /\ 3 # 0 /\ 3 # 1 /\ 3 # 2
      /\ 4 # 0 /\ 4 # 1 /\ 4 # 2 /\ 4 # 3
  BY SMT DEF Stages
<1>2. g[0] = i0 /\ g[1] = i1 /\ g[2] = i2 /\ g[3] = i3 /\ g[4] = i4
  <2> HIDE DEF i0, i1, i2, i3, i4
  <2> QED BY <1>1
<1>3. Updates(g)
  <2> HIDE DEF g
  <2>1. ASSUME NEW k \in Stages
        PROVE  g[k] = Plus(k, IF k = 0 THEN x ELSE g[k - 1])
    <3>1. k = 0 \/ k = 1 \/ k = 2 \/ k = 3 \/ k = 4
      BY <1>1
    <3>2. CASE k = 0
      BY <1>2, <3>2
    <3>3. CASE k = 1
      <4>1. (IF 1 = 0 THEN x ELSE g[1 - 1]) = i0
        BY <1>1, <1>2
      <4> QED BY <1>2, <3>3, <4>1
    <3>4. CASE k = 2
      <4>1. (IF 2 = 0 THEN x ELSE g[2 - 1]) = i1
        BY <1>1, <1>2
      <4> QED BY <1>2, <3>4, <4>1
    <3>5. CASE k = 3
      <4>1. (IF 3 = 0 THEN x ELSE g[3 - 1]) = i2
        BY <1>1, <1>2
      <4> QED BY <1>2, <3>5, <4>1
    <3>6. CASE k = 4
      <4>1. (IF 4 = 0 THEN x ELSE g[4 - 1]) = i3
        BY <1>1, <1>2
      <4> QED BY <1>2, <3>6, <4>1
    <3> HIDE DEF Plus
    <3> QED BY <3>1, <3>2, <3>3, <3>4, <3>5, <3>6
  <2>2. g = [k \in Stages |-> g[k]]
    BY DEF g
  <2> QED BY <2>1, <2>2
<1>4. Updates(u)
  <2> HIDE DEF g, Updates
  <2> QED BY <1>3
<1>5. u = Integrated(x)
  BY DEF Integrated
<1> HIDE DEF u
<1>6. /\ u[0] = (integrators[0] + (IF 0 = 0 THEN x ELSE u[0 - 1])) % Word
      /\ u[1] = (integrators[1] + (IF 1 = 0 THEN x ELSE u[1 - 1])) % Word
  BY <1>1, <1>4
<1>7. (IF 1 = 0 THEN x ELSE u[1 - 1]) = u[0]
  BY <1>1
<1> QED BY <1>5, <1>6, <1>7

LEMMA SumSizes ==
    /\ Word \in Positive
    /\ \A x \in Samples : x \in Int
BY FilterAssumption, SMT DEF FilterAssumption, Positive

\* RunningSums, with the sums named.
LEMMA RunningSumsAre ==
    RunningSums <=> /\ integrators[0] = SumOf(taken, Len(taken)) % Word
                    /\ integrators[1] = Twice(taken, Len(taken)) % Word
BY DEF RunningSums, SumOf, Twice

LEMMA SlowSums ==
    ASSUME taken \in Seq(Samples), RunningSums, Slow
    PROVE  RunningSums'
<1> DEFINE n == Len(taken)
           g == taken'
           o == SumOf(g, n)
           t == Twice(g, n)
<1>1. PICK x \in Samples : integrators' = Integrated(x) /\ taken' = Append(taken, x)
  BY DEF Slow
<1>2. /\ n \in Nat /\ Len(g) = n + 1 /\ g \in Seq(Samples) /\ g[n + 1] = x
      /\ \A m \in 1..n : taken[m] = g[m]
      /\ \A m \in 1..(n + 1) : g[m] \in Samples
  BY <1>1, AppendProperties, LenProperties
<1> HIDE DEF n, g
<1>3. /\ \A m \in 1..(n + 1) : g[m] \in Int
      /\ \A m \in 1..n : g[m] \in Int /\ m \in 1..(n + 1)
  <2>1. \A m \in 1..n : m \in 1..(n + 1)
    BY <1>2, SMT
  <2> QED BY <1>2, <2>1, SumSizes
<1>4. SumOf(taken, n) = o /\ Twice(taken, n) = t
  BY <1>2, <1>3, SumsSame
<1>5. /\ o \in Int /\ t \in Int /\ x \in Int
      /\ SumOf(g, n + 1) = o + x
      /\ Twice(g, n + 1) = t + (o + x)
  BY <1>2, <1>3, SumsStep
<1> HIDE DEF o, t
<1>6. integrators[0] = o % Word /\ integrators[1] = t % Word
  BY <1>4, RunningSumsAre DEF n
<1>7. /\ integrators'[0] = (o + x) % Word
      /\ integrators'[1] = (t + (o + x)) % Word
  <2>1. /\ ((o % Word) + x) % Word = (o + x) % Word
        /\ ((t % Word) + ((o + x) % Word)) % Word = (t + (o + x)) % Word
    BY <1>5, SumSizes, SingleUpdate
  <2>2. /\ Integrated(x)[0] = (integrators[0] + x) % Word
        /\ Integrated(x)[1] = (integrators[1] + Integrated(x)[0]) % Word
    BY IntegratedIs
  <2> QED BY <1>1, <1>6, <2>1, <2>2
<1>8. /\ integrators'[0] = SumOf(taken', Len(taken')) % Word
      /\ integrators'[1] = Twice(taken', Len(taken')) % Word
  BY <1>2, <1>5, <1>7 DEF g
<1> QED BY <1>8 DEF RunningSums, SumOf, Twice

\* The fast loop's summation, for three members of a history g.
LEMMA SummationSums ==
    ASSUME NEW n \in Nat, NEW g, \A m \in 1..(n + 3) : g[m] \in Int, NEW i, NEW s,
           i[0] = SumOf(g, n) % Word, i[1] = Twice(g, n) % Word,
           s[1] = g[n + 1], s[2] = g[n + 2], s[3] = g[n + 3]
    PROVE  /\ Integrated3(i, s)[0] = SumOf(g, n + 3) % Word
           /\ Integrated3(i, s)[1] = Twice(g, n + 3) % Word
<1> DEFINE x == g[n + 1]
           y == g[n + 2]
           z == g[n + 3]
           o == SumOf(g, n)
           t == Twice(g, n)
           r == o % Word
           u == t % Word
<1>1. /\ x \in Int /\ y \in Int /\ z \in Int /\ o \in Int /\ t \in Int
      /\ SumOf(g, n + 3) = o + x + y + z
      /\ Twice(g, n + 3) = t + 3 * o + 3 * x + 2 * y + z
  BY ThreeSteps
<1> HIDE DEF x, y, z, o, t
<1>2. r \in Int /\ u \in Int
  BY <1>1, SumSizes, Division
<1>3. /\ Integrated3(i, s)[0] = (i[0] + 0 + 1 * s[1] + 1 * s[2] + 1 * s[3]) % Word
      /\ Integrated3(i, s)[1] = (i[1] + 3 * i[0] + 3 * s[1] + 2 * s[2] + 1 * s[3]) % Word
  <2>1. /\ 0 \in Stages /\ 1 \in Stages /\ 1 # 0 /\ 1 - 1 = 0
        /\ Factors[0] = <<1, 1, 1>> /\ Factors[1] = <<3, 2, 1>>
    BY SMT DEF Factors, Stages
  <2>2. /\ Factors[0][1] = 1 /\ Factors[0][2] = 1 /\ Factors[0][3] = 1
        /\ Factors[1][1] = 3 /\ Factors[1][2] = 2 /\ Factors[1][3] = 1
    BY <2>1
  <2> HIDE DEF Factors
  <2>3. /\ (IF 0 = 0 THEN 0 ELSE 3 * i[0 - 1]) = 0
        /\ (IF 1 = 0 THEN 0 ELSE 3 * i[1 - 1]) = 3 * i[0]
    BY <2>1
  <2>4. /\ Integrated3(i, s)[0] = (i[0] + (IF 0 = 0 THEN 0 ELSE 3 * i[0 - 1])
               + Factors[0][1] * s[1] + Factors[0][2] * s[2] + Factors[0][3] * s[3]) % Word
        /\ Integrated3(i, s)[1] = (i[1] + (IF 1 = 0 THEN 0 ELSE 3 * i[1 - 1])
               + Factors[1][1] * s[1] + Factors[1][2] * s[2] + Factors[1][3] * s[3]) % Word
    BY <2>1 DEF Integrated3
  <2> QED BY <2>2, <2>3, <2>4
<1>4. /\ i[0] = r /\ i[1] = u /\ s[1] = x /\ s[2] = y /\ s[3] = z
  BY DEF x, y, z, o, t
<1> DEFINE b == x + y + z
           c == 3 * x + 2 * y + z
<1> HIDE DEF r, u
<1>5. /\ b \in Int /\ c \in Int
      /\ r + 0 + 1 * x + 1 * y + 1 * z = r + b
      /\ u + 3 * r + 3 * x + 2 * y + 1 * z = u + 3 * r + c
      /\ o + x + y + z = o + b
      /\ t + 3 * o + 3 * x + 2 * y + z = t + 3 * o + c
  BY <1>1, <1>2, SMT
<1> HIDE DEF b, c
<1>6. (r + b) % Word = (o + b) % Word
  BY <1>1, <1>5, SumSizes, SumOfRemainders DEF r
<1>7. (u + 3 * r + c) % Word = (t + 3 * o + c) % Word
  BY <1>1, <1>5, SumSizes, TripleUpdate DEF r, u
<1> QED BY <1>1, <1>3, <1>4, <1>5, <1>6, <1>7

LEMMA FastSums ==
    ASSUME taken \in Seq(Samples), RunningSums, Fast
    PROVE  RunningSums'
<1> DEFINE n == Len(taken)
           g == taken'
<1>1. PICK s \in [1..3 -> Samples], t \in [1..3 -> Samples] :
        /\ integrators' = Integrated3(Integrated3(integrators, s), t)
        /\ taken' = taken \o <<s[1], s[2], s[3], t[1], t[2], t[3]>>
  BY DEF Fast
<1>2. /\ n \in Nat /\ Len(g) = n + 6
      /\ \A m \in 1..n : g[m] = taken[m]
      /\ g[n + 1] = s[1] /\ g[n + 2] = s[2] /\ g[n + 3] = s[3]
      /\ g[n + 4] = t[1] /\ g[n + 5] = t[2] /\ g[n + 6] = t[3]
      /\ \A m \in 1..(n + 6) : g[m] \in Samples
  <2> DEFINE six == <<s[1], s[2], s[3], t[1], t[2], t[3]>>
  <2>1. /\ six \in Seq(Samples) /\ Len(six) = 6
        /\ six[1] = s[1] /\ six[2] = s[2] /\ six[3] = s[3]
        /\ six[4] = t[1] /\ six[5] = t[2] /\ six[6] = t[3]
    BY SMT
  <2>2. n \in Nat
    BY LenProperties
  <2>3. g = taken \o six
    BY <1>1
  <2> HIDE DEF six
  <2>4. /\ g \in Seq(Samples) /\ Len(g) = n + 6
        /\ \A m \in 1..(n + 6) : g[m] = IF m <= n THEN taken[m] ELSE six[m - n]
    <3> DEFINE c == taken \o six
    <3>1. /\ c \in Seq(Samples) /\ Len(c) = Len(taken) + Len(six)
          /\ \A m \in 1..(Len(taken) + Len(six)) :
                c[m] = IF m <= Len(taken) THEN taken[m] ELSE six[m - Len(taken)]
      BY <2>1, ConcatProperties
    <3> HIDE DEF c
    <3>2. g = c /\ n + 6 = Len(taken) + Len(six)
      BY <2>1, <2>3 DEF c
    <3> QED BY <3>1, <3>2
  <2> HIDE DEF n, g
  <2>5. /\ \A m \in 1..n : m \in 1..(n + 6) /\ m <= n
        /\ 1 \in 1..6 /\ 2 \in 1..6 /\ 3 \in 1..6 /\ 4 \in 1..6 /\ 5 \in 1..6 /\ 6 \in 1..6
    BY <2>2, SMT
  <2>6. ASSUME NEW k \in 1..6 PROVE g[n + k] = six[k]
    <3> DEFINE m == n + k
    <3>1. m \in 1..(n + 6) /\ ~(m <= n) /\ m - n = k
      BY <2>2, SMT
    <3> HIDE DEF m
    <3>2. g[m] = six[m - n]
      BY <2>4, <3>1
    <3> QED BY <3>1, <3>2 DEF m
  <2>7. \A m \in 1..n : g[m] = taken[m]
    BY <2>4, <2>5
  <2>8. \A m \in 1..(n + 6) : g[m] \in Samples
    BY <2>4, LenProperties
  <2> QED BY <2>1, <2>2, <2>4, <2>5, <2>6, <2>7, <2>8
<1> HIDE DEF n, g
<1>3. \A m \in 1..(n + 6) : g[m] \in Int
  BY <1>2, SumSizes
<1>4. /\ \A m \in 1..n : m \in 1..(n + 6)
      /\ \A m \in 1..(n + 3) : m \in 1..(n + 6)
      /\ n + 3 \in Nat /\ n + 3 + 1 = n + 4 /\ n + 3 + 2 = n + 5 /\ n + 3 + 3 = n + 6
  BY <1>2, SMT
<1>5. SumOf(taken, n) = SumOf(g, n) /\ Twice(taken, n) = Twice(g, n)
  <2>1. \A m \in 1..n : g[m] \in Int
    BY <1>3, <1>4
  <2>2. \A m \in 1..n : taken[m] = g[m]
    BY <1>2
  <2> QED BY <1>2, <2>1, <2>2, SumsSame
<1>6. integrators[0] = SumOf(g, n) % Word /\ integrators[1] = Twice(g, n) % Word
  BY <1>5, RunningSumsAre DEF n
<1> DEFINE half == Integrated3(integrators, s)
<1>7. half[0] = SumOf(g, n + 3) % Word /\ half[1] = Twice(g, n + 3) % Word
  <2>1. \A m \in 1..(n + 3) : g[m] \in Int
    BY <1>3, <1>4
  <2> DEFINE i == integrators
  <2>2. /\ n \in Nat
        /\ i[0] = SumOf(g, n) % Word /\ i[1] = Twice(g, n) % Word
        /\ s[1] = g[n + 1] /\ s[2] = g[n + 2] /\ s[3] = g[n + 3]
    BY <1>2, <1>6
  <2> HIDE DEF i
  <2>3. /\ Integrated3(i, s)[0] = SumOf(g, n + 3) % Word
        /\ Integrated3(i, s)[1] = Twice(g, n + 3) % Word
    BY <2>1, <2>2, SummationSums
  <2> QED BY <2>3 DEF i
<1> HIDE DEF half
<1>8. /\ Integrated3(half, t)[0] = SumOf(g, n + 6) % Word
      /\ Integrated3(half, t)[1] = Twice(g, n + 6) % Word
  <2> DEFINE k == n + 3
  <2>1. /\ k \in Nat /\ \A m \in 1..(k + 3) : g[m] \in Int
        /\ half[0] = SumOf(g, k) % Word /\ half[1] = Twice(g, k) % Word
        /\ t[1] = g[k + 1] /\ t[2] = g[k + 2] /\ t[3] = g[k + 3]
        /\ k + 3 = n + 6
    BY <1>2, <1>3, <1>4, <1>7
  <2> HIDE DEF k
  <2>2. /\ Integrated3(half, t)[0] = SumOf(g, k + 3) % Word
        /\ Integrated3(half, t)[1] = Twice(g, k + 3) % Word
    BY <2>1, SummationSums
  <2> QED BY <2>1, <2>2
<1>9. /\ integrators'[0] = SumOf(taken', Len(taken')) % Word
      /\ integrators'[1] = Twice(taken', Len(taken')) % Word
  BY <1>1, <1>2, <1>8 DEF g, half
<1> QED BY <1>9 DEF RunningSums, SumOf, Twice

\* The first two integrators hold the running sum of all samples and the running
\* sum of these sums, modulo the word, in a filter of any word size and however
\* the samples are split into calls: the summation of downsample32 for three
\* samples is that of three single updates (cic_filter.c:69-73, 87-91).
THEOREM SummationIsExact == Spec => []RunningSums
<1>1. Init => RunningSums
  <2> SUFFICES ASSUME Init PROVE RunningSums
    OBVIOUS
  <2>1. taken = <<>> /\ integrators = [k \in Stages |-> 0]
    BY DEF Init, FilterInit
  <2>2. integrators[0] = 0 /\ integrators[1] = 0 /\ Len(taken) = 0
    BY <2>1, SMT DEF Stages
  <2>3. \A f : (\A m \in 1..0 : f[m] \in Int) => AreSums(Summed(f, 0), f, 0)
    BY SummedIs
  <2>4. \A f : \A m \in 1..0 : f[m] \in Int
    BY SMT
  <2>5. \A f : Summed(f, 0)[0] = 0
    BY <2>3, <2>4 DEF AreSums
  <2>6. 0 % Word = 0
    <3>1. Word \in Int /\ 0 < Word /\ 0 = Word * 0 + 0
      BY SumSizes, SMT DEF Positive
    <3> QED BY <3>1, SumSizes, RemainderIs
  <2>7. SumOf(taken, 0) = 0 /\ Twice(taken, 0) = 0
    BY <2>5 DEF SumOf, Twice
  <2> QED BY <2>2, <2>6, <2>7, RunningSumsAre
<1>2. FilterInv /\ RunningSums /\ [Next]_vars => RunningSums'
  <2> SUFFICES ASSUME FilterInv, RunningSums, [Next]_vars PROVE RunningSums'
    OBVIOUS
  <2>1. taken \in Seq(Samples)
    BY DEF FilterInv
  <2>2. CASE Slow
    BY <2>1, <2>2, SlowSums
  <2>3. CASE Fast
    BY <2>1, <2>3, FastSums
  <2>4. CASE UNCHANGED <<integrators, taken>>
    BY <2>4 DEF RunningSums
  <2>5. CASE FilterNext
    BY <2>2, <2>3, <2>4, <2>5 DEF FilterNext, Call
  <2>6. CASE UNCHANGED filterVars
    BY <2>4, <2>6 DEF filterVars
  <2> QED BY <2>5, <2>6 DEF Next, vars
<1> QED BY <1>1, <1>2, FilterInvariant, PTL DEF Spec

-----------------------------------------------------------------------------
(* The factors of a rate.  As long as each was found as a divisor they are *)
(* numbers, and there are at most four.                                    *)

RateInv ==
    exact => /\ requested \in Positive /\ rest \in Positive
             /\ factors \in Seq(Int) /\ Len(factors) <= 4
             /\ ProductOf(factors) * rest = requested
             /\ \A k \in DOMAIN factors : factors[k] \in 1..Limit(k)
             /\ \A k \in DOMAIN factors, q \in 2..rest :
                    rest % q = 0 => factors[k] * q > Limit(k)

LEMMA ChainSizes ==
    /\ FirstMax \in Nat /\ FirstMax > 0
    /\ LaterMax \in Nat /\ LaterMax > 0
    /\ \A n \in ChainRates : n \in Positive
    /\ \A n \in ChainCalls : n \in Nat /\ n > 0
BY ChainAssumption, SMT DEF ChainAssumption, Positive

LEMMA ProductAppended ==
    ASSUME NEW list \in Seq(Int), Len(list) < 4, NEW f \in Int
    PROVE  /\ ProductOf(list) \in Int
           /\ ProductOf(Append(list, f)) = ProductOf(list) * f
<1> DEFINE more == Append(list, f)
           n == Len(list)
<1>1. /\ n \in Nat /\ DOMAIN list = 1..n /\ DOMAIN more = 1..(n + 1)
      /\ \A k \in 1..n : more[k] = list[k] /\ list[k] \in Int
      /\ more[n + 1] = f
  BY AppendProperties, LenProperties, SMT
<1>2. n = 0 \/ n = 1 \/ n = 2 \/ n = 3
  BY <1>1, SMT
<1> HIDE DEF n, more
<1>3. CASE n = 0
  BY <1>1, <1>3, SMT DEF ProductOf, more
<1>4. CASE n = 1
  <2>1. DOMAIN list = {1} /\ DOMAIN more = {1, 2} /\ more[1] = list[1] /\ more[2] = f
    BY <1>1, <1>4, SMT
  <2>2. /\ ProductOf(list) = list[1] * 1 * 1 * 1
        /\ ProductOf(more) = list[1] * f * 1 * 1
    BY <2>1 DEF ProductOf
  <2> QED BY <1>1, <1>4, <2>2, SMT DEF more
<1>5. CASE n = 2
  BY <1>1, <1>5, SMT DEF ProductOf, more
<1>6. CASE n = 3
  <2>1. /\ DOMAIN list = {1, 2, 3} /\ DOMAIN more = {1, 2, 3, 4}
        /\ more[1] = list[1] /\ more[2] = list[2] /\ more[3] = list[3] /\ more[4] = f
    BY <1>1, <1>6, SMT
  <2>2. /\ ProductOf(list) = list[1] * list[2] * list[3] * 1
        /\ ProductOf(more) = list[1] * list[2] * list[3] * f
    BY <2>1 DEF ProductOf
  <2>3. list[1] \in Int /\ list[2] \in Int /\ list[3] \in Int
    BY <1>1, <1>6, SMT
  <2> QED BY <2>2, <2>3, SMTT(30) DEF more
<1> QED BY <1>2, <1>3, <1>4, <1>5, <1>6

\* The greatest divisor is one.
LEMMA GreatestDivisor ==
    ASSUME Divisors # {}
    PROVE  /\ Max(Divisors) \in Positive /\ Max(Divisors) <= MaxDivider
           /\ rest % Max(Divisors) = 0
           /\ \A c \in Divisors : Max(Divisors) >= c
<1>1. MaxDivider \in Nat
  <2>1. Limit(Len(factors) + 1) \in {FirstMax, LaterMax}
    BY DEF Limit
  <2> QED BY <2>1, ChainSizes DEF MaxDivider
<1>2. Divisors \subseteq 0..MaxDivider
  BY <1>1, SMT DEF Divisors
<1>3. \E d \in Divisors : \A c \in Divisors : d >= c
  BY <1>1, <1>2, GreatestNumber
<1>4. Max(Divisors) \in Divisors /\ \A c \in Divisors : Max(Divisors) >= c
  BY <1>3 DEF Max
<1>5. /\ Max(Divisors) \in Positive /\ Max(Divisors) <= MaxDivider
      /\ rest % Max(Divisors) = 0
  BY <1>1, <1>4, SMT DEF Divisors, Positive
<1> QED BY <1>4, <1>5

\* A divisor of a quotient, multiplied by what was divided by, is a divisor.
LEMMA DivisorOfQuotient ==
    ASSUME NEW f \in Positive, NEW r \in Positive, NEW q \in Positive, r % q = 0
    PROVE  f * q \in Positive /\ (f * r) % (f * q) = 0 /\ (f * r) % q = 0
<1>1. /\ f \in Int /\ f > 0 /\ r \in Int /\ q \in Int /\ q > 0
  BY SMT DEF Positive
<1>2. PICK t \in Int : r = q * t
  <2>1. r \div q \in Int /\ q * (r \div q) \in Int /\ r = q * (r \div q) + 0
    BY <1>1, Division
  <2> QED BY <2>1, SMT
<1>3. f * q \in Int /\ f * q > 0
  BY <1>1, SMT
<1>4. f * q \in Positive
  BY <1>3, SMT DEF Positive
<1>5. /\ f * t \in Int /\ f * r \in Int
      /\ f * r = (f * q) * t + 0 /\ f * r = q * (f * t) + 0
  <2>1. f * (q * t) = (f * q) * t /\ f * (q * t) = q * (f * t) /\ (f * q) * t \in Int
    BY <1>1, <1>2, SMT
  <2> QED BY <1>1, <1>2, <2>1, SMT
<1>6. (f * r) % (f * q) = 0
  BY <1>3, <1>4, <1>5, RemainderIs
<1>7. (f * r) % q = 0
  <2> DEFINE a == f * r
             s == f * t
  <2>1. a \in Int /\ s \in Int /\ a = q * s + 0
    BY <1>5
  <2> HIDE DEF a, s
  <2>2. a % q = 0
    BY <1>1, <2>1, RemainderIs
  <2> QED BY <2>2 DEF a
<1> QED BY <1>4, <1>6, <1>7

\* Only 1 leaves a number as it is.
LEMMA Unit ==
    ASSUME NEW a \in Positive, NEW b \in Positive, a * b = a
    PROVE  b = 1
<1>1. a \in Int /\ a > 0 /\ b \in Int /\ b >= 1
  BY SMT DEF Positive
<1> SUFFICES ASSUME b >= 2 PROVE FALSE
  BY <1>1, SMT
<1>2. a * 2 <= a * b
  BY <1>1, Monotonic
<1> QED BY <1>1, <1>2, SMT

\* What is left after a factor that divides the rest.
LEMMA RestChosen ==
    ASSUME rest \in Positive, NEW f \in Positive, rest % f = 0, Choose(f)
    PROVE  /\ rest' \in Positive /\ f * rest' = rest /\ rest' <= rest
           /\ factors' = Append(factors, f)
<1>1. /\ f \in Int /\ f > 0 /\ f # 0 /\ ~(f < 0)
      /\ rest \in Int /\ rest > 0 /\ ~(rest < 0)
  BY SMT DEF Positive
<1> DEFINE q == rest \div f
<1>2. rest' = q /\ factors' = Append(factors, f)
  <2>1. Divided(f) = rest \div f
    BY <1>1 DEF Divided, Magnitude
  <2> QED BY <2>1 DEF Choose
<1>3. q \in Int /\ f * q = rest
  <2>1. q \in Int /\ f * q \in Int /\ rest = f * q + 0
    BY <1>1, Division
  <2> HIDE DEF q
  <2> QED BY <2>1, SMT
<1> HIDE DEF q
<1>4. f * q > 0
  BY <1>1, <1>3
<1>5. q > 0
  BY <1>1, <1>3, <1>4, SMT
<1>6. q <= f * q
  BY <1>1, <1>3, <1>5, SMT
<1>7. q \in Positive
  BY <1>3, <1>5, SMT DEF Positive
<1> QED BY <1>2, <1>3, <1>6, <1>7

\* A factor that divides the rest, and of what is left then no part would have
\* fitted into its stage.
LEMMA DivisorChosen ==
    ASSUME RateInv, exact, exact', requested' = requested, Len(factors) < 4,
           NEW f \in Positive, f <= MaxDivider, rest % f = 0, Choose(f),
           \A q \in 2..rest' : rest' % q = 0 => f * q > MaxDivider
    PROVE  RateInv'
<1>1. /\ requested \in Positive /\ rest \in Positive /\ rest \in Int
      /\ factors \in Seq(Int) /\ Len(factors) \in Nat /\ DOMAIN factors = 1..Len(factors)
      /\ ProductOf(factors) * rest = requested
      /\ \A k \in DOMAIN factors : factors[k] \in 1..Limit(k)
      /\ \A k \in DOMAIN factors, q \in 2..rest :
             rest % q = 0 => factors[k] * q > Limit(k)
  BY LenProperties, SMT DEF RateInv, Positive
<1>2. f \in Int /\ f > 0
  BY <1>1, SMT DEF Positive
<1>3. /\ rest' \in Positive /\ f * rest' = rest /\ rest' <= rest
      /\ factors' = Append(factors, f)
  BY <1>1, RestChosen
<1>4. rest' \in Int
  BY <1>3, SMT DEF Positive
<1> DEFINE p == ProductOf(factors)
<1>5. p \in Int /\ ProductOf(factors') = p * f
  BY <1>1, <1>2, <1>3, ProductAppended
<1> HIDE DEF p
<1>6. ProductOf(factors') * rest' = requested'
  <2>1. (p * f) * rest' = p * (f * rest')
    BY <1>2, <1>4, <1>5, SMT
  <2> QED BY <1>1, <1>3, <1>5, <2>1 DEF p
<1>7. /\ factors' \in Seq(Int) /\ Len(factors') = Len(factors) + 1
      /\ DOMAIN factors' = 1..(Len(factors) + 1)
      /\ \A k \in 1..Len(factors) : factors'[k] = factors[k]
      /\ factors'[Len(factors) + 1] = f
  BY <1>1, <1>2, <1>3, AppendProperties, LenProperties, SMT
<1>8. f \in 1..Limit(Len(factors) + 1)
  <2> DEFINE m == Limit(Len(factors) + 1)
  <2>1. m \in {FirstMax, LaterMax} /\ f <= m
    BY DEF MaxDivider, Limit
  <2> HIDE DEF m
  <2>2. f \in 1..m
    BY <1>2, <2>1, ChainSizes, SMT
  <2> QED BY <2>2 DEF m
<1>9. ASSUME NEW k \in DOMAIN factors' PROVE k \in DOMAIN factors \/ k = Len(factors) + 1
  BY <1>1, <1>7, <1>9, SMT
<1>10. ASSUME NEW k \in DOMAIN factors' PROVE factors'[k] \in 1..Limit(k)
  BY <1>1, <1>7, <1>8, <1>9
<1>11. ASSUME NEW k \in DOMAIN factors', NEW q \in 2..rest', rest' % q = 0
       PROVE  factors'[k] * q > Limit(k)
  <2>1. CASE k = Len(factors) + 1
    BY <1>7, <1>11, <2>1 DEF MaxDivider
  <2>2. CASE k \in DOMAIN factors
    <3>1. q \in Positive /\ q \in 2..rest
      BY <1>1, <1>3, <1>4, SMT DEF Positive
    <3>2. rest % q = 0
      BY <1>3, <1>11, <3>1, DivisorOfQuotient
    <3> QED BY <1>1, <1>7, <2>2, <3>1, <3>2
  <2> QED BY <1>9, <2>1, <2>2
<1>12. Len(factors') <= 4
  BY <1>1, <1>7, SMT
<1>13. requested' \in Positive
  BY <1>1
<1> QED BY <1>3, <1>6, <1>7, <1>10, <1>11, <1>12, <1>13 DEF RateInv

LEMMA SingleKeeps ==
    ASSUME RateInv, ChooseFactor, Single
    PROVE  RateInv'
<1> SUFFICES ASSUME exact PROVE RateInv'
  BY DEF Single, RateInv
<1>1. /\ exact' /\ requested' = requested /\ Len(factors) < 4
      /\ rest <= MaxDivider /\ Choose(rest)
  BY DEF Single, ChooseFactor
<1>2. rest \in Positive /\ rest \in Int /\ rest > 0
  BY SMT DEF RateInv, Positive
<1>3. rest % rest = 0
  <2>1. rest = rest * 1 + 0
    BY <1>2, SMT
  <2> QED BY <1>2, <2>1, RemainderIs
<1>4. 2..rest' = {}
  <2>1. rest' \in Positive /\ rest * rest' = rest
    BY <1>1, <1>2, <1>3, RestChosen
  <2>2. rest' = 1
    BY <1>2, <2>1, Unit
  <2> QED BY <2>2, SMT
<1> QED BY <1>1, <1>2, <1>3, <1>4, DivisorChosen

LEMMA ExactKeeps ==
    ASSUME RateInv, ChooseFactor, Exact
    PROVE  RateInv'
<1> SUFFICES ASSUME exact PROVE RateInv'
  BY DEF Exact, RateInv
<1> DEFINE f == Max(Divisors)
<1>1. /\ exact' /\ requested' = requested /\ Len(factors) < 4
      /\ Divisors # {} /\ Choose(f)
  BY DEF Exact, ChooseFactor
<1>2. /\ f \in Positive /\ f <= MaxDivider /\ rest % f = 0
      /\ \A c \in Divisors : f >= c
  BY <1>1, GreatestDivisor
<1>3. /\ rest \in Positive /\ MaxDivider \in Int
  <2>1. Limit(Len(factors) + 1) \in {FirstMax, LaterMax}
    BY DEF Limit
  <2> QED BY <2>1, ChainSizes, SMT DEF RateInv, MaxDivider
<1> HIDE DEF f
<1>4. ASSUME NEW q \in 2..rest', rest' % q = 0 PROVE f * q > MaxDivider
  <2> SUFFICES ASSUME ~(f * q > MaxDivider) PROVE FALSE
    OBVIOUS
  <2>1. rest' \in Positive /\ f * rest' = rest
    BY <1>1, <1>2, <1>3, RestChosen
  <2>2. q \in Positive /\ q \in Int /\ q >= 2 /\ f \in Int /\ f > 0
    BY <1>2, <2>1, SMT DEF Positive
  <2>3. f * q \in Positive /\ rest % (f * q) = 0
    BY <1>2, <1>4, <2>1, <2>2, DivisorOfQuotient
  <2>4. f * q >= f * 2 /\ f * q \in Int
    BY <2>2, SMT
  <2>5. f * q \in 2..MaxDivider
    BY <1>3, <2>2, <2>4, SMT
  <2>6. f * q \in Divisors
    BY <2>3, <2>5 DEF Divisors
  <2>7. f >= f * q
    BY <1>2, <2>6
  <2> QED BY <2>2, <2>4, <2>7, SMT
<1> QED BY <1>1, <1>2, <1>4, DivisorChosen

LEMMA RateInvariant == Spec => []RateInv
<1>1. Init => RateInv
  <2> SUFFICES ASSUME Init PROVE RateInv
    OBVIOUS
  <2>1. requested \in Positive /\ rest = requested /\ factors = <<>>
    BY ChainSizes DEF Init, ChainInit
  <2>2. factors \in Seq(Int) /\ Len(factors) = 0 /\ DOMAIN factors = {}
    BY <2>1, EmptySeq, SMT
  <2>3. ProductOf(factors) * rest = requested
    <3>1. ProductOf(factors) = 1
      BY <2>2, SMT DEF ProductOf
    <3> QED BY <2>1, <3>1, SMT DEF Positive
  <2> QED BY <2>1, <2>2, <2>3, SMT DEF RateInv
<1>2. RateInv /\ [Next]_vars => RateInv'
  <2> SUFFICES ASSUME RateInv, [Next]_vars PROVE RateInv'
    OBVIOUS
  <2>1. CASE ChooseFactor
    <3>1. CASE NoDivisor
      BY <3>1 DEF NoDivisor, RateInv
    <3> QED BY <2>1, <3>1, SingleKeeps, ExactKeeps DEF ChooseFactor
  <2>2. CASE UNCHANGED rates
    BY <2>2 DEF rates, RateInv
  <2>3. ChainNext => ChooseFactor \/ UNCHANGED rates
    BY DEF ChainNext, MakeStages, DownsampleX, StageStep, StageDone, ChainReturn
  <2>4. UNCHANGED chainVars => UNCHANGED rates
    BY DEF chainVars
  <2> QED BY <2>1, <2>2, <2>3, <2>4 DEF Next, vars
<1> QED BY <1>1, <1>2, PTL DEF Spec

-----------------------------------------------------------------------------
(* The stages.  Factors may also be what was found in the array, but only  *)
(* those above 1 get a stage.                                              *)

FactorsInv ==
    factors \in Seq(Int) /\ Len(factors) <= 4 /\ rest \in Int

Stage(shifts) == [divider : Positive, shift : shifts, phase : Nat]

LEMMA ChosenType ==
    ASSUME FactorsInv, Len(factors) < 4, NEW f \in Int, Choose(f)
    PROVE  FactorsInv'
<1>1. factors' = Append(factors, f) /\ rest' = Divided(f)
  BY DEF Choose
<1>2. factors' \in Seq(Int) /\ Len(factors') = Len(factors) + 1 /\ Len(factors) \in Nat
  BY <1>1, AppendProperties, LenProperties DEF FactorsInv
<1>3. Divided(f) \in Int
  <2>1. CASE f = 0
    BY <2>1 DEF Divided
  <2>2. CASE f # 0
    <3> DEFINE q == Magnitude(rest) \div Magnitude(f)
    <3>1. Magnitude(rest) \in Int /\ Magnitude(f) \in Positive
      BY <2>2, SMT DEF Magnitude, FactorsInv, Positive
    <3>2. q \in Int
      BY <3>1, Division
    <3> HIDE DEF q
    <3>3. q \in Int /\ -q \in Int
      BY <3>2, SMT
    <3>4. Divided(f) = q \/ Divided(f) = -q
      BY <2>2 DEF Divided, q
    <3> QED BY <3>3, <3>4
  <2> QED BY <2>1, <2>2
<1> QED BY <1>1, <1>2, <1>3, SMT DEF FactorsInv

LEMMA FactorsType ==
    ASSUME FactorsInv, ChooseFactor
    PROVE  FactorsInv'
<1>1. Len(factors) < 4 /\ MaxDivider \in Int /\ rest \in Int
  BY ChainSizes, SMT DEF ChooseFactor, MaxDivider, Limit, FactorsInv
<1>2. CASE Single
  BY <1>1, <1>2, ChosenType DEF Single
<1>3. CASE Exact
  <2>1. Max(Divisors) \in Int
    BY <1>3, GreatestDivisor, SMT DEF Exact, Positive
  <2> QED BY <1>1, <1>3, <2>1, ChosenType DEF Exact
<1>4. CASE NoDivisor
  <2>1. PICK old \in Garbage : Choose(IF old = 1 THEN MaxDivider ELSE old)
    BY <1>4 DEF NoDivisor
  <2>2. old \in Int
    BY ChainAssumption DEF ChainAssumption
  <2> QED BY <1>1, <2>1, <2>2, ChosenType
<1> QED BY <1>2, <1>3, <1>4 DEF ChooseFactor

ChainType ==
    /\ \E shifts : chain \in Seq(Stage(shifts))
    /\ Len(chain) <= 4

LEMMA ChainFacts ==
    ASSUME ChainType
    PROVE  /\ Len(chain) \in Nat /\ Len(chain) <= 4 /\ DOMAIN chain = 1..Len(chain)
           /\ \A i \in 1..Len(chain) : /\ chain[i].divider \in Positive
                                       /\ chain[i].phase \in Nat
<1>1. PICK shifts : chain \in Seq(Stage(shifts))
  BY DEF ChainType
<1> DEFINE any == Stage(shifts)
<1>2. \A r \in any : r.divider \in Positive /\ r.phase \in Nat
  BY DEF Stage
<1> HIDE DEF any
<1>3. /\ Len(chain) \in Nat /\ DOMAIN chain = 1..Len(chain)
      /\ \A i \in 1..Len(chain) : chain[i] \in any
  BY <1>1, LenProperties, ElementOfSeq DEF any
<1> QED BY <1>2, <1>3 DEF ChainType

\* A stage more, if the factor gets one: it is one that has not begun.
LEMMA WithStageType ==
    ASSUME NEW shifts, NEW list \in Seq(Stage(shifts)), NEW k \in 1..4,
           \A i \in 1..Len(list) : list[i].phase = 0,
           FactorsInv, Len(factors) = 4, ShiftFor(factors[k]) \in shifts
    PROVE  /\ WithStage(list, k) \in Seq(Stage(shifts))
           /\ Len(list) \in Nat
           /\ Len(WithStage(list, k)) <= Len(list) + 1
           /\ \A i \in 1..Len(WithStage(list, k)) : WithStage(list, k)[i].phase = 0
<1> DEFINE new == NewStage(factors[k])
           more == Append(list, new)
           any == Stage(shifts)
<1>1. Len(list) \in Nat
  BY LenProperties
<1>2. CASE ~(factors[k] > 1)
  <2>1. Len(list) <= Len(list) + 1
    BY <1>1, SMT
  <2> QED BY <1>1, <1>2, <2>1 DEF WithStage
<1>3. CASE factors[k] > 1
  <2>1. factors[k] \in Int
    <3>1. factors \in Seq(Int) /\ k \in 1..Len(factors)
      BY DEF FactorsInv
    <3> QED BY <3>1, ElementOfSeq
  <2>2. factors[k] \in Positive
    BY <1>3, <2>1, SMT DEF Positive
  <2>3. new \in any /\ new.phase = 0
    BY <2>2 DEF NewStage, Stage
  <2> HIDE DEF new, any
  <2>4. list \in Seq(any)
    BY DEF any
  <2>5. /\ more \in Seq(any) /\ Len(more) = Len(list) + 1
        /\ \A i \in 1..Len(list) : more[i] = list[i]
        /\ more[Len(list) + 1] = new
    BY <2>3, <2>4, AppendProperties
  <2> HIDE DEF more
  <2>6. ASSUME NEW i \in 1..Len(more) PROVE more[i].phase = 0
    <3>1. i \in 1..Len(list) \/ i = Len(list) + 1
      BY <1>1, <2>5, SMT
    <3> QED BY <2>3, <2>5, <3>1
  <2>7. WithStage(list, k) = more
    BY <1>3 DEF WithStage, more, new
  <2>8. Len(more) <= Len(list) + 1
    BY <1>1, <2>5, SMT
  <2> QED BY <1>1, <2>5, <2>6, <2>7, <2>8 DEF any
<1> QED BY <1>2, <1>3

LEMMA StagesMade ==
    ASSUME FactorsInv, MakeStages
    PROVE  ChainType' /\ \A i \in 1..Len(chain') : chain'[i].phase = 0
<1> DEFINE shifts == {ShiftFor(factors[k]) : k \in 1..4}
           one == WithStage(<<>>, 1)
           two == WithStage(one, 2)
           three == WithStage(two, 3)
           four == WithStage(three, 4)
           Fits(list, n) == /\ list \in Seq(Stage(shifts)) /\ Len(list) \in Nat
                            /\ Len(list) <= n
                            /\ \A i \in 1..Len(list) : list[i].phase = 0
<1>1. Len(factors) = 4 /\ chain' = four
  BY DEF MakeStages
<1>2. \A k \in 1..4 : ShiftFor(factors[k]) \in shifts
  OBVIOUS
<1> HIDE DEF shifts
<1>3. ASSUME NEW list, NEW n \in Nat, Fits(list, n), NEW k \in 1..4
      PROVE  Fits(WithStage(list, k), n + 1)
  <2> DEFINE more == WithStage(list, k)
  <2>1. /\ more \in Seq(Stage(shifts)) /\ Len(list) \in Nat
        /\ Len(more) <= Len(list) + 1
        /\ \A i \in 1..Len(more) : more[i].phase = 0
    BY <1>1, <1>2, <1>3, WithStageType
  <2> HIDE DEF more
  <2>2. Len(more) \in Nat
    BY <2>1, LenProperties
  <2>3. Len(more) <= n + 1
    BY <1>3, <2>1, <2>2, SMT
  <2> QED BY <2>1, <2>2, <2>3 DEF more
<1>4. Fits(<<>>, 0)
  <2>1. <<>> \in Seq(Stage(shifts)) /\ Len(<<>>) = 0
    BY EmptySeq
  <2>2. 1..0 = {} /\ 0 <= 0 /\ 0 \in Nat
    BY SMT
  <2> QED BY <2>1, <2>2
<1> HIDE DEF Fits
<1>5. /\ 0 \in Nat /\ 1 \in Nat /\ 2 \in Nat /\ 3 \in Nat
      /\ 0 + 1 = 1 /\ 1 + 1 = 2 /\ 2 + 1 = 3 /\ 3 + 1 = 4
      /\ 1 \in 1..4 /\ 2 \in 1..4 /\ 3 \in 1..4 /\ 4 \in 1..4
  BY SMT
<1>6. Fits(one, 1)
  BY <1>3, <1>4, <1>5
<1> HIDE DEF one
<1>7. Fits(two, 2)
  BY <1>3, <1>5, <1>6
<1> HIDE DEF two
<1>8. Fits(three, 3)
  BY <1>3, <1>5, <1>7
<1> HIDE DEF three
<1>9. Fits(four, 4)
  BY <1>3, <1>5, <1>8
<1> QED BY <1>1, <1>9 DEF Fits, ChainType

-----------------------------------------------------------------------------
(* The stages at work.  Of n samples fed to the chain, as many reach stage *)
(* i as the stages before let through; that is what the phase of a stage   *)
(* counts.  In a call that started after `before' samples, the stages from *)
(* 1 to the current one have had those of the call, all of them or up to   *)
(* inIndex, and the others have not.  The buffer contains, from the start, *)
(* what the current stage has put out, and from inIndex what it has to     *)
(* read.                                                                   *)

Prefix(i) == ProductOf([k \in 1..i |-> chain[k].divider])

Reaching(n, i) == n \div Prefix(i - 1)

Taken(before, i) ==
    IF i < stage THEN Reaching(fed, i)
    ELSE IF i = stage THEN Reaching(before, i) + inIndex
    ELSE Reaching(before, i)

Position(before) ==
    LET first == Reaching(before, stage)
        d     == chain[stage].divider
    IN  /\ DOMAIN samples = 0..(fed - before - 1)
        /\ count \in Nat /\ inIndex \in 0..count /\ outIndex \in 0..inIndex
        /\ count <= fed - before
        /\ count = Reaching(fed, stage) - first
        /\ outIndex = ((first + inIndex) \div d) - (first \div d)
        /\ \A j \in inIndex..(count - 1) : samples[j] = (first + j + 1) * Prefix(stage - 1)
        /\ \A j \in 0..(outIndex - 1) : samples[j] = ((first \div d) + j + 1) * Prefix(stage)

Phases(before) ==
    \A i \in 1..Len(chain) : chain[i].phase = Taken(before, i) % (2 * chain[i].divider)

Results(before) ==
    /\ \E S : results \in Seq(S)
    /\ Len(results) = before \div TotalDivider
    /\ \A k \in DOMAIN results : results[k] = k * TotalDivider

CallInv(before) ==
    /\ before \in Nat /\ fed \in Nat /\ before <= fed
    /\ stage \in 0..Len(chain)
    /\ chain = <<>> => fed = 0
    /\ stage = 0 => before = fed
    /\ stage > 0 => Position(before)
    /\ Phases(before)
    /\ Results(before)

ChainInv == FactorsInv /\ ChainType /\ \E before \in Nat : CallInv(before)

\* The products of the dividers.
LEMMA Prefixes ==
    ASSUME ChainType
    PROVE  /\ Prefix(0) = 1
           /\ \A i \in 0..Len(chain) : Prefix(i) \in Positive
           /\ \A i \in 1..Len(chain) : Prefix(i) = Prefix(i - 1) * chain[i].divider
           /\ TotalDivider = Prefix(Len(chain))
<1> DEFINE L == Len(chain)
           D(i) == chain[i].divider
<1>1. /\ L \in Nat /\ L <= 4 /\ DOMAIN chain = 1..L
      /\ \A i \in 1..L : D(i) \in Positive
  BY ChainFacts
<1>2. TotalDivider = Prefix(L)
  BY <1>1 DEF TotalDivider, Prefix
<1> HIDE DEF L
<1>3. \A i \in 1..L : D(i) \in Int /\ D(i) > 0
  BY <1>1, SMT DEF Positive
<1>4. Prefix(0) = 1
  <2>1. 1..0 = {}
    BY SMT
  <2>2. /\ 1 \notin DOMAIN [k \in 1..0 |-> chain[k].divider]
        /\ 2 \notin DOMAIN [k \in 1..0 |-> chain[k].divider]
        /\ 3 \notin DOMAIN [k \in 1..0 |-> chain[k].divider]
        /\ 4 \notin DOMAIN [k \in 1..0 |-> chain[k].divider]
    BY <2>1
  <2>3. Prefix(0) = 1 * 1 * 1 * 1
    BY <2>2 DEF Prefix, ProductOf
  <2> QED BY <2>3, SMT
<1>5. Prefix(1) = D(1) * 1 * 1 * 1
  <2>1. 1..1 = {1}
    BY SMT
  <2>2. Prefix(1) = ProductOf([k \in {1} |-> chain[k].divider])
    BY <2>1 DEF Prefix
  <2> QED BY <2>2, SMT DEF ProductOf
<1>6. Prefix(2) = D(1) * D(2) * 1 * 1
  <2>1. 1..2 = {1, 2}
    BY SMT
  <2>2. Prefix(2) = ProductOf([k \in {1, 2} |-> chain[k].divider])
    BY <2>1 DEF Prefix
  <2> QED BY <2>2, SMT DEF ProductOf
<1>7. Prefix(3) = D(1) * D(2) * D(3) * 1
  <2>1. 1..3 = {1, 2, 3}
    BY SMT
  <2>2. Prefix(3) = ProductOf([k \in {1, 2, 3} |-> chain[k].divider])
    BY <2>1 DEF Prefix
  <2> QED BY <2>2, SMT DEF ProductOf
<1>8. Prefix(4) = D(1) * D(2) * D(3) * D(4)
  <2>1. 1..4 = {1, 2, 3, 4}
    BY SMT
  <2>2. Prefix(4) = ProductOf([k \in {1, 2, 3, 4} |-> chain[k].divider])
    BY <2>1 DEF Prefix
  <2> QED BY <2>2, SMT DEF ProductOf
<1> HIDE DEF D
<1>9. /\ L >= 1 => Prefix(1) = Prefix(0) * D(1)
      /\ L >= 2 => Prefix(2) = Prefix(1) * D(2)
      /\ L >= 3 => Prefix(3) = Prefix(2) * D(3)
      /\ L >= 4 => Prefix(4) = Prefix(3) * D(4)
  BY <1>1, <1>3, <1>4, <1>5, <1>6, <1>7, <1>8, SMT
<1>10. ASSUME NEW a \in Int, a > 0, NEW b \in Int, b > 0 PROVE a * b \in Int /\ a * b > 0
  BY <1>10, SMT
<1>11. Prefix(0) \in Int /\ Prefix(0) > 0
  BY <1>4, SMT
<1>12. L >= 1 => Prefix(1) \in Int /\ Prefix(1) > 0
  <2>1. L >= 1 => D(1) \in Int /\ D(1) > 0
    BY <1>1, <1>3, SMT
  <2> QED BY <1>9, <1>10, <1>11, <2>1
<1>13. L >= 2 => Prefix(2) \in Int /\ Prefix(2) > 0
  <2>1. L >= 2 => D(2) \in Int /\ D(2) > 0 /\ L >= 1
    BY <1>1, <1>3, SMT
  <2> QED BY <1>9, <1>10, <1>12, <2>1
<1>14. L >= 3 => Prefix(3) \in Int /\ Prefix(3) > 0
  <2>1. L >= 3 => D(3) \in Int /\ D(3) > 0 /\ L >= 2
    BY <1>1, <1>3, SMT
  <2> QED BY <1>9, <1>10, <1>13, <2>1
<1>15. L >= 4 => Prefix(4) \in Int /\ Prefix(4) > 0
  <2>1. L >= 4 => D(4) \in Int /\ D(4) > 0 /\ L >= 3
    BY <1>1, <1>3, SMT
  <2> QED BY <1>9, <1>10, <1>14, <2>1
<1>16. ASSUME NEW i \in 0..L PROVE Prefix(i) \in Positive
  <2>1. \/ i = 0
        \/ i = 1 /\ L >= 1
        \/ i = 2 /\ L >= 2
        \/ i = 3 /\ L >= 3
        \/ i = 4 /\ L >= 4
    BY <1>1, SMT
  <2>2. Prefix(i) \in Int /\ Prefix(i) > 0
    BY <1>11, <1>12, <1>13, <1>14, <1>15, <2>1
  <2> QED BY <2>2, SMT DEF Positive
<1>17. ASSUME NEW i \in 1..L PROVE Prefix(i) = Prefix(i - 1) * D(i)
  <2>1. \/ i = 1 /\ L >= 1 /\ i - 1 = 0
        \/ i = 2 /\ L >= 2 /\ i - 1 = 1
        \/ i = 3 /\ L >= 3 /\ i - 1 = 2
        \/ i = 4 /\ L >= 4 /\ i - 1 = 3
    BY <1>1, SMT
  <2> QED BY <1>9, <2>1
<1> QED BY <1>2, <1>4, <1>16, <1>17 DEF L, D

\* What reaches stage i + 1 is what stage i lets through.
LEMMA LetThrough ==
    ASSUME ChainType, NEW n \in Nat, NEW i \in 1..Len(chain)
    PROVE  /\ Reaching(n, i) \in Nat
           /\ Reaching(n, i) \div chain[i].divider = Reaching(n, i + 1)
           /\ Reaching(n, i + 1) \in Nat
           /\ Reaching(n, i + 1) = n \div Prefix(i)
           /\ Reaching(n, 1) = n
<1> DEFINE p == Prefix(i - 1)
           d == chain[i].divider
           r == Prefix(i)
<1>1. Len(chain) \in Nat /\ i - 1 \in 0..Len(chain) /\ i \in 0..Len(chain) /\ i + 1 - 1 = i
  BY ChainFacts, SMT
<1>2. p \in Positive /\ d \in Positive /\ r = p * d /\ r \in Positive /\ Prefix(0) = 1
  BY <1>1, Prefixes, ChainFacts
<1> HIDE DEF p, d, r
<1>3. (n \div p) \div d = n \div r
  <2>1. n \in Int
    BY SMT
  <2> QED BY <1>2, <2>1, QuotientOfQuotient
<1>4. ASSUME NEW m \in Positive PROVE n \div m \in Nat
  <2>1. m * 0 <= n
    BY SMT DEF Positive
  <2>2. 0 <= n \div m /\ n \div m \in Int
    BY <2>1, QuotientBounds, Division
  <2> QED BY <2>2, SMT
<1>5. n \div 1 = n
  <2>1. 1 \in Positive /\ n = 1 * n + 0
    BY SMT DEF Positive
  <2>2. n \in Int /\ 0 \in Int /\ 0 <= 0 /\ 0 < 1
    BY SMT
  <2> QED BY <2>1, <2>2, RemainderIs
<1>6. Reaching(n, i) = n \div p /\ Reaching(n, i + 1) = n \div r /\ Reaching(n, 1) = n \div 1
  <2>1. 1 - 1 = 0
    BY SMT
  <2> QED BY <1>1, <1>2, <2>1 DEF Reaching, p, r
<1> QED BY <1>2, <1>3, <1>4, <1>5, <1>6 DEF d, r

\* As long as the dividers are the same, so are their products.
LEMMA SameDividers ==
    ASSUME ChainType, ChainType', Len(chain') = Len(chain),
           \A i \in 1..Len(chain) : chain'[i].divider = chain[i].divider
    PROVE  /\ TotalDivider' = TotalDivider
           /\ \A i \in 0..Len(chain) : Prefix(i)' = Prefix(i)
           /\ \A n \in Int : \A i \in 1..(Len(chain) + 1) : Reaching(n, i)' = Reaching(n, i)
           /\ fed' = fed => \A i \in 1..(Len(chain) + 1) : Reaching(fed, i)' = Reaching(fed, i)
<1>1. /\ Len(chain) \in Nat /\ DOMAIN chain = 1..Len(chain)
      /\ DOMAIN chain' = 1..Len(chain)
  <2>1. DOMAIN chain' = 1..Len(chain')
    <3>1. PICK shifts : chain' \in Seq(Stage(shifts))
      BY DEF ChainType, Stage
    <3> QED BY <3>1, LenProperties
  <2> QED BY <2>1, ChainFacts
<1>2. TotalDivider' = TotalDivider
  <2>1. [i \in DOMAIN chain |-> chain[i].divider]' = [i \in DOMAIN chain |-> chain[i].divider]
    BY <1>1
  <2> QED BY <2>1 DEF TotalDivider, ProductOf
<1>3. ASSUME NEW i \in 0..Len(chain) PROVE Prefix(i)' = Prefix(i)
  <2>1. \A k \in 1..i : k \in 1..Len(chain)
    BY <1>1, SMT
  <2>2. [k \in 1..i |-> chain'[k].divider] = [k \in 1..i |-> chain[k].divider]
    BY <2>1
  <2> QED BY <2>2 DEF Prefix, ProductOf
<1>4. ASSUME NEW i \in 1..(Len(chain) + 1) PROVE Prefix(i - 1)' = Prefix(i - 1)
  <2>1. i - 1 \in 0..Len(chain)
    BY <1>1, SMT
  <2> QED BY <1>3, <2>1
<1> QED BY <1>2, <1>3, <1>4 DEF Reaching

\* What there is to know of the stage at work.
LEMMA AtWork ==
    ASSUME ChainType, NEW before \in Nat, CallInv(before), stage > 0
    PROVE  /\ stage \in 1..Len(chain) /\ stage \in Int /\ Len(chain) \in Nat
           /\ stage - 1 \in 0..Len(chain) /\ stage \in 0..Len(chain)
           /\ chain[stage].divider \in Positive
           /\ Reaching(before, stage) \in Nat
           /\ count \in Nat /\ inIndex \in Nat /\ outIndex \in Nat
           /\ inIndex <= count /\ outIndex <= inIndex /\ count <= fed - before
           /\ Prefix(stage - 1) \in Int
           /\ Prefix(stage) = Prefix(stage - 1) * chain[stage].divider
<1>1. Len(chain) \in Nat /\ stage \in 0..Len(chain)
  BY ChainFacts DEF CallInv
<1>2. /\ stage \in 1..Len(chain) /\ stage \in Int
      /\ stage - 1 \in 0..Len(chain) /\ stage \in 0..Len(chain)
  BY <1>1, SMT
<1>3. /\ count \in Nat /\ inIndex \in 0..count /\ outIndex \in 0..inIndex
      /\ count <= fed - before
  BY DEF CallInv, Position
<1>4. /\ chain[stage].divider \in Positive /\ Reaching(before, stage) \in Nat
      /\ Prefix(stage - 1) \in Positive
      /\ Prefix(stage) = Prefix(stage - 1) * chain[stage].divider
  BY <1>2, ChainFacts, LetThrough, Prefixes
<1>5. inIndex \in Nat /\ outIndex \in Nat /\ inIndex <= count /\ outIndex <= inIndex
  BY <1>3, SMT
<1>6. Prefix(stage - 1) \in Int
  BY <1>4, SMT DEF Positive
<1> QED BY <1>1, <1>2, <1>3, <1>4, <1>5, <1>6

LEMMA DownsampleXKeeps ==
    ASSUME FactorsInv, ChainType, NEW before \in Nat, CallInv(before), DownsampleX
    PROVE  ChainType' /\ CallInv(before)'
<1>1. PICK n \in ChainCalls : /\ samples' = [i \in 0..(n - 1) |-> fed + i + 1]
                              /\ count' = n /\ fed' = fed + n
  BY DEF DownsampleX
<1>2. /\ chain # <<>> /\ stage = 0 /\ stage' = 1 /\ inIndex' = 0 /\ outIndex' = 0
      /\ chain' = chain /\ results' = results
  BY DEF DownsampleX, rates
<1>3. n \in Nat /\ n > 0
  BY ChainSizes
<1>4. fed = before /\ Phases(before) /\ Results(before)
  BY <1>2 DEF CallInv
<1>5. /\ Len(chain) \in Nat /\ DOMAIN chain = 1..Len(chain) /\ 1 \in 1..Len(chain)
  <2>1. PICK shifts : chain \in Seq(Stage(shifts))
    BY DEF ChainType
  <2>2. Len(chain) \in Nat \ {0}
    BY <1>2, <2>1, EmptySeq
  <2> QED BY <2>2, ChainFacts, SMT
<1>6. fed' \in Nat /\ before <= fed' /\ stage' \in 0..Len(chain')
  BY <1>1, <1>2, <1>3, <1>4, <1>5, SMT
<1>7. ChainType' /\ Results(before)'
  <2>1. ChainType'
    BY <1>2 DEF ChainType, Stage
  <2>2. TotalDivider' = TotalDivider
    BY <1>2 DEF TotalDivider, ProductOf
  <2> QED BY <1>2, <1>4, <2>1, <2>2 DEF Results
<1>8. \A i : Prefix(i)' = Prefix(i)
  BY <1>2 DEF Prefix, ProductOf
<1>9. Phases(before)'
  <2> SUFFICES ASSUME NEW i \in 1..Len(chain)
               PROVE  chain[i].phase = Taken(before, i)' % (2 * chain[i].divider)
    BY <1>2 DEF Phases
  <2>1. /\ chain[i].phase = Taken(before, i) % (2 * chain[i].divider)
        /\ Taken(before, i) = Reaching(before, i)
    <3>1. ~(i < 0) /\ i # 0
      BY <1>5, SMT
    <3> QED BY <1>2, <1>4, <3>1 DEF Phases, Taken
  <2>2. Taken(before, i)' = Reaching(before, i)
    <3>1. Reaching(before, i)' = Reaching(before, i) /\ Reaching(before, i) \in Nat
      BY <1>8, LetThrough DEF Reaching
    <3>2. ~(i < 1) /\ Reaching(before, i) + 0 = Reaching(before, i)
      BY <1>5, <3>1, SMT
    <3> QED BY <1>2, <3>1, <3>2 DEF Taken
  <2> QED BY <2>1, <2>2
<1>10. Position(before)'
  <2> DEFINE d == chain[1].divider
  <2>1. Reaching(before, 1)' = before /\ Reaching(fed, 1)' = fed'
    <3>1. Reaching(before, 1) = before
      BY <1>5, LetThrough
    <3>2. (fed' \div Prefix(0)) = fed'
      <4>1. Prefix(0) = 1
        BY Prefixes
      <4>2. PICK f \in Nat : f = fed'
        BY <1>6
      <4>3. f = 1 * f + 0 /\ 0 <= 0 /\ 0 < 1 /\ f \in Int /\ 0 \in Int
        BY SMT
      <4>4. 1 \in Positive
        BY SMT DEF Positive
      <4>5. f \div 1 = f
        BY <4>3, <4>4, RemainderIs
      <4> QED BY <4>1, <4>2, <4>5
    <3>3. 1 - 1 = 0
      BY SMT
    <3> QED BY <1>8, <3>1, <3>2, <3>3 DEF Reaching
  <2>2. DOMAIN samples' = 0..(fed' - before - 1)
    <3>1. fed' - before - 1 = n - 1
      BY <1>1, <1>3, <1>4, SMT
    <3> QED BY <1>1, <3>1
  <2>3. /\ count' \in Nat /\ inIndex' \in 0..count' /\ outIndex' \in 0..inIndex'
        /\ count' <= fed' - before /\ count' = fed' - before
    BY <1>1, <1>2, <1>3, <1>4, SMT
  <2>4. outIndex' = ((before + inIndex') \div d) - (before \div d)
    <3>1. before \div d \in Int
      <4>1. d \in Positive /\ before \in Int
        BY <1>5, ChainFacts, SMT
      <4> QED BY <4>1, Division
    <3>2. before + 0 = before
      BY SMT
    <3> HIDE DEF d
    <3>3. (before \div d) - (before \div d) = 0
      BY <3>1, SMT
    <3> QED BY <1>2, <3>2, <3>3
  <2>5. ASSUME NEW j \in inIndex'..(count' - 1)
        PROVE  samples'[j] = (before + j + 1) * Prefix(0)'
    <3>1. Prefix(0)' = 1
      BY <1>8, Prefixes
    <3>2. j \in 0..(n - 1) /\ (before + j + 1) * 1 = fed + j + 1
      BY <1>1, <1>2, <1>3, <1>4, <2>5, SMT
    <3> QED BY <1>1, <3>1, <3>2
  <2>6. 0..(outIndex' - 1) = {} /\ 1 - 1 = 0
    BY <1>2, SMT
  <2> QED BY <1>2, <2>1, <2>2, <2>3, <2>4, <2>5, <2>6 DEF Position
<1>11. chain' # <<>> /\ stage' # 0
  BY <1>2
<1> QED BY <1>6, <1>7, <1>9, <1>10, <1>11 DEF CallInv

\* The phase after one more sample, and where it goes.
LEMMA StageStepKeeps ==
    ASSUME FactorsInv, ChainType, NEW before \in Nat, CallInv(before), StageStep
    PROVE  ChainType' /\ CallInv(before)'
<1> DEFINE L == Len(chain)
           d == chain[stage].divider
           p == chain[stage].phase
           q == IF p + 1 = 2 * d THEN 0 ELSE p + 1
           first == Reaching(before, stage)
           P == Prefix(stage - 1)
           t == first + inIndex
<1>1. /\ stage > 0 /\ inIndex < count
      /\ chain' = [chain EXCEPT ![stage].phase = q]
      /\ inIndex' = inIndex + 1
      /\ stage' = stage /\ count' = count /\ fed' = fed /\ results' = results
  BY DEF StageStep
<1>2. /\ stage \in 1..L /\ stage \in Int /\ L \in Nat
      /\ stage - 1 \in 0..L /\ stage \in 0..L
      /\ d \in Positive /\ first \in Nat
      /\ count \in Nat /\ inIndex \in Nat /\ outIndex \in Nat
      /\ inIndex <= count /\ outIndex <= inIndex /\ count <= fed - before
      /\ P \in Int /\ Prefix(stage) = P * d
  BY <1>1, AtWork
<1>3. Phases(before) /\ Results(before) /\ Position(before) /\ before <= fed /\ fed \in Nat
  BY <1>1 DEF CallInv
<1>4. t \in Nat /\ t \in Int /\ d \in Int /\ d > 0
  BY <1>2, SMT DEF Positive
<1>5. p = t % (2 * d)
  <2>1. Taken(before, stage) = t
    BY <1>2, SMT DEF Taken
  <2> QED BY <1>2, <1>3, <2>1 DEF Phases
<1>6. /\ p \in Nat
      /\ (t + 1) % (2 * d) = q
      /\ t \div d \in Nat
      /\ IF p + 1 \in {d, 2 * d}
         THEN (t + 1) \div d = (t \div d) + 1 /\ d * ((t \div d) + 1) = t + 1
         ELSE (t + 1) \div d = t \div d
  <2> HIDE DEF t, d, p
  <2> QED BY <1>2, <1>4, <1>5, PhaseCounts
<1>7. q \in Nat
  <2> HIDE DEF p, d
  <2> QED BY <1>6, SMT
<1>8. /\ ChainType' /\ Len(chain') = L
      /\ \A i \in 1..L : chain'[i].divider = chain[i].divider
      /\ \A i \in 1..L : i # stage => chain'[i] = chain[i]
      /\ chain'[stage].phase = q
  <2>1. PICK shifts : chain \in Seq(Stage(shifts))
    BY DEF ChainType
  <2> DEFINE new == [chain[stage] EXCEPT !.phase = q]
  <2>2. chain[stage] \in Stage(shifts)
    BY <1>2, <2>1, ElementOfSeq
  <2> HIDE DEF q
  <2>3. new \in Stage(shifts) /\ new.divider = chain[stage].divider /\ new.phase = q
    BY <1>7, <2>2 DEF Stage
  <2>4. chain' = [chain EXCEPT ![stage] = new]
    BY <1>1
  <2> HIDE DEF new
  <2> DEFINE any == Stage(shifts)
  <2>5. chain \in Seq(any) /\ new \in any
    BY <2>1, <2>3
  <2> HIDE DEF any
  <2>6. /\ chain' \in Seq(any) /\ Len(chain') = L
        /\ \A j \in 1..L : chain'[j] = IF j = stage THEN new ELSE chain[j]
    BY <1>2, <2>4, <2>5, ExceptSeq
  <2>7. ChainType'
    <3>1. chain' \in Seq(Stage(shifts))
      BY <2>6 DEF any
    <3> QED BY <2>6, <3>1 DEF ChainType, Stage
  <2> QED BY <1>2, <2>3, <2>6, <2>7
<1>9. /\ TotalDivider' = TotalDivider
      /\ \A i \in 0..L : Prefix(i)' = Prefix(i)
      /\ \A n \in Int : \A i \in 1..(L + 1) : Reaching(n, i)' = Reaching(n, i)
      /\ \A i \in 1..(L + 1) : Reaching(fed, i)' = Reaching(fed, i)
  BY <1>1, <1>8, SameDividers
<1>10. \A i \in 1..L : Reaching(before, i)' = Reaching(before, i)
                       /\ Reaching(fed, i)' = Reaching(fed, i)
  <2>1. \A i \in 1..L : i \in 1..(L + 1)
    BY <1>2, SMT
  <2>2. before \in Int
    BY SMT
  <2> QED BY <1>9, <2>1, <2>2
<1>11. t + 1 = first + inIndex'
  BY <1>1, <1>2, SMT
<1>12. Phases(before)'
  <2> SUFFICES ASSUME NEW i \in 1..L
               PROVE  chain'[i].phase = Taken(before, i)' % (2 * chain'[i].divider)
    BY <1>8 DEF Phases
  <2>1. CASE i = stage
    <3>1. ~(stage < stage)
      BY <1>2, SMT
    <3>2. Taken(before, i)' = t + 1
      BY <1>1, <1>10, <1>11, <2>1, <3>1 DEF Taken
    <3> QED BY <1>6, <1>8, <2>1, <3>2
  <2>2. CASE i # stage
    <3>1. Taken(before, i)' = Taken(before, i)
      BY <1>1, <1>10, <2>2 DEF Taken
    <3> QED BY <1>3, <1>8, <2>2, <3>1 DEF Phases
  <2> QED BY <2>1, <2>2
<1>13. Results(before)'
  BY <1>1, <1>3, <1>9 DEF Results
<1>14. /\ DOMAIN samples = 0..(fed - before - 1)
       /\ count = Reaching(fed, stage) - first
       /\ outIndex = (t \div d) - (first \div d)
       /\ \A j \in inIndex..(count - 1) : samples[j] = (first + j + 1) * P
       /\ \A j \in 0..(outIndex - 1) : samples[j] = ((first \div d) + j + 1) * Prefix(stage)
  BY <1>3 DEF Position
<1>15. first \div d \in Int
  <2>1. first \in Int
    BY <1>2, SMT
  <2> QED BY <1>2, <2>1, Division
<1> DEFINE a == first \div d
           b == t \div d
           c == (t + 1) \div d
<1>16. /\ outIndex' \in Nat /\ outIndex' <= inIndex'
       /\ outIndex' = c - a
       /\ DOMAIN samples' = DOMAIN samples
       /\ \A j \in DOMAIN samples : j # outIndex => samples'[j] = samples[j]
       /\ \/ outIndex' = outIndex
          \/ /\ outIndex' = outIndex + 1
             /\ samples'[outIndex] = samples[inIndex]
             /\ d * (b + 1) = t + 1
  <2>1. CASE p + 1 \in {d, 2 * d}
    <3>1. /\ samples' = [samples EXCEPT ![outIndex] = samples[inIndex]]
          /\ outIndex' = outIndex + 1
      BY <2>1 DEF StageStep, OutputPlace
    <3>2. c = b + 1 /\ d * (b + 1) = t + 1 /\ b \in Nat
      BY <1>6, <2>1
    <3>3. outIndex \in DOMAIN samples
      <4>1. outIndex \in 0..(fed - before - 1)
        BY <1>1, <1>2, <1>3, SMT
      <4> QED BY <1>14, <4>1
    <3> HIDE DEF a, b, c, t, d
    <3>4. outIndex' \in Nat /\ outIndex' <= inIndex' /\ outIndex' = c - a
      <4>1. outIndex = b - a /\ a \in Int
        BY <1>14, <1>15 DEF a, b
      <4> QED BY <1>1, <1>2, <3>1, <3>2, <4>1, SMTT(30)
    <3> QED BY <3>1, <3>2, <3>3, <3>4
  <2>2. CASE p + 1 \notin {d, 2 * d}
    <3>1. samples' = samples /\ outIndex' = outIndex
      BY <2>2 DEF StageStep
    <3>2. c = b
      BY <1>6, <2>2
    <3>3. outIndex' = c - a
      BY <1>14, <3>1, <3>2
    <3>4. outIndex' \in Nat /\ outIndex' <= inIndex'
      BY <1>1, <1>2, <3>1, SMT
    <3> QED BY <3>1, <3>3, <3>4
  <2> QED BY <2>1, <2>2
<1>17. ASSUME NEW j \in inIndex'..(count' - 1) PROVE samples'[j] = (first + j + 1) * P
  <2>1. j \in inIndex..(count - 1) /\ j # outIndex /\ j \in 0..(fed - before - 1)
    BY <1>1, <1>2, <1>3, SMT
  <2> QED BY <1>14, <1>16, <2>1
<1>18. ASSUME NEW j \in 0..(outIndex' - 1) PROVE samples'[j] = (a + j + 1) * Prefix(stage)
  <2>1. CASE j # outIndex
    <3>1. j \in 0..(outIndex - 1) /\ j \in 0..(fed - before - 1)
      <4>1. outIndex \in Nat /\ outIndex' \in Nat /\ outIndex' <= outIndex + 1
        BY <1>2, <1>16
      <4>2. (fed - before) \in Int /\ outIndex <= fed - before
        BY <1>1, <1>2, <1>3, SMT
      <4> QED BY <2>1, <4>1, <4>2, StillBelow
    <3> QED BY <1>14, <1>16, <2>1, <3>1
  <2>2. CASE j = outIndex
    <3>1. samples'[outIndex] = samples[inIndex] /\ d * (b + 1) = t + 1
      BY <1>2, <1>16, <2>2, SMT
    <3>2. samples[inIndex] = (first + inIndex + 1) * P
      <4>1. inIndex \in inIndex..(count - 1)
        BY <1>1, <1>2, SMT
      <4> QED BY <1>14, <4>1
    <3>3. b = a + outIndex /\ a \in Int /\ b \in Int
      <4>1. outIndex = b - a /\ a \in Int /\ b \in Nat
        BY <1>6, <1>14, <1>15
      <4> HIDE DEF a, b
      <4> QED BY <4>1, SMT
    <3> HIDE DEF a, b, t, d, first, P
    <3>4. (t + 1) * P = (b + 1) * (P * d)
      <4>1. (d * (b + 1)) * P = (b + 1) * (P * d)
        BY <1>2, <1>4, <3>3, SMT
      <4> QED BY <3>1, <4>1
    <3>5. (first + inIndex + 1) * P = (a + outIndex + 1) * (P * d)
      <4>1. first + inIndex + 1 = t + 1
        BY DEF t
      <4>2. a + outIndex + 1 = b + 1
        BY <3>3
      <4> QED BY <3>4, <4>1, <4>2
    <3> QED BY <1>2, <2>2, <3>1, <3>2, <3>5
  <2> QED BY <2>1, <2>2
<1>19. Position(before)'
  <2>1. /\ Reaching(before, stage)' = first /\ Reaching(fed, stage)' = Reaching(fed, stage)
        /\ chain'[stage'].divider = d
        /\ Prefix(stage - 1)' = P /\ Prefix(stage)' = Prefix(stage)
    BY <1>1, <1>2, <1>8, <1>9, <1>10
  <2>2. count' \in Nat /\ inIndex' \in 0..count' /\ outIndex' \in 0..inIndex'
    BY <1>1, <1>2, <1>16, SMT
  <2>3. outIndex' = ((first + inIndex') \div d) - (first \div d)
    BY <1>11, <1>16
  <2> QED BY <1>1, <1>2, <1>14, <1>16, <1>17, <1>18, <2>1, <2>2, <2>3 DEF Position
<1>20. chain' = <<>> => fed' = 0
  <2>1. Len(chain') \in Nat \ {0}
    BY <1>2, <1>8, SMT
  <2>2. chain' # <<>>
    BY <2>1, EmptySeq, SMT
  <2> QED BY <2>2
<1>21. stage' # 0 /\ stage' > 0 /\ stage' \in 0..Len(chain')
  BY <1>1, <1>2, <1>8, SMT
<1> QED BY <1>1, <1>3, <1>8, <1>12, <1>13, <1>19, <1>20, <1>21 DEF CallInv

\* What a stage has put out is what the next one has to read.
LEMMA StageDoneKeeps ==
    ASSUME FactorsInv, ChainType, NEW before \in Nat, CallInv(before), StageDone
    PROVE  ChainType' /\ CallInv(before)'
<1> DEFINE L == Len(chain)
           d == chain[stage].divider
           e == chain[stage + 1].divider
           first == Reaching(before, stage)
           next == Reaching(before, stage + 1)
<1>1. /\ stage > 0 /\ inIndex = count /\ stage < L
      /\ stage' = stage + 1 /\ count' = outIndex /\ inIndex' = 0 /\ outIndex' = 0
      /\ chain' = chain /\ samples' = samples /\ fed' = fed /\ results' = results
  BY DEF StageDone
<1>2. /\ stage \in 1..L /\ stage \in Int /\ L \in Nat
      /\ d \in Positive /\ first \in Nat
      /\ count \in Nat /\ inIndex \in Nat /\ outIndex \in Nat
      /\ inIndex <= count /\ outIndex <= inIndex /\ count <= fed - before
  BY <1>1, AtWork
<1>3. Phases(before) /\ Results(before) /\ Position(before) /\ before <= fed /\ fed \in Nat
  BY <1>1 DEF CallInv
<1>4. stage + 1 \in 1..L /\ stage + 1 - 1 = stage /\ stage + 1 \in 0..L /\ stage + 1 > 0
  BY <1>1, <1>2, SMT
<1>5. /\ first \div d = next /\ next \in Nat /\ e \in Positive
      /\ Reaching(fed, stage) \div d = Reaching(fed, stage + 1)
  BY <1>2, <1>3, <1>4, LetThrough, ChainFacts
<1>6. /\ DOMAIN samples = 0..(fed - before - 1)
      /\ count = Reaching(fed, stage) - first
      /\ outIndex = ((first + inIndex) \div d) - (first \div d)
      /\ \A j \in 0..(outIndex - 1) : samples[j] = ((first \div d) + j + 1) * Prefix(stage)
  BY <1>3 DEF Position
<1>7. \A i : Prefix(i)' = Prefix(i)
  BY <1>1 DEF Prefix, ProductOf
<1>8. \A i : Reaching(before, i)' = Reaching(before, i) /\ Reaching(fed, i)' = Reaching(fed, i)
  BY <1>1, <1>7 DEF Reaching
<1>9. first + inIndex = Reaching(fed, stage)
  <2>1. Reaching(fed, stage) \in Nat
    BY <1>2, <1>3, LetThrough
  <2> QED BY <1>1, <1>2, <1>6, <2>1, SMT
<1>10. ChainType' /\ Results(before)'
  <2>1. ChainType'
    BY <1>1 DEF ChainType, Stage
  <2>2. TotalDivider' = TotalDivider
    BY <1>1 DEF TotalDivider, ProductOf
  <2> QED BY <1>1, <1>3, <2>1, <2>2 DEF Results
<1>11. Phases(before)'
  <2> SUFFICES ASSUME NEW i \in 1..L
               PROVE  chain[i].phase = Taken(before, i)' % (2 * chain[i].divider)
    BY <1>1 DEF Phases
  <2>1. Taken(before, i)' = Taken(before, i)
    <3>1. CASE i < stage
      <4>1. i < stage + 1
        BY <1>2, <3>1, SMT
      <4> QED BY <1>1, <1>8, <3>1, <4>1 DEF Taken
    <3>2. CASE i = stage
      <4>1. i < stage + 1 /\ ~(i < stage)
        BY <1>2, <3>2, SMT
      <4> QED BY <1>1, <1>8, <1>9, <3>2, <4>1 DEF Taken
    <3>3. CASE i = stage + 1
      <4>1. ~(i < stage + 1) /\ ~(i < stage) /\ i # stage
        BY <1>2, <3>3, SMT
      <4>2. Taken(before, i) = next
        BY <3>3, <4>1 DEF Taken
      <4>3. Taken(before, i)' = next + 0
        BY <1>1, <1>8, <3>3, <4>1 DEF Taken
      <4>4. next + 0 = next
        BY <1>5, SMT
      <4> QED BY <4>2, <4>3, <4>4
    <3>4. CASE i > stage + 1
      <4>1. ~(i < stage + 1) /\ ~(i < stage) /\ i # stage /\ i # stage + 1
        BY <1>2, <3>4, SMT
      <4> QED BY <1>1, <1>8, <4>1 DEF Taken
    <3>5. i < stage \/ i = stage \/ i = stage + 1 \/ i > stage + 1
      BY <1>2, SMT
    <3> QED BY <3>1, <3>2, <3>3, <3>4, <3>5
  <2> QED BY <1>3, <2>1 DEF Phases
<1>12. Position(before)'
  <2>1. /\ count' \in Nat /\ inIndex' \in 0..count' /\ outIndex' \in 0..inIndex'
        /\ count' <= fed' - before
    BY <1>1, <1>2, <1>3, SMT
  <2>2. count' = Reaching(fed, stage + 1) - next
    BY <1>1, <1>5, <1>6, <1>9
  <2>3. outIndex' = ((next + inIndex') \div e) - (next \div e)
    <3>1. next \div e \in Int /\ next + 0 = next
      <4>1. next \in Int /\ next + 0 = next
        BY <1>5, SMT
      <4> QED BY <1>5, <4>1, Division
    <3>2. (next \div e) - (next \div e) = 0
      BY <3>1, SMT
    <3> QED BY <1>1, <3>1, <3>2
  <2>4. ASSUME NEW j \in inIndex'..(count' - 1)
        PROVE  samples'[j] = (next + j + 1) * Prefix(stage)
    <3>1. j \in 0..(outIndex - 1)
      BY <1>1, <2>4
    <3> QED BY <1>1, <1>5, <1>6, <3>1
  <2>5. 0..(outIndex' - 1) = {}
    BY <1>1, SMT
  <2>6. PICK n \in Int : n = stage
    BY <1>2
  <2>7. /\ Reaching(before, n + 1)' = next
        /\ Reaching(fed, n + 1)' = Reaching(fed, stage + 1)
        /\ chain'[n + 1].divider = e
        /\ Prefix(n)' = Prefix(stage)
    BY <1>1, <1>7, <1>8, <2>6
  <2>8. stage' = n + 1 /\ n + 1 - 1 = n
    BY <1>1, <2>6, SMT
  <2>9. DOMAIN samples' = 0..(fed' - before - 1)
    BY <1>1, <1>6
  <2> HIDE DEF next, e
  <2> QED BY <2>1, <2>2, <2>3, <2>4, <2>5, <2>7, <2>8, <2>9 DEF Position
<1>13. chain' # <<>>
  <2>1. chain # <<>>
    BY <1>2, EmptySeq, SMT
  <2> QED BY <1>1, <2>1
<1>14. stage' \in 0..Len(chain') /\ stage' # 0
  BY <1>1, <1>2, <1>4, SMT
<1> QED BY <1>1, <1>3, <1>10, <1>11, <1>12, <1>13, <1>14 DEF CallInv

\* A list and another after it, of whatever kind.
LEMMA Joined ==
    ASSUME NEW S, NEW list \in Seq(S), NEW n \in Nat, NEW R, NEW f \in [1..n -> R]
    PROVE  /\ list \o f \in Seq(S \cup R)
           /\ Len(list) \in Nat /\ DOMAIN list = 1..Len(list)
           /\ Len(list \o f) = Len(list) + n
           /\ DOMAIN (list \o f) = 1..(Len(list) + n)
           /\ \A k \in 1..Len(list) : (list \o f)[k] = list[k]
           /\ \A k \in 1..n : (list \o f)[Len(list) + k] = f[k]
<1> DEFINE T == S \cup R
<1>1. list \in Seq(T)
  <2>1. S \subseteq T
    OBVIOUS
  <2> HIDE DEF T
  <2> QED BY <2>1, SMT
<1>2. f \in Seq(T) /\ Len(f) = n
  <2>1. f \in [1..n -> T]
    OBVIOUS
  <2> HIDE DEF T
  <2> QED BY <2>1, SMT
<1> HIDE DEF T
<1>3. /\ list \o f \in Seq(T) /\ Len(list \o f) = Len(list) + Len(f)
      /\ \A i \in 1..(Len(list) + Len(f)) :
            (list \o f)[i] = IF i <= Len(list) THEN list[i] ELSE f[i - Len(list)]
  BY <1>1, <1>2, ConcatProperties
<1>4. Len(list) \in Nat /\ DOMAIN list = 1..Len(list)
  BY <1>1, LenProperties
<1>5. DOMAIN (list \o f) = 1..(Len(list) + n)
  BY <1>2, <1>3, LenProperties
<1>6. ASSUME NEW k \in 1..Len(list) PROVE (list \o f)[k] = list[k]
  <2>1. k \in 1..(Len(list) + n) /\ k <= Len(list)
    BY <1>4, SMT
  <2> QED BY <1>2, <1>3, <2>1
<1>7. ASSUME NEW k \in 1..n PROVE (list \o f)[Len(list) + k] = f[k]
  <2>1. /\ Len(list) + k \in 1..(Len(list) + n) /\ ~(Len(list) + k <= Len(list))
        /\ Len(list) + k - Len(list) = k
    BY <1>4, SMT
  <2> QED BY <1>2, <1>3, <2>1
<1> QED BY <1>2, <1>3, <1>4, <1>5, <1>6, <1>7 DEF T

\* What the last stage has put out is what the chain has.
LEMMA ChainReturnKeeps ==
    ASSUME FactorsInv, ChainType, NEW before \in Nat, CallInv(before), ChainReturn
    PROVE  ChainType' /\ \E after \in Nat : CallInv(after)'
<1> DEFINE L == Len(chain)
           d == chain[stage].divider
           first == Reaching(before, stage)
           own == [i \in 1..outIndex |-> samples[i - 1]]
           D == TotalDivider
           b == before \div D
<1>1. /\ stage > 0 /\ inIndex = count /\ stage = L
      /\ results' = results \o own
      /\ stage' = 0 /\ chain' = chain /\ fed' = fed
  BY DEF ChainReturn, rates
<1>2. /\ stage \in 1..L /\ stage \in Int /\ L \in Nat
      /\ d \in Positive /\ first \in Nat
      /\ count \in Nat /\ inIndex \in Nat /\ outIndex \in Nat
  BY <1>1, AtWork
<1>3. Phases(before) /\ Results(before) /\ Position(before) /\ fed \in Nat
  BY <1>1 DEF CallInv
<1>4. /\ Reaching(fed, stage) \in Nat
      /\ first \div d = Reaching(before, stage + 1)
      /\ Reaching(fed, stage) \div d = Reaching(fed, stage + 1)
      /\ Reaching(before, stage + 1) \in Nat
      /\ Reaching(fed, stage + 1) \in Nat
  BY <1>2, <1>3, LetThrough
<1>5. Prefix(stage) = D /\ D \in Positive
  <2>1. L \in 0..L
    BY <1>2, SMT
  <2> QED BY <1>1, <2>1, Prefixes
<1>6. Reaching(before, stage + 1) = b /\ Reaching(fed, stage + 1) = fed \div D
  <2>1. /\ Reaching(before, stage + 1) = before \div Prefix(stage)
        /\ Reaching(fed, stage + 1) = fed \div Prefix(stage)
    BY <1>2, <1>3, LetThrough
  <2> HIDE DEF D
  <2> QED BY <1>5, <2>1
<1>7. /\ count = Reaching(fed, stage) - first
      /\ outIndex = ((first + inIndex) \div d) - (first \div d)
      /\ \A j \in 0..(outIndex - 1) : samples[j] = ((first \div d) + j + 1) * Prefix(stage)
  BY <1>3 DEF Position
<1>8. first + inIndex = Reaching(fed, stage)
  BY <1>1, <1>2, <1>4, <1>7, SMT
<1>9. outIndex = (fed \div D) - b /\ b \in Nat /\ fed \div D \in Nat
  BY <1>4, <1>6, <1>7, <1>8
<1>10. PICK S : results \in Seq(S)
  BY <1>3 DEF Results
<1>11. Len(results) = b /\ \A k \in DOMAIN results : results[k] = k * D
  BY <1>3 DEF Results
<1>12. own \in [1..outIndex -> {samples[i - 1] : i \in 1..outIndex}]
  OBVIOUS
<1>13. ASSUME NEW k \in 1..outIndex PROVE own[k] = (b + k) * D
  <2>1. k - 1 \in 0..(outIndex - 1)
    BY <1>2, SMT
  <2>2. samples[k - 1] = (b + (k - 1) + 1) * D
    BY <1>4, <1>5, <1>6, <1>7, <2>1
  <2>3. b + (k - 1) + 1 = b + k
    <3> HIDE DEF b
    <3> QED BY <1>2, <1>9, SMT
  <2> QED BY <2>2, <2>3
<1> HIDE DEF own
<1>14. /\ \E T : results' \in Seq(T)
       /\ DOMAIN results = 1..b
       /\ Len(results') = b + outIndex /\ DOMAIN results' = 1..(b + outIndex)
       /\ \A k \in 1..b : results'[k] = results[k]
       /\ \A k \in 1..outIndex : results'[b + k] = own[k]
  <2>1. /\ \E T : results \o own \in Seq(T)
        /\ DOMAIN results = 1..Len(results)
        /\ Len(results \o own) = Len(results) + outIndex
        /\ DOMAIN (results \o own) = 1..(Len(results) + outIndex)
        /\ \A k \in 1..Len(results) : (results \o own)[k] = results[k]
        /\ \A k \in 1..outIndex : (results \o own)[Len(results) + k] = own[k]
    <3> DEFINE R == {samples[i - 1] : i \in 1..outIndex}
    <3>1. own \in [1..outIndex -> R] /\ outIndex \in Nat
      BY <1>2, <1>12
    <3> HIDE DEF R
    <3>2. results \o own \in Seq(S \cup R)
      BY <1>10, <3>1, Joined
    <3>3. /\ DOMAIN results = 1..Len(results)
          /\ Len(results \o own) = Len(results) + outIndex
          /\ DOMAIN (results \o own) = 1..(Len(results) + outIndex)
          /\ \A k \in 1..Len(results) : (results \o own)[k] = results[k]
          /\ \A k \in 1..outIndex : (results \o own)[Len(results) + k] = own[k]
      BY <1>10, <3>1, Joined
    <3> QED BY <3>2, <3>3
  <2>2. Len(results) = b /\ results' = results \o own
    BY <1>1, <1>11
  <2> HIDE DEF b
  <2> QED BY <2>1, <2>2
<1>15. Len(results') = fed \div D
  <2> DEFINE g == fed \div D
  <2>1. outIndex = g - b /\ b \in Nat /\ g \in Nat /\ Len(results') = b + outIndex
    BY <1>9, <1>14
  <2> HIDE DEF b, g
  <2>2. Len(results') = g
    BY <2>1, SMT
  <2> QED BY <2>2 DEF g
<1>16. ASSUME NEW k \in DOMAIN results' PROVE results'[k] = k * D
  <2>1. k \in 1..(b + outIndex)
    BY <1>14
  <2>2. CASE k \in 1..b
    BY <1>11, <1>14, <2>2
  <2>3. CASE k \notin 1..b
    <3> HIDE DEF b
    <3>1. PICK m \in 1..outIndex : k = b + m
      <4>1. k - b \in 1..outIndex /\ k = b + (k - b)
        BY <1>2, <1>9, <2>1, <2>3, SMT
      <4> QED BY <4>1
    <3> QED BY <1>13, <1>14, <3>1 DEF b
  <2> QED BY <2>2, <2>3
<1>17. PICK after \in Nat : after = fed
  BY <1>3
<1>18. ChainType' /\ TotalDivider' = D
  <2>1. ChainType'
    BY <1>1 DEF ChainType, Stage
  <2>2. TotalDivider' = TotalDivider
    BY <1>1 DEF TotalDivider, ProductOf
  <2> QED BY <2>1, <2>2
<1> HIDE DEF D
<1>19. Results(after)'
  BY <1>14, <1>15, <1>16, <1>17, <1>18 DEF Results
<1>20. Phases(after)'
  <2> SUFFICES ASSUME NEW i \in 1..L
               PROVE  chain[i].phase = Taken(after, i)' % (2 * chain[i].divider)
    BY <1>1 DEF Phases
  <2>1. Taken(after, i)' = Reaching(fed, i)
    <3>1. ~(i < 0) /\ i # 0
      BY <1>2, SMT
    <3>2. Reaching(after, i)' = Reaching(fed, i)
      BY <1>1, <1>17 DEF Reaching, Prefix, ProductOf
    <3> QED BY <1>1, <3>1, <3>2 DEF Taken
  <2>2. Taken(before, i) = Reaching(fed, i)
    <3>1. CASE i = stage
      <4>1. ~(i < stage)
        BY <1>2, <3>1, SMT
      <4> QED BY <1>8, <3>1, <4>1 DEF Taken
    <3>2. CASE i # stage
      <4>1. i < stage
        BY <1>1, <1>2, <3>2, SMT
      <4> QED BY <4>1 DEF Taken
    <3> QED BY <3>1, <3>2
  <2> QED BY <1>3, <2>1, <2>2 DEF Phases
<1>21. chain' = <<>> => fed' = 0
  BY <1>1 DEF CallInv
<1>22. stage' \in 0..Len(chain') /\ after <= fed' /\ ~(stage' > 0)
  BY <1>1, <1>2, <1>17, SMT
<1>23. CallInv(after)'
  BY <1>1, <1>3, <1>17, <1>19, <1>20, <1>21, <1>22 DEF CallInv
<1> QED BY <1>18, <1>23

\* A new stage has had no sample, and there was none before.
LEMMA MakeStagesKeeps ==
    ASSUME FactorsInv, ChainType, NEW before \in Nat, CallInv(before), MakeStages
    PROVE  ChainType' /\ CallInv(before)'
<1>1. ChainType' /\ \A i \in 1..Len(chain') : chain'[i].phase = 0
  BY StagesMade
<1>2. /\ chain = <<>> /\ Len(chain) = 0
      /\ stage' = stage /\ fed' = fed /\ results' = results
  BY EmptySeq DEF MakeStages, position
<1>3. stage = 0 /\ fed = 0 /\ before = 0 /\ Results(before)
  <2>1. stage \in 0..0 /\ fed = 0
    BY <1>2 DEF CallInv
  <2>2. stage = 0
    BY <2>1, SMT
  <2> QED BY <2>1, <2>2 DEF CallInv
<1>4. /\ Len(chain') \in Nat
      /\ \A i \in 1..Len(chain') : chain'[i].divider \in Positive
      /\ TotalDivider' \in Positive
      /\ \A i \in 1..Len(chain') : Prefix(i - 1)' \in Positive
  <2>1. /\ Len(chain)' \in Nat
        /\ \A i \in 1..Len(chain)' : chain'[i].divider \in Positive
    <3>1. PICK shifts : chain' \in Seq(Stage(shifts))
      BY <1>1 DEF ChainType, Stage
    <3> DEFINE any == Stage(shifts)
    <3>2. \A r \in any : r.divider \in Positive
      BY DEF Stage
    <3> HIDE DEF any
    <3>3. \A i \in 1..Len(chain') : chain'[i] \in any
      BY <3>1, ElementOfSeq DEF any
    <3> QED BY <3>1, <3>2, <3>3, LenProperties
  <2>2. (/\ \A i \in 0..Len(chain) : Prefix(i) \in Positive
         /\ TotalDivider = Prefix(Len(chain)))'
    BY <1>1, Prefixes, PTL
  <2>3. Len(chain') \in 0..Len(chain') /\ \A i \in 1..Len(chain') : i - 1 \in 0..Len(chain')
    BY <2>1, SMT
  <2> QED BY <2>1, <2>2, <2>3
<1>5. ASSUME NEW m \in Positive PROVE 0 \div m = 0 /\ 0 % m = 0
  <2>1. 0 = m * 0 + 0 /\ 0 \in Int /\ 0 <= 0 /\ 0 < m
    BY SMT DEF Positive
  <2> QED BY <2>1, RemainderIs
<1>6. Phases(before)'
  <2> SUFFICES ASSUME NEW i \in 1..Len(chain')
               PROVE  chain'[i].phase = Taken(before, i)' % (2 * chain'[i].divider)
    BY DEF Phases
  <2>1. ~(i < 0) /\ i # 0
    BY <1>4, SMT
  <2>2. Reaching(before, i)' = 0
    BY <1>3, <1>4, <1>5 DEF Reaching
  <2>3. Taken(before, i)' = 0
    BY <1>2, <1>3, <2>1, <2>2 DEF Taken
  <2> DEFINE w == 2 * chain'[i].divider
  <2>4. w \in Positive
    <3>1. chain'[i].divider \in Positive
      BY <1>4
    <3> QED BY <3>1, SMT DEF Positive
  <2> HIDE DEF w
  <2>5. 0 % w = 0
    BY <1>5, <2>4
  <2> QED BY <1>1, <2>3, <2>5 DEF w
<1>7. Results(before)'
  <2>1. Len(results) = 0
    <3>1. TotalDivider \in Positive
      <4>1. Len(chain) \in 0..Len(chain)
        BY <1>2, SMT
      <4> QED BY <4>1, Prefixes
    <3> QED BY <1>3, <1>5, <3>1 DEF Results
  <2>2. PICK S : results \in Seq(S)
    BY <1>3 DEF Results
  <2>3. DOMAIN results = {}
    BY <2>1, <2>2, LenProperties, SMT
  <2> QED BY <1>2, <1>3, <1>4, <1>5, <2>1, <2>2, <2>3 DEF Results
<1>8. stage' \in 0..Len(chain') /\ before <= fed' /\ fed' \in Nat /\ ~(stage' > 0)
  BY <1>2, <1>3, <1>4, SMT
<1> QED BY <1>1, <1>2, <1>3, <1>6, <1>7, <1>8 DEF CallInv

LEMMA ChainInvariant == Spec => []ChainInv
<1>1. Init => ChainInv
  <2> SUFFICES ASSUME Init PROVE ChainInv
    OBVIOUS
  <2>1. /\ rest \in Positive /\ factors = <<>> /\ chain = <<>>
        /\ stage = 0 /\ fed = 0 /\ results = <<>>
    BY ChainSizes DEF Init, ChainInit
  <2>2. FactorsInv
    BY <2>1, EmptySeq, SMT DEF FactorsInv, Positive
  <2>3. ChainType /\ Len(chain) = 0
    <3>1. chain \in Seq(Stage({})) /\ Len(chain) = 0
      BY <2>1, EmptySeq
    <3> QED BY <3>1, SMT DEF ChainType
  <2>4. 1..Len(chain) = {} /\ stage \in 0..Len(chain)
    BY <2>1, <2>3, SMT
  <2>5. Phases(0)
    BY <2>4 DEF Phases
  <2>6. Results(0)
    <3>1. results \in Seq({}) /\ Len(results) = 0
      BY <2>1, EmptySeq
    <3>2. TotalDivider = 1
      <4>1. Len(chain) \in 0..Len(chain)
        BY <2>3, SMT
      <4> QED BY <2>3, <4>1, Prefixes
    <3>3. 0 \div 1 = 0
      <4>1. 1 \in Positive /\ 0 = 1 * 0 + 0 /\ 0 \in Int /\ 0 <= 0 /\ 0 < 1
        BY SMT DEF Positive
      <4> QED BY <4>1, RemainderIs
    <3>4. DOMAIN results = {}
      BY <3>1, LenProperties, SMT
    <3> QED BY <3>1, <3>2, <3>3, <3>4 DEF Results
  <2>7. CallInv(0)
    <3>1. 0 \in Nat /\ 0 <= 0 /\ ~(0 > 0)
      BY SMT
    <3> QED BY <2>1, <2>4, <2>5, <2>6, <3>1 DEF CallInv
  <2>8. 0 \in Nat
    OBVIOUS
  <2> QED BY <2>2, <2>3, <2>7, <2>8 DEF ChainInv
<1>2. ChainInv /\ [Next]_vars => ChainInv'
  <2> SUFFICES ASSUME ChainInv, [Next]_vars PROVE ChainInv'
    OBVIOUS
  <2>1. PICK before \in Nat : CallInv(before)
    BY DEF ChainInv
  <2>2. FactorsInv /\ ChainType
    BY DEF ChainInv
  <2>3. CASE ChooseFactor
    <3>1. FactorsInv'
      BY <2>2, <2>3, FactorsType
    <3>2. UNCHANGED <<chain, stage, samples, count, inIndex, outIndex, fed, results>>
      BY <2>3 DEF ChooseFactor, position
    <3>3. ChainType'
      BY <2>2, <3>2 DEF ChainType, Stage
    <3>4. CallInv(before)'
      BY <2>1, <3>2 DEF CallInv, Position, Phases, Results, Taken, Reaching, Prefix,
         TotalDivider, ProductOf
    <3> QED BY <3>1, <3>3, <3>4 DEF ChainInv
  <2>4. CASE UNCHANGED <<factors, rest>>
    <3>1. FactorsInv'
      BY <2>2, <2>4 DEF FactorsInv
    <3>2. CASE MakeStages
      BY <2>1, <2>2, <3>1, <3>2, MakeStagesKeeps DEF ChainInv
    <3>3. CASE DownsampleX
      BY <2>1, <2>2, <3>1, <3>3, DownsampleXKeeps DEF ChainInv
    <3>4. CASE StageStep
      BY <2>1, <2>2, <3>1, <3>4, StageStepKeeps DEF ChainInv
    <3>5. CASE StageDone
      BY <2>1, <2>2, <3>1, <3>5, StageDoneKeeps DEF ChainInv
    <3>6. CASE ChainReturn
      BY <2>1, <2>2, <3>1, <3>6, ChainReturnKeeps DEF ChainInv
    <3>7. CASE UNCHANGED chainVars
      <4>1. UNCHANGED <<chain, stage, samples, count, inIndex, outIndex, fed, results>>
        BY <3>7 DEF chainVars, position
      <4>2. ChainType'
        BY <2>2, <4>1 DEF ChainType, Stage
      <4>3. CallInv(before)'
        BY <2>1, <4>1 DEF CallInv, Position, Phases, Results, Taken, Reaching, Prefix,
           TotalDivider, ProductOf
      <4> QED BY <3>1, <4>2, <4>3 DEF ChainInv
    <3>8. ChooseFactor => ChainInv'
      BY <2>3
    <3>9. ChainNext \/ UNCHANGED chainVars
      BY DEF Next, vars
    <3> QED BY <3>2, <3>3, <3>4, <3>5, <3>6, <3>7, <3>8, <3>9 DEF ChainNext
  <2>5. ChooseFactor \/ UNCHANGED <<factors, rest>>
    BY DEF Next, vars, ChainNext, chainVars, rates,
       MakeStages, DownsampleX, StageStep, StageDone, ChainReturn
  <2> QED BY <2>3, <2>4, <2>5
<1> QED BY <1>1, <1>2, PTL DEF Spec

\* A chain of any stages, fed in calls of any size: its k-th output ends with
\* sample number k times its rate, though every stage writes what it puts out
\* over what it reads (cic_filter.c:122-161, 229-239).
THEOREM NoStageMixesSamples == Spec => []ChainOnTime
<1>1. ChainInv => ChainOnTime
  <2> SUFFICES ASSUME ChainInv PROVE ChainOnTime
    OBVIOUS
  <2>1. PICK before \in Nat : CallInv(before)
    BY DEF ChainInv
  <2> QED BY <2>1 DEF ChainOnTime, CallInv, Results
<1> QED BY <1>1, ChainInvariant, PTL

-----------------------------------------------------------------------------
(* The rate of the chain.  The factors that get no stage are those that    *)
(* are 1, as long as divisors are found.                                   *)

DividersOf(list) == [i \in DOMAIN list |-> list[i].divider]

RateMade ==
    exact /\ chain # <<>> => Len(factors) = 4 /\ TotalDivider = ProductOf(factors)

\* The dividers of stages are numbers.
LEMMA DividersType ==
    ASSUME NEW shifts, NEW list \in Seq(Stage(shifts))
    PROVE  DividersOf(list) \in Seq(Int) /\ Len(DividersOf(list)) = Len(list)
<1> DEFINE any == Stage(shifts)
           n == Len(list)
<1>1. \A r \in any : r.divider \in Int
  BY SMT DEF Stage, Positive
<1> HIDE DEF any
<1>2. n \in Nat /\ DOMAIN list = 1..n /\ \A i \in 1..n : list[i] \in any
  BY LenProperties, ElementOfSeq DEF any
<1> HIDE DEF n
<1>3. DividersOf(list) = [i \in 1..n |-> list[i].divider]
  BY <1>2 DEF DividersOf
<1>4. \A i \in 1..n : list[i].divider \in Int
  BY <1>1, <1>2
<1>5. [i \in 1..n |-> list[i].divider] \in Seq(Int)
      /\ Len([i \in 1..n |-> list[i].divider]) = n
  BY <1>2, <1>4, SMT
<1> QED BY <1>3, <1>5 DEF n

\* A stage more makes the product of the dividers f times as large.
LEMMA WithStageProduct ==
    ASSUME NEW shifts, NEW list \in Seq(Stage(shifts)), Len(list) < 4,
           NEW k \in 1..4, factors[k] \in Positive
    PROVE  /\ ProductOf(DividersOf(list)) \in Int
           /\ ProductOf(DividersOf(WithStage(list, k))) = ProductOf(DividersOf(list)) * factors[k]
<1> DEFINE f == factors[k]
           old == DividersOf(list)
           new == NewStage(f)
           more == Append(list, new)
<1>1. old \in Seq(Int) /\ Len(old) = Len(list)
  BY DividersType
<1>2. f \in Int /\ f > 0
  BY SMT DEF Positive
<1>3. ProductOf(old) \in Int /\ ProductOf(Append(old, f)) = ProductOf(old) * f
  <2> HIDE DEF old, f
  <2> QED BY <1>1, <1>2, ProductAppended
<1>4. CASE f > 1
  <2>1. WithStage(list, k) = more
    BY <1>4 DEF WithStage
  <2>2. new.divider = f
    BY DEF NewStage
  <2> HIDE DEF new
  <2>3. Len(list) \in Nat /\ DOMAIN list = 1..Len(list)
    BY LenProperties
  <2> DEFINE n == Len(list)
             any == Stage(shifts) \cup {new}
  <2>4. list \in Seq(any) /\ new \in any
    <3>1. \A i \in 1..n : list[i] \in Stage(shifts)
      BY ElementOfSeq
    <3> QED BY <3>1
  <2> HIDE DEF any
  <2>5. /\ more \in Seq(any) /\ Len(more) = n + 1
        /\ \A i \in 1..n : more[i] = list[i]
        /\ more[n + 1] = new
    BY <2>4, AppendProperties
  <2>6. DOMAIN more = 1..(n + 1)
    BY <2>5, LenProperties
  <2> HIDE DEF more, n
  <2>7. DividersOf(more) = [i \in 1..(n + 1) |-> more[i].divider]
    BY <2>6 DEF DividersOf
  <2>8. Append(old, f) = [i \in 1..(n + 1) |-> IF i = n + 1 THEN f ELSE old[i]]
    <3>1. n \in Nat /\ Len(old) = n
      BY <1>1, <2>3 DEF n
    <3> HIDE DEF old, f
    <3> DEFINE longer == Append(old, f)
    <3>2. /\ longer \in Seq(Int) /\ Len(longer) = n + 1
          /\ \A i \in 1..n : longer[i] = old[i]
          /\ longer[n + 1] = f
      BY <1>1, <1>2, <3>1, AppendProperties
    <3> HIDE DEF longer
    <3>3. longer = [i \in 1..(n + 1) |-> longer[i]]
      BY <3>2
    <3>4. ASSUME NEW i \in 1..(n + 1)
          PROVE  longer[i] = IF i = n + 1 THEN f ELSE old[i]
      <4>1. i \in 1..n \/ i = n + 1
        BY <3>1, SMT
      <4> QED BY <3>2, <4>1
    <3>5. longer = [i \in 1..(n + 1) |-> IF i = n + 1 THEN f ELSE old[i]]
      BY <3>3, <3>4
    <3> QED BY <3>5 DEF longer
  <2>9. \A i \in 1..n : old[i] = list[i].divider
    BY <2>3 DEF DividersOf, n
  <2>10. ASSUME NEW i \in 1..(n + 1)
         PROVE  more[i].divider = IF i = n + 1 THEN f ELSE old[i]
    <3>1. i \in 1..n \/ i = n + 1
      BY <2>3, SMT DEF n
    <3>2. i \in 1..n => i # n + 1
      BY <2>3, SMT DEF n
    <3> HIDE DEF f, old
    <3> QED BY <2>2, <2>5, <2>9, <3>1, <3>2
  <2>11. DividersOf(more) = Append(old, f)
    <3> HIDE DEF f, old
    <3> QED BY <2>7, <2>8, <2>10
  <2> QED BY <1>3, <2>1, <2>11
<1>5. CASE f = 1
  <2>1. WithStage(list, k) = list
    BY <1>5 DEF WithStage
  <2> HIDE DEF old
  <2>2. ProductOf(old) = ProductOf(old) * f
    BY <1>3, <1>5, SMT
  <2> QED BY <1>3, <2>1, <2>2 DEF old
<1> QED BY <1>2, <1>4, <1>5, SMT

LEMMA ProductMade ==
    ASSUME FactorsInv, MakeStages, \A k \in 1..4 : factors[k] \in Positive
    PROVE  TotalDivider' = ProductOf(factors)
<1> DEFINE shifts == {ShiftFor(factors[k]) : k \in 1..4}
           one == WithStage(<<>>, 1)
           two == WithStage(one, 2)
           three == WithStage(two, 3)
           four == WithStage(three, 4)
           P(list) == ProductOf(DividersOf(list))
           Fits(list, n) == /\ list \in Seq(Stage(shifts)) /\ Len(list) \in Nat
                            /\ Len(list) <= n
                            /\ \A i \in 1..Len(list) : list[i].phase = 0
<1>1. Len(factors) = 4 /\ chain' = four
  BY DEF MakeStages
<1>2. \A k \in 1..4 : ShiftFor(factors[k]) \in shifts
  OBVIOUS
<1> HIDE DEF shifts
<1>3. ASSUME NEW list, NEW n \in 0..3, Fits(list, n), NEW k \in 1..4
      PROVE  /\ Fits(WithStage(list, k), n + 1)
             /\ P(list) \in Int /\ P(WithStage(list, k)) = P(list) * factors[k]
  <2> DEFINE more == WithStage(list, k)
  <2>1. /\ more \in Seq(Stage(shifts)) /\ Len(list) \in Nat
        /\ Len(more) <= Len(list) + 1
        /\ \A i \in 1..Len(more) : more[i].phase = 0
    BY <1>1, <1>2, <1>3, WithStageType
  <2>2. Len(list) < 4
    BY <1>3, SMT
  <2>3. P(list) \in Int /\ P(more) = P(list) * factors[k]
    BY <1>3, <2>2, WithStageProduct
  <2> HIDE DEF more, P
  <2>4. Len(more) \in Nat
    BY <2>1, LenProperties
  <2>5. Len(more) <= n + 1
    BY <1>3, <2>1, <2>4, SMT
  <2> QED BY <2>1, <2>3, <2>4, <2>5 DEF more
<1>4. Fits(<<>>, 0)
  <2>1. <<>> \in Seq(Stage(shifts)) /\ Len(<<>>) = 0
    BY EmptySeq
  <2>2. 1..0 = {} /\ 0 <= 0 /\ 0 \in Nat
    BY SMT
  <2> QED BY <2>1, <2>2
<1>5. /\ 0 \in 0..3 /\ 1 \in 0..3 /\ 2 \in 0..3 /\ 3 \in 0..3
      /\ 0 + 1 = 1 /\ 1 + 1 = 2 /\ 2 + 1 = 3 /\ 3 + 1 = 4
      /\ 1 \in 1..4 /\ 2 \in 1..4 /\ 3 \in 1..4 /\ 4 \in 1..4
  BY SMT
<1>6. P(<<>>) = 1
  BY EmptySeq, SMT DEF ProductOf, DividersOf
<1> HIDE DEF Fits, P
<1>7. Fits(one, 1) /\ P(one) = P(<<>>) * factors[1]
  BY <1>3, <1>4, <1>5
<1> HIDE DEF one
<1>8. Fits(two, 2) /\ P(two) = P(one) * factors[2]
  BY <1>3, <1>5, <1>7
<1> HIDE DEF two
<1>9. Fits(three, 3) /\ P(three) = P(two) * factors[3]
  BY <1>3, <1>5, <1>8
<1> HIDE DEF three
<1>10. P(four) = P(three) * factors[4]
  BY <1>3, <1>5, <1>9
<1> HIDE DEF four
<1>11. factors[1] \in Int /\ factors[2] \in Int /\ factors[3] \in Int /\ factors[4] \in Int
  BY <1>5, SMT DEF Positive
<1>12. ProductOf(factors) = factors[1] * factors[2] * factors[3] * factors[4]
  <2>1. DOMAIN factors = 1..4
    BY <1>1, LenProperties DEF FactorsInv
  <2> QED BY <1>5, <2>1 DEF ProductOf
<1>13. P(four) = factors[1] * factors[2] * factors[3] * factors[4]
  <2>1. P(one) = factors[1]
    BY <1>6, <1>7, <1>11, SMT
  <2> QED BY <1>8, <1>9, <1>10, <2>1
<1>14. TotalDivider' = P(four)
  BY <1>1 DEF TotalDivider, P, DividersOf
<1> QED BY <1>12, <1>13, <1>14

\* A stage at work keeps its divider.
LEMMA StepSameProduct ==
    ASSUME ChainType, StageStep
    PROVE  TotalDivider' = TotalDivider /\ (chain' # <<>> => chain # <<>>)
<1> DEFINE p == chain[stage].phase + 1
           q == IF p = 2 * chain[stage].divider THEN 0 ELSE p
           new == [chain[stage] EXCEPT !.phase = q]
<1>1. chain' = [chain EXCEPT ![stage] = new]
  BY DEF StageStep
<1> HIDE DEF q
<1>2. DOMAIN chain' = DOMAIN chain
  BY <1>1
<1>3. ASSUME NEW i \in DOMAIN chain
      PROVE  chain'[i].divider = chain[i].divider
  <2>1. CASE i = stage
    <3>1. PICK shifts : chain \in Seq(Stage(shifts))
      BY DEF ChainType
    <3>2. chain[i] \in Stage(shifts)
      BY <3>1, LenProperties, ElementOfSeq
    <3>3. new.divider = chain[i].divider
      BY <2>1, <3>2 DEF Stage
    <3> QED BY <1>1, <2>1, <3>3
  <2>2. CASE i # stage
    BY <1>1, <2>2
  <2> QED BY <2>1, <2>2
<1>4. DividersOf(chain)' = DividersOf(chain)
  BY <1>2, <1>3, Zenon DEF DividersOf
<1>5. chain' # <<>> => chain # <<>>
  <2> SUFFICES ASSUME chain = <<>> PROVE chain' = <<>>
    OBVIOUS
  <2>1. DOMAIN chain = {}
    BY EmptySeq, SMT
  <2> QED BY <1>1, <1>2, <2>1
<1> QED BY <1>4, <1>5 DEF TotalDivider, DividersOf

LEMMA RateMadeInvariant == Spec => []RateMade
<1>1. Init => RateMade
  BY DEF Init, ChainInit, RateMade
<1>2. RateInv /\ ChainInv /\ RateMade /\ [Next]_vars => RateMade'
  <2> SUFFICES ASSUME RateInv, ChainInv, RateMade, [Next]_vars, exact', chain' # <<>>
               PROVE  Len(factors') = 4 /\ TotalDivider' = ProductOf(factors')
    BY DEF RateMade, ProductOf
  <2>1. FactorsInv /\ ChainType
    BY DEF ChainInv
  <2>2. CASE ChooseFactor
    <3>1. chain' = chain /\ exact /\ Len(factors) < 4
      BY <2>2 DEF ChooseFactor, Single, Exact, NoDivisor
    <3>2. Len(factors) = 4
      BY <3>1 DEF RateMade
    <3> QED BY <3>1, <3>2, SMT
  <2>3. CASE MakeStages
    <3>1. /\ Len(factors) = 4 /\ factors' = factors /\ exact' = exact
          /\ DOMAIN factors = 1..Len(factors)
      BY <2>1, <2>3, LenProperties DEF MakeStages, rates, FactorsInv
    <3>2. ASSUME NEW k \in 1..4 PROVE factors[k] \in Positive
      <4>1. factors[k] \in 1..Limit(k)
        BY <3>1 DEF RateInv
      <4>2. Limit(k) \in Int
        BY ChainSizes, SMT DEF Limit
      <4> QED BY <4>1, <4>2, SMT DEF Positive
    <3>3. TotalDivider' = ProductOf(factors)
      BY <2>1, <2>3, <3>2, ProductMade
    <3> QED BY <3>1, <3>3
  <2>4. CASE StageStep
    <3>1. factors' = factors /\ exact' = exact
      BY <2>4 DEF StageStep, rates
    <3>2. TotalDivider' = TotalDivider /\ chain # <<>>
      BY <2>1, <2>4, StepSameProduct
    <3> QED BY <3>1, <3>2 DEF RateMade
  <2>5. CASE UNCHANGED <<factors, exact, chain>>
    BY <2>5 DEF RateMade, TotalDivider, ProductOf
  <2>6. \/ ChooseFactor \/ MakeStages \/ StageStep
        \/ UNCHANGED <<factors, exact, chain>>
    BY DEF Next, vars, ChainNext, chainVars, rates, DownsampleX, StageDone, ChainReturn
  <2> QED BY <2>2, <2>3, <2>4, <2>5, <2>6
<1> QED BY <1>1, <1>2, RateInvariant, ChainInvariant, PTL DEF Spec

\* Whatever rate is asked for and however much the stages can do: as long as
\* divisors are found, each factor is one its stage can do, the rate of the
\* chain times what is left is the rate asked for, which the chain therefore
\* has exactly when nothing is left, and what is left has no divisor that any
\* of the stages could have done as well (cic_filter.c:164-228).
THEOREM NothingOfTheRateIsLost == Spec => []ExactRate
<1>1. RateInv /\ RateMade => ExactRate
  BY DEF RateInv, RateMade, ExactRate
<1> QED BY <1>1, RateInvariant, RateMadeInvariant, PTL
=============================================================================
