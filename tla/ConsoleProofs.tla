---------------------------- MODULE ConsoleProofs ----------------------------
(***************************************************************************)
(* Proofs about the device from reset on: the hub is attached only with    *)
(* all it needs, the log is printed right while messages overwrite it, and *)
(* the sample rate reported is the real one, however often the device is   *)
(* started again.                                                          *)
(*                                                                         *)
(* AttachedConfigured does not say what the chip has before it is attached. *)
(* HubInv adds it for each transfer that may come next: what was sent      *)
(* before it is in its registers and stays there.                          *)
(*                                                                         *)
(* The properties of the log speak of what is printed.  LogInv adds which  *)
(* byte is at each place of the ring, the newest one of those that belong  *)
(* there, and where dmesg is: what it prints next is at the place of the   *)
(* byte that is due.                                                       *)
(***************************************************************************)
EXTENDS Console, Remainders, SequenceTheorems, TLAPS

-----------------------------------------------------------------------------
(* The hub: its invariant. *)

\* The registers have the characters of s below position n.
Has(s, n) == \A k \in 0..(len[s] - 1) : k < n => regs[Address[s] + 2 * k] = <<s, k>>

\* The strings sent before s, and all transfers after it.
Before(s) == CASE s = "manufacturer" -> {}
               [] s = "product"      -> {"manufacturer"}
               [] s = "serial"       -> {"manufacturer", "product"}

After(s) ==
    CASE s = "manufacturer" -> WriteString("product") \o (WriteString("serial") \o <<Attach>>)
      [] s = "product"      -> WriteString("serial") \o <<Attach>>
      [] s = "serial"       -> <<Attach>>

SentBefore(s) == configured /\ \A t \in Before(s) : Has(t, 31)

FirstNext(s)  == pending = WriteString(s) \o After(s) /\ SentBefore(s)

SecondNext(s) == /\ len[s] > 16 /\ pending = <<Block(s, 1)>> \o After(s)
                 /\ SentBefore(s) /\ Has(s, 16)

AttachNext == pending = <<Attach>> /\ configured /\ \A s \in Strings : Has(s, 31)

Progress ==
    \/ pending = Transfers
    \/ \E s \in Strings : FirstNext(s) \/ SecondNext(s)
    \/ AttachNext

HubInv ==
    /\ len \in [Strings -> StringLengths]
    /\ DOMAIN regs = {n \in 22..207 : n % 2 = 0}
    /\ pending = <<>> \/ (~attached /\ Progress)
    /\ AttachedConfigured

Blocks == {Registers, Attach} \cup {Block(s, n) : s \in Strings, n \in {0, 1}}

-----------------------------------------------------------------------------
(* The list of transfers. *)

\* The first of a list and the rest of it.
LEMMA FirstOf ==
    ASSUME NEW S, NEW x \in S, NEW rest \in Seq(S)
    PROVE  /\ Head(<<x>> \o rest) = x /\ Tail(<<x>> \o rest) = rest
           /\ <<x>> \o rest # <<>>
OBVIOUS

\* All lists are of transfers, and the whole one begins with the registers.
LEMMA Lists ==
    /\ \A s \in Strings : WriteString(s) \in Seq(Blocks) /\ After(s) \in Seq(Blocks)
    /\ Transfers = <<Registers>> \o (WriteString("manufacturer") \o After("manufacturer"))
<1> DEFINE m == WriteString("manufacturer")
           p == WriteString("product")
           t == WriteString("serial")
<1>1. /\ Registers \in Blocks /\ Attach \in Blocks
      /\ \A s \in Strings : Block(s, 0) \in Blocks /\ Block(s, 1) \in Blocks
  BY DEF Blocks
<1>2. \A s \in Strings : WriteString(s) \in Seq(Blocks)
  BY <1>1 DEF WriteString
<1>3. <<Attach>> \in Seq(Blocks) /\ <<Registers>> \in Seq(Blocks)
  BY <1>1
<1>4. m \in Seq(Blocks) /\ p \in Seq(Blocks) /\ t \in Seq(Blocks)
  BY <1>2 DEF Strings
<1> HIDE DEF m, p, t
<1>5. t \o <<Attach>> \in Seq(Blocks) /\ p \o (t \o <<Attach>>) \in Seq(Blocks)
  BY <1>3, <1>4
<1>6. /\ After("manufacturer") = p \o (t \o <<Attach>>)
      /\ After("product") = t \o <<Attach>>
      /\ After("serial") = <<Attach>>
  BY DEF After, p, t
<1>7. \A s \in Strings : After(s) \in Seq(Blocks)
  BY <1>3, <1>5, <1>6 DEF Strings
<1>8. Transfers = (((<<Registers>> \o m) \o p) \o t) \o <<Attach>>
  BY DEF Transfers, m, p, t
<1>9. <<Registers>> \o m \in Seq(Blocks) /\ m \o p \in Seq(Blocks)
      /\ (<<Registers>> \o m) \o p \in Seq(Blocks)
  BY <1>3, <1>4
<1>10. Transfers = ((<<Registers>> \o m) \o p) \o (t \o <<Attach>>)
  BY <1>3, <1>4, <1>8, <1>9, ConcatAssociative
<1>11. Transfers = (<<Registers>> \o m) \o (p \o (t \o <<Attach>>))
  BY <1>4, <1>5, <1>9, <1>10, ConcatAssociative, SMTT(30)
<1>12. Transfers = <<Registers>> \o (m \o (p \o (t \o <<Attach>>)))
  BY <1>3, <1>4, <1>5, <1>11, ConcatAssociative, SMTT(30)
<1>. QED  BY <1>2, <1>6, <1>7, <1>12 DEF m

-----------------------------------------------------------------------------
(* What a transfer does to the registers. *)

\* Where the characters of a string are.
LEMMA Registered ==
    ASSUME NEW s \in Strings, len \in [Strings -> StringLengths],
           DOMAIN regs = {n \in 22..207 : n % 2 = 0},
           NEW k \in 0..(len[s] - 1)
    PROVE  Address[s] + 2 * k \in DOMAIN regs /\ k \in 0..30 /\ len[s] \in 0..31
<1>1. len[s] \in StringLengths
  OBVIOUS
<1>2. len[s] \in 0..31
  BY <1>1, HubAssumption
<1>3. k \in 0..30
  BY <1>2
<1>4. Address[s] \in {22, 84, 146}
  BY DEF Strings, Address
<1>. QED  BY <1>2, <1>3, <1>4

\* Both blocks of a string leave the strings sent before alone.
LEMMA BeforeKept ==
    ASSUME NEW s \in Strings, NEW t \in Before(s), NEW n \in {0, 1},
           len \in [Strings -> StringLengths],
           DOMAIN regs = {i \in 22..207 : i % 2 = 0},
           Has(t, 31), regs' = RegsWith(Block(s, n)), len' = len
    PROVE  Has(t, 31)'
<1>1. /\ t \in Strings
      /\ \/ t = "manufacturer" /\ s \in {"product", "serial"}
         \/ t = "product" /\ s = "serial"
  BY DEF Strings, Before
<1> SUFFICES ASSUME NEW k \in 0..(len[t] - 1), k < 31
             PROVE  regs'[Address[t] + 2 * k] = <<t, k>>
  BY DEF Has
<1>2. Address[t] + 2 * k \in DOMAIN regs /\ k \in 0..30
  BY <1>1, Registered
<1>3. Address[t] + 2 * k < Address[s] /\ Address[t] + 2 * k \in Int
  BY <1>1, <1>2 DEF Address
<1>4. Address[s] \in Nat
  BY <1>1 DEF Address
<1>5. Block(s, n).what = s /\ Block(s, n) # Registers /\ Block(s, n).number = n
  BY DEF Block, Registers, Strings
<1>6. Start(Block(s, n)) = Address[s] + 32 * n
  BY <1>5 DEF Start
<1>7. Address[t] + 2 * k \notin Start(Block(s, n))..(Start(Block(s, n)) + 31)
  BY <1>3, <1>4, <1>6
<1>8. regs'[Address[t] + 2 * k] = regs[Address[t] + 2 * k]
  BY <1>2, <1>5, <1>7 DEF RegsWith
<1>. QED  BY <1>8 DEF Has

\* The first block has the first 16 characters, the second the others.
LEMMA BlockReceived ==
    ASSUME NEW s \in Strings, NEW n \in {0, 1},
           len \in [Strings -> StringLengths],
           DOMAIN regs = {i \in 22..207 : i % 2 = 0},
           n = 1 => len[s] > 16 /\ Has(s, 16),
           regs' = RegsWith(Block(s, n)), len' = len
    PROVE  Has(s, IF n = 0 THEN 16 ELSE 31)'
<1> SUFFICES ASSUME NEW k \in 0..(len[s] - 1), k < IF n = 0 THEN 16 ELSE 31
             PROVE  regs'[Address[s] + 2 * k] = <<s, k>>
  BY DEF Has
<1> DEFINE a == Address[s] + 2 * k
           b == Block(s, n)
<1>1. a \in DOMAIN regs /\ k \in 0..30 /\ len[s] \in 0..31
  BY Registered
<1>2. Address[s] \in Nat
  BY DEF Strings, Address
<1>3. b.what = s /\ b # Registers /\ b.number = n /\ Start(b) = Address[s] + 32 * n
  BY DEF Block, Registers, Strings, Start
<1> HIDE DEF b
<1>4. CASE n = 1 /\ k < 16
  <2>1. a \notin Start(b)..(Start(b) + 31)
    BY <1>1, <1>2, <1>3, <1>4
  <2>2. regs'[a] = regs[a]
    BY <1>1, <1>3, <2>1 DEF RegsWith, b
  <2>. QED  BY <1>4, <2>2 DEF Has
<1>5. CASE ~(n = 1 /\ k < 16)
  <2> DEFINE j == k - 16 * n
  <2>1. j \in 0..15
    <3>1. CASE n = 0
      BY <1>1, <3>1
    <3>2. CASE n = 1
      BY <1>1, <1>5, <3>2
    <3>. QED  BY <3>1, <3>2
  <2>2. Start(b) \in Nat /\ a = Start(b) + 2 * j
    <3>1. CASE n = 0
      BY <1>1, <1>2, <1>3, <3>1
    <3>2. CASE n = 1
      BY <1>1, <1>2, <1>3, <3>2
    <3>. QED  BY <3>1, <3>2
  <2>3. BlockAt(b, j) = <<s, k>>
    BY <1>1, <1>3, <1>5 DEF BlockAt
  <2> HIDE DEF a, j
  <2>4. a - Start(b) = 2 * j /\ a \in Start(b)..(Start(b) + 31)
    BY <2>1, <2>2
  <2>5. (a - Start(b)) \div 2 = j
    BY <2>1, <2>4
  <2>6. regs'[a] = BlockAt(b, j)
    BY <1>1, <1>3, <2>4, <2>5 DEF RegsWith, b
  <2>. QED  BY <2>3, <2>6 DEF a
<1>. QED  BY <1>4, <1>5

-----------------------------------------------------------------------------
(* The transfers, one after the other. *)

\* Registers keeps what it needs of HubInv, whatever is received.
LEMMA RegistersStay ==
    ASSUME HubInv, NEW b, regs' = RegsWith(b), len' = len
    PROVE  /\ len' \in [Strings -> StringLengths]
           /\ DOMAIN regs' = {n \in 22..207 : n % 2 = 0}
BY DEF HubInv, RegsWith

\* A block of a string is received.
LEMMA BlockSent ==
    ASSUME HubInv, ~attached, NEW s \in Strings, NEW n \in {0, 1}, SentBefore(s),
           n = 1 => len[s] > 16 /\ Has(s, 16),
           Received(Block(s, n)), len' = len
    PROVE  /\ ~attached' /\ SentBefore(s)'
           /\ Has(s, IF n = 0 THEN 16 ELSE 31)'
<1>1. regs' = RegsWith(Block(s, n)) /\ configured'
  BY DEF Received, SentBefore
<1>2. ~attached'
  BY DEF Received, Block, Attach, Strings
<1>3. ASSUME NEW t \in Before(s)
      PROVE  Has(t, 31)'
  BY <1>1, <1>3, BeforeKept DEF SentBefore, HubInv
<1>4. Has(s, IF n = 0 THEN 16 ELSE 31)'
  BY <1>1, BlockReceived DEF HubInv
<1>. QED  BY <1>1, <1>2, <1>3, <1>4 DEF SentBefore

\* After the last block of a string comes the next string, or the command.
LEMMA StringDone ==
    ASSUME NEW s \in Strings, pending' = After(s), len' = len,
           SentBefore(s)', Has(s, 31)'
    PROVE  Progress'
<1>1. \A t \in Strings : WriteString(t)' = WriteString(t) /\ After(t)' = After(t)
  BY DEF WriteString, After
<1>2. /\ After("manufacturer") = WriteString("product") \o After("product")
      /\ After("product") = WriteString("serial") \o After("serial")
  BY DEF After
<1>3. CASE s = "manufacturer"
  <2>1. pending' = (WriteString("product") \o After("product"))'
    BY <1>3, <1>1, <1>2 DEF Strings
  <2>. QED  BY <1>3, <2>1 DEF Progress, FirstNext, SentBefore, Before, Strings
<1>4. CASE s = "product"
  <2>1. pending' = (WriteString("serial") \o After("serial"))'
    BY <1>4, <1>1, <1>2 DEF Strings
  <2>. QED  BY <1>4, <2>1 DEF Progress, FirstNext, SentBefore, Before, Strings
<1>5. CASE s = "serial"
  BY <1>5 DEF Progress, AttachNext, SentBefore, Before, Strings, After
<1>. QED  BY <1>3, <1>4, <1>5 DEF Strings

\* What is sent next: there is always a first transfer and a rest.
LEMMA NextTransfer ==
    ASSUME HubInv, pending # <<>>
    PROVE  /\ ~attached
           /\ \/ /\ Head(pending) = Registers
                 /\ Tail(pending) = WriteString("manufacturer") \o After("manufacturer")
              \/ \E s \in Strings :
                    /\ SentBefore(s) /\ len[s] > 16
                    /\ Head(pending) = Block(s, 0)
                    /\ Tail(pending) = <<Block(s, 1)>> \o After(s)
              \/ \E s \in Strings, n \in {0, 1} :
                    /\ SentBefore(s) /\ (n = 0 => len[s] <= 16)
                    /\ (n = 1 => len[s] > 16 /\ Has(s, 16))
                    /\ Head(pending) = Block(s, n) /\ Tail(pending) = After(s)
              \/ AttachNext /\ Head(pending) = Attach /\ Tail(pending) = <<>>
<1>1. ~attached /\ Progress
  BY DEF HubInv
<1>2. /\ Registers \in Blocks
      /\ \A s \in Strings : Block(s, 0) \in Blocks /\ Block(s, 1) \in Blocks
  BY DEF Blocks
<1>3. /\ WriteString("manufacturer") \in Seq(Blocks) /\ After("manufacturer") \in Seq(Blocks)
      /\ \A s \in Strings : After(s) \in Seq(Blocks)
  BY Lists DEF Strings
<1>4. CASE pending = Transfers
  <2> DEFINE rest == WriteString("manufacturer") \o After("manufacturer")
  <2>1. rest \in Seq(Blocks)
    BY <1>3
  <2>2. pending = <<Registers>> \o rest
    BY <1>4, Lists
  <2> HIDE DEF rest
  <2>3. Head(pending) = Registers /\ Tail(pending) = rest
    BY <1>2, <2>1, <2>2, FirstOf
  <2>. QED  BY <1>1, <2>3 DEF rest
<1>5. ASSUME NEW s \in Strings, FirstNext(s)
      PROVE  \/ /\ SentBefore(s) /\ len[s] > 16
                /\ Head(pending) = Block(s, 0)
                /\ Tail(pending) = <<Block(s, 1)>> \o After(s)
             \/ /\ SentBefore(s) /\ len[s] <= 16
                /\ Head(pending) = Block(s, 0) /\ Tail(pending) = After(s)
  <2>1. len[s] \in Nat
    <3>1. len[s] \in StringLengths
      BY DEF HubInv
    <3>2. len[s] \in 0..31
      BY <3>1, HubAssumption
    <3>. QED  BY <3>2, SMTT(30)
  <2>2. CASE len[s] > 16
    <3>1. pending = <<Block(s, 0), Block(s, 1)>> \o After(s)
      BY <1>5, <2>2 DEF FirstNext, WriteString
    <3>2. pending = <<Block(s, 0)>> \o (<<Block(s, 1)>> \o After(s))
      <4>1. <<Block(s, 0), Block(s, 1)>> = <<Block(s, 0)>> \o <<Block(s, 1)>>
        BY <1>2
      <4>2. <<Block(s, 0)>> \in Seq(Blocks) /\ <<Block(s, 1)>> \in Seq(Blocks)
        BY <1>2
      <4>. QED  BY <3>1, <4>1, <4>2, <1>3, ConcatAssociative
    <3>3. <<Block(s, 1)>> \o After(s) \in Seq(Blocks)
      BY <1>2, <1>3
    <3>4. /\ Head(pending) = Block(s, 0)
          /\ Tail(pending) = <<Block(s, 1)>> \o After(s)
      BY <1>2, <3>2, <3>3, FirstOf
    <3>. QED  BY <1>5, <2>2, <3>4 DEF FirstNext
  <2>3. CASE len[s] <= 16
    <3>1. pending = <<Block(s, 0)>> \o After(s)
      BY <1>5, <2>1, <2>3 DEF FirstNext, WriteString
    <3>2. Head(pending) = Block(s, 0) /\ Tail(pending) = After(s)
      BY <1>2, <1>3, <3>1, FirstOf
    <3>. QED  BY <1>5, <2>3, <3>2 DEF FirstNext
  <2>. QED  BY <2>1, <2>2, <2>3
<1>6. ASSUME NEW s \in Strings, SecondNext(s)
      PROVE  /\ SentBefore(s) /\ len[s] > 16 /\ Has(s, 16)
             /\ Head(pending) = Block(s, 1) /\ Tail(pending) = After(s)
  BY <1>2, <1>3, <1>6, FirstOf DEF SecondNext
<1>7. CASE AttachNext
  BY <1>1, <1>7 DEF AttachNext
<1>8. CASE \E s \in Strings : FirstNext(s)
  BY <1>1, <1>5, <1>8
<1>9. CASE \E s \in Strings : SecondNext(s)
  BY <1>1, <1>6, <1>9
<1>. QED  BY <1>1, <1>4, <1>7, <1>8, <1>9 DEF Progress

\* A transfer that succeeds or fails.
LEMMA TransmitKeeps ==
    ASSUME HubInv, Transmit
    PROVE  HubInv'
<1>1. pending # <<>> /\ ~attached /\ len' = len
  BY NextTransfer DEF Transmit
<1>2. CASE UNCHANGED <<regs, configured, attached>> /\ pending' = GoOn(FALSE)
  BY <1>1, <1>2 DEF HubInv, GoOn, AttachedConfigured
<1>3. CASE Received(Head(pending)) /\ pending' \in {GoOn(TRUE), GoOn(FALSE)}
  <2>1. /\ len' \in [Strings -> StringLengths]
        /\ DOMAIN regs' = {n \in 22..207 : n % 2 = 0}
    BY <1>1, <1>3, RegistersStay DEF Received
  <2>2. pending' = <<>> \/ pending' = Tail(pending)
    BY <1>3 DEF GoOn
  <2>3. CASE /\ Head(pending) = Registers
             /\ Tail(pending) = WriteString("manufacturer") \o After("manufacturer")
    <3>0. Registers # Attach
      BY DEF Registers, Attach, Block
    <3>1. ~attached' /\ configured'
      BY <1>1, <1>3, <2>3, <3>0 DEF Received
    <3>2. WriteString("manufacturer")' = WriteString("manufacturer")
          /\ After("manufacturer")' = After("manufacturer")
      BY <1>1 DEF WriteString, After
    <3>3. pending' = Tail(pending) => FirstNext("manufacturer")'
      BY <2>3, <3>1, <3>2 DEF FirstNext, SentBefore, Before
    <3>. QED  BY <2>1, <2>2, <3>1, <3>3
              DEF HubInv, Progress, Strings, AttachedConfigured
  <2>4. ASSUME NEW s \in Strings, SentBefore(s), len[s] > 16,
               Head(pending) = Block(s, 0), Tail(pending) = <<Block(s, 1)>> \o After(s)
        PROVE  HubInv'
    <3>1. ~attached' /\ SentBefore(s)' /\ Has(s, 16)'
      BY <1>1, <1>3, <2>4, BlockSent
    <3>2. After(s)' = After(s)
      BY <1>1 DEF WriteString, After
    <3>3. pending' = Tail(pending) => SecondNext(s)'
      BY <1>1, <2>4, <3>1, <3>2 DEF SecondNext
    <3>. QED  BY <2>1, <2>2, <2>4, <3>1, <3>3 DEF HubInv, Progress, AttachedConfigured
  <2>5. ASSUME NEW s \in Strings, NEW n \in {0, 1}, SentBefore(s), n = 0 => len[s] <= 16,
               n = 1 => len[s] > 16 /\ Has(s, 16),
               Head(pending) = Block(s, n), Tail(pending) = After(s)
        PROVE  HubInv'
    <3>1. ~attached' /\ SentBefore(s)' /\ Has(s, IF n = 0 THEN 16 ELSE 31)'
      BY <1>1, <1>3, <2>5, BlockSent
    <3>2. len'[s] \in 0..31
      BY <2>1, HubAssumption
    <3>3. Has(s, 31)'
      <4>1. CASE n = 1
        BY <3>1, <4>1
      <4>2. CASE n = 0
        <5>1. Has(s, 16)' /\ len'[s] <= 16
          BY <1>1, <2>5, <3>1, <4>2
        <5>. QED  BY <3>2, <5>1 DEF Has
      <4>. QED  BY <4>1, <4>2
    <3>4. pending' = Tail(pending) => Progress'
      BY <1>1, <2>5, <3>1, <3>3, StringDone
    <3>. QED  BY <2>1, <2>2, <3>1, <3>4 DEF HubInv, AttachedConfigured
  <2>6. CASE AttachNext /\ Head(pending) = Attach /\ Tail(pending) = <<>>
    <3>0. /\ Attach # Registers /\ Attach.what \notin Strings
          /\ Received(Attach)
      BY <1>3, <2>6 DEF Attach, Registers, Block, Strings
    <3>1. configured' /\ \A a \in DOMAIN regs : regs'[a] = regs[a]
      BY <2>6, <3>0 DEF AttachNext, Received, RegsWith
    <3>2. pending' = <<>>
      BY <2>2, <2>6
    <3>3. ASSUME NEW s \in Strings, NEW k \in 0..(len'[s] - 1)
          PROVE  regs'[Address[s] + 2 * k] = <<s, k>>
      <4>1. k \in 0..(len[s] - 1)
        BY <1>1, <3>3
      <4>2. Address[s] + 2 * k \in DOMAIN regs /\ k \in 0..30
        BY <4>1, Registered DEF HubInv
      <4>. QED  BY <2>6, <3>1, <4>1, <4>2 DEF AttachNext, Has
    <3>4. AttachedConfigured'
      BY <3>1, <3>3 DEF AttachedConfigured
    <3>. QED  BY <2>1, <3>2, <3>4 DEF HubInv
  <2>. QED  BY <1>1, <2>3, <2>4, <2>5, <2>6, NextTransfer
<1>. QED  BY <1>2, <1>3 DEF Transmit

-----------------------------------------------------------------------------
(* The rest of the device. *)

\* A start pulls the reset line of the hub and sends everything again.
LEMMA StartHubKeeps ==
    ASSUME HubInv, ResetHub, pending' = Transfers, len' = len
    PROVE  HubInv'
<1>1. pending' = Transfers'
  BY DEF Transfers, WriteString
<1>. QED  BY <1>1 DEF HubInv, ResetHub, Progress, AttachedConfigured

\* Nothing else talks to the hub.
LEMMA OthersKeep ==
    ASSUME HubInv, pending' \in {pending, <<>>}, UNCHANGED <<len, regs, configured, attached>>
    PROVE  HubInv'
<1>1. AttachedConfigured'
  BY Zenon DEF HubInv, AttachedConfigured
<1>2. Progress /\ pending' = pending => Progress'
  BY Zenon DEF Progress, FirstNext, SecondNext, AttachNext, SentBefore, Has,
         WriteString, After, Transfers
<1>. QED  BY <1>1, <1>2 DEF HubInv

\* HubInv holds whatever the rest of the device does.
LEMMA HubInvariant == Spec => []HubInv
<1>1. Init => HubInv
  <2>. SUFFICES ASSUME Init PROVE HubInv
    OBVIOUS
  <2>. QED  BY DEF Init, HubInit, HubInv, Progress, AttachedConfigured
<1>2. HubInv /\ [Next]_vars => HubInv'
  <2>. SUFFICES ASSUME HubInv, [Next]_vars
                PROVE  HubInv'
    OBVIOUS
  <2>1. CASE StartHub
    BY <2>1, StartHubKeeps DEF StartHub
  <2>2. CASE HubStep
    BY <2>2, TransmitKeeps DEF HubStep
  <2>3. CASE CmdReboot
    BY <2>3, OthersKeep DEF CmdReboot, Reset
  <2>4. CASE StartUsbThread \/ Poll \/ Release \/ StartUsb \/ Host \/ Log
    BY <2>4, OthersKeep DEF hubVars, StartUsbThread, Poll, Release, StartUsb, Log,
       Host, HostResets, HostAddresses, HostConfigures, HostUnconfigures, HostSuspends,
       HostWakes, GoTo
  <2>5. CASE ShellReads \/ PortFails \/ CmdExit \/ CmdInputQuadspi \/ CmdDmesg
             \/ DmesgStep \/ DmesgReturns
    BY <2>5, OthersKeep DEF hubVars, ShellReads, PortFails, CmdExit, ShellEnds,
       CmdInputQuadspi, CmdDmesg, DmesgStep, DmesgReturns
  <2>6. CASE UNCHANGED vars
    BY <2>6, OthersKeep DEF vars, hubVars
  <2>. QED  BY <2>1, <2>2, <2>3, <2>4, <2>5, <2>6 DEF Next, Main, Shell
<1>. QED  BY <1>1, <1>2, PTL DEF Spec

\* However often the device is started, and whichever transfers fail or are
\* received without an answer, a hub that is attached has its registers and
\* the three strings, of any lengths up to 31 (usb_hub.c).
THEOREM AttachedOnlyConfigured == Spec => []AttachedConfigured
<1>1. HubInv => AttachedConfigured
  BY DEF HubInv
<1>. QED  BY HubInvariant, <1>1, PTL

-----------------------------------------------------------------------------
(* The log: its invariant. *)

Places == 0..(LogSize - 1)

\* A place has the newest byte of those for it, or none was logged for it yet.
Newest(i) ==
    \/ buffer[i] = 0 /\ logged <= i
    \/ /\ buffer[i] \in Int /\ 1 <= buffer[i] /\ buffer[i] <= logged
       /\ logged - LogSize < buffer[i]
       /\ (buffer[i] - 1) % LogSize = i

Ring ==
    /\ logged \in Nat
    /\ wrpos = logged % Wrap
    /\ DOMAIN buffer = Places
    /\ \A i \in Places : Newest(i)

\* The log is printed from the start of the ring, or in two parts.
InOnePart == snapshot <= LogSize \/ snapshot % LogSize = 0

\* The parts still to print, n bytes having been printed.
Rest(n) ==
    LET after == snapshot % LogSize
    IN  IF InOnePart
        THEN IF n = snapshot THEN <<>> ELSE << <<n, snapshot - n>> >>
        ELSE IF n < LogSize - after
             THEN << <<after + n, LogSize - after - n>>, <<0, after>> >>
             ELSE IF n = LogSize THEN <<>>
                  ELSE << <<n - (LogSize - after), LogSize - n>> >>

\* How many bytes there are to print.
Total == IF InOnePart THEN snapshot ELSE LogSize

Printing ==
    /\ snapshot \in Nat /\ snapshot <= logged
    /\ snapshot < Wrap => /\ printed \in Seq(Int)
                          /\ Len(printed) <= Total
                          /\ todo = Rest(Len(printed))

\* The k-th byte printed is the one due or one logged over it.
Fresh(k) ==
    printed[k] # Lost => /\ printed[k] \in Int
                         /\ Due(k) <= printed[k] /\ printed[k] <= logged
                         /\ (printed[k] - Due(k)) % LogSize = 0

Shown == snapshot < Wrap => \A k \in 1..Len(printed) : k <= Kept => Fresh(k)

LogInv == Ring /\ Printing /\ Shown

\* What the sizes are.
LEMMA LogSizes ==
    /\ LogSize \in Positive /\ LogSize \in Int /\ LogSize > 0
    /\ Wrap \in Positive /\ Wrap \in Int /\ Wrap > 0 /\ Wrap % LogSize = 0
    /\ \A n \in Lengths : n \in Int /\ n > 0
BY LogAssumption DEF LogAssumption, Positive

LEMMA MaxIs ==
    ASSUME NEW S, NEW m \in S, S \subseteq Int, \A x \in S : m >= x
    PROVE  Max(S) = m
<1>1. Max(S) \in S /\ \A x \in S : Max(S) >= x
  BY Zenon DEF Max
<1>2. Max(S) \in Int /\ m \in Int /\ Max(S) >= m /\ m >= Max(S)
  BY <1>1
<1> QED BY <1>2, SMT

LEMMA MinOfTwo ==
    ASSUME NEW a \in Int, NEW b \in Int
    PROVE  Min({a, b}) = IF a <= b THEN a ELSE b
BY DEF Min

\* How much of the log the ring has.
LEMMA KeptIs ==
    ASSUME Printing
    PROVE  Kept = IF snapshot <= LogSize THEN snapshot ELSE LogSize
BY LogSizes, MinOfTwo DEF Kept, Printing

-----------------------------------------------------------------------------
(* Logging. *)

\* A message of n bytes writes the place i for the last time with its byte n - r,
\* unless it is shorter.
LEMMA LastByteFor ==
    ASSUME Ring, NEW n \in Int, n > 0, NEW i \in Places
    PROVE  LET r == (logged + n - 1 - i) % LogSize
           IN  Appended(n)[i] = IF r < n THEN logged + (n - r) ELSE buffer[i]
<1> DEFINE r == (logged + n - 1 - i) % LogSize
           S == {k \in 0..n : k = 0 \/ (wrpos + k - 1) % LogSize = i}
           last == IF r < n THEN n - r ELSE 0
<1>1. /\ i \in Int /\ 0 <= i /\ i < LogSize
      /\ logged \in Int /\ logged >= 0 /\ wrpos \in Int
      /\ r \in Int /\ 0 <= r /\ r < LogSize
  <2>1. /\ i \in Int /\ 0 <= i /\ i < LogSize /\ logged \in Int /\ logged >= 0
    BY LogSizes, SMT DEF Places, Ring
  <2>2. logged + n - 1 - i \in Int
    BY <2>1, SMT
  <2>3. wrpos \in Int
    BY <2>1, LogSizes, Division DEF Ring
  <2> QED BY <2>1, <2>2, <2>3, LogSizes, Division
<1>2. ASSUME NEW k \in Int
      PROVE  (wrpos + k - 1) % LogSize = (logged + k - 1) % LogSize
  <2> DEFINE j == k - 1
  <2>1. j \in Int /\ wrpos + k - 1 = wrpos + j /\ logged + k - 1 = logged + j
    BY <1>1, SMT
  <2> HIDE DEF j
  <2>2. logged \in Int /\ j \in Int
    BY <1>1, <2>1
  <2>3. /\ LogSize \in Positive /\ Wrap \in Positive /\ Wrap % LogSize = 0
    BY LogSizes
  <2>4. ((logged % Wrap) + j) % LogSize = (logged + j) % LogSize
    BY <2>2, <2>3, RemainderOfRemainder
  <2> QED BY <2>1, <2>4 DEF Ring
<1> DEFINE q == (logged + n - 1 - i) \div LogSize
<1>3. /\ q \in Int /\ LogSize * q \in Int
      /\ logged + n - 1 - i = LogSize * q + r
  <2>1. logged + n - 1 - i \in Int
    BY <1>1, SMT
  <2> QED BY <2>1, LogSizes, Division
<1> HIDE DEF r, q
<1>4. r < n => (logged + (n - r) - 1) % LogSize = i
  <2> DEFINE a == logged + (n - r) - 1
  <2>1. a \in Int /\ a = LogSize * q + i
    BY <1>1, <1>3, LogSizes, SMT
  <2> HIDE DEF a
  <2>2. a % LogSize = i
    BY <1>1, <1>3, <2>1, LogSizes, RemainderIs
  <2> QED BY <2>2 DEF a
<1>5. ASSUME NEW k \in Int, 1 <= k, k <= n, (logged + k - 1) % LogSize = i
      PROVE  r < n /\ k <= n - r
  <2> DEFINE a == logged + k - 1
             p == a \div LogSize
  <2>1. a \in Int /\ a % LogSize = i
    BY <1>1, <1>5, SMT
  <2> HIDE DEF a
  <2>2. p \in Int /\ LogSize * p \in Int /\ a = LogSize * p + i
    BY <2>1, LogSizes, Division
  <2> HIDE DEF p
  <2>3. ~(q < p)
    <3> SUFFICES ASSUME q < p PROVE FALSE
      OBVIOUS
    <3>1. LogSize * q + LogSize <= LogSize * p
      BY <1>3, <2>2, LogSizes, Multiples
    <3> QED BY <1>1, <1>3, <1>5, <2>2, <3>1, LogSizes, SMT DEF a
  <2>4. LogSize * p <= LogSize * q
    <3>1. p < q => LogSize * p + LogSize <= LogSize * q
      BY <1>3, <2>2, LogSizes, Multiples
    <3>2. p = q \/ p < q
      BY <1>3, <2>2, <2>3, SMT
    <3> QED BY <1>3, <2>2, <3>1, <3>2, LogSizes, SMT
  <2> QED BY <1>1, <1>3, <1>5, <2>2, <2>4, SMT DEF a
<1>6. Max(S) = last
  <2>1. S \subseteq Int
    BY SMT
  <2>2. last \in S
    <3>1. CASE r < n
      <4>1. n - r \in 0..n /\ n - r \in Int
        BY <1>1, <3>1, SMT
      <4>2. (wrpos + (n - r) - 1) % LogSize = i
        BY <1>2, <1>4, <3>1, <4>1
      <4> QED BY <3>1, <4>1, <4>2
    <3>2. CASE ~(r < n)
      <4>1. 0 \in 0..n
        BY SMT
      <4> QED BY <3>2, <4>1
    <3> QED BY <3>1, <3>2
  <2>3. ASSUME NEW k \in S PROVE last >= k
    <3>1. k \in Int /\ 0 <= k /\ k <= n
      BY SMT
    <3>2. CASE k = 0
      BY <1>1, <3>2, SMT
    <3>3. CASE 1 <= k
      <4>1. (logged + k - 1) % LogSize = i
        <5>1. k # 0
          BY <3>1, <3>3, SMT
        <5>2. (wrpos + k - 1) % LogSize = i
          BY <5>1
        <5> QED BY <1>2, <3>1, <5>2
      <4> QED BY <1>1, <1>5, <3>1, <3>3, <4>1, SMT
    <3> QED BY <3>1, <3>2, <3>3, SMT
  <2> HIDE DEF S, last
  <2> QED BY <2>1, <2>2, <2>3, MaxIs
<1>7. Appended(n)[i] = IF last = 0 THEN buffer[i] ELSE logged + last
  BY <1>6 DEF Appended, Ring
<1> QED BY <1>1, <1>7, SMT DEF r

\* A message of any length leaves the newest byte at every place.
LEMMA DbgRing ==
    ASSUME Ring, NEW n \in Lengths, Dbg(n)
    PROVE  Ring'
<1>1. n \in Int /\ n > 0 /\ logged \in Int /\ logged >= 0 /\ logged' = logged + n
  BY LogSizes, SMT DEF Ring, Dbg
<1>2. wrpos' = logged' % Wrap
  <2>1. Wrap % Wrap = 0
    <3>1. Wrap = Wrap * 1 + 0
      BY LogSizes, SMT
    <3> QED BY <3>1, LogSizes, RemainderIs
  <2>2. ((logged % Wrap) + n) % Wrap = (logged + n) % Wrap
    BY <1>1, <2>1, LogSizes, RemainderOfRemainder
  <2> QED BY <1>1, <2>2 DEF Ring, Dbg
<1>3. DOMAIN buffer' = Places
  BY DEF Dbg, Appended, Ring
<1>4. ASSUME NEW i \in Places PROVE Newest(i)'
  <2> DEFINE r == (logged + n - 1 - i) % LogSize
             q == (logged + n - 1 - i) \div LogSize
  <2>1. buffer'[i] = IF r < n THEN logged + (n - r) ELSE buffer[i]
    BY <1>1, LastByteFor DEF Dbg
  <2>2. i \in Int /\ 0 <= i /\ i < LogSize
    BY LogSizes, SMT DEF Places
  <2>3. /\ q \in Int /\ LogSize * q \in Int
        /\ r \in Int /\ 0 <= r /\ r < LogSize
        /\ logged + n - 1 - i = LogSize * q + r
    <3>1. logged + n - 1 - i \in Int
      BY <1>1, <2>2, SMT
    <3> QED BY <3>1, LogSizes, Division
  <2> HIDE DEF q, r
  <2>4. CASE r < n
    <3> DEFINE b == logged + (n - r)
    <3>1. b \in Int /\ 1 <= b /\ b <= logged' /\ logged' - LogSize < b
      BY <1>1, <2>3, <2>4, LogSizes, SMT
    <3>2. b - 1 \in Int /\ b - 1 = LogSize * q + i
      BY <1>1, <2>2, <2>3, LogSizes, SMT
    <3>3. buffer'[i] = b
      BY <2>1, <2>4
    <3> HIDE DEF b
    <3>4. (b - 1) % LogSize = i
      <4> DEFINE c == b - 1
      <4>1. c \in Int /\ c = LogSize * q + i
        BY <3>2
      <4> HIDE DEF c
      <4>2. q \in Int /\ LogSize \in Positive
        BY <2>3, LogSizes
      <4>3. c % LogSize = i
        BY <2>2, <4>1, <4>2, RemainderIs
      <4> QED BY <4>3 DEF c
    <3> QED BY <3>1, <3>3, <3>4 DEF Newest
  <2>5. CASE ~(r < n)
    <3>1. buffer'[i] = buffer[i]
      BY <2>1, <2>5
    <3>2. CASE buffer[i] = 0 /\ logged <= i
      <4>1. ~(i < logged + n)
        <5> SUFFICES ASSUME i < logged + n PROVE FALSE
          OBVIOUS
        <5> DEFINE d == logged + n - 1 - i
        <5>1. d \in Int /\ 0 <= d /\ d < LogSize /\ d = LogSize * 0 + d /\ d < n
          BY <1>1, <2>2, <2>3, <2>5, <3>2, LogSizes, SMT
        <5>2. d % LogSize = d
          <6> HIDE DEF d
          <6> QED BY <5>1, LogSizes, RemainderIs, SMT
        <5> QED BY <1>1, <2>3, <2>5, <5>1, <5>2, SMT DEF r
      <4> QED BY <1>1, <2>2, <3>1, <3>2, <4>1, SMT DEF Newest
    <3>3. CASE /\ buffer[i] \in Int /\ 1 <= buffer[i] /\ buffer[i] <= logged
               /\ logged - LogSize < buffer[i]
               /\ (buffer[i] - 1) % LogSize = i
      <4> DEFINE p == (buffer[i] - 1) \div LogSize
      <4>1. p \in Int /\ LogSize * p \in Int /\ buffer[i] - 1 = LogSize * p + i
        <5>1. buffer[i] - 1 \in Int
          BY <3>3, SMT
        <5> QED BY <3>3, <5>1, LogSizes, Division
      <4> HIDE DEF p
      <4>2. ~(p < q)
        <5> SUFFICES ASSUME p < q PROVE FALSE
          OBVIOUS
        <5>1. LogSize * p + LogSize <= LogSize * q
          BY <2>3, <4>1, LogSizes, Multiples
        <5> QED BY <1>1, <2>2, <2>3, <2>5, <3>3, <4>1, <5>1, LogSizes, SMT
      <4>3. LogSize * q <= LogSize * p
        <5>1. q < p => LogSize * q + LogSize <= LogSize * p
          BY <2>3, <4>1, LogSizes, Multiples
        <5>2. p = q \/ q < p
          BY <2>3, <4>1, <4>2, SMT
        <5> QED BY <2>3, <4>1, <5>1, <5>2, LogSizes, SMT
      <4>4. logged + n - LogSize < buffer[i]
        BY <1>1, <2>2, <2>3, <3>3, <4>1, <4>3, LogSizes, SMT
      <4>5. buffer[i] <= logged + n
        BY <1>1, <3>3, SMT
      <4> DEFINE b == buffer[i]
                 l == logged'
      <4>6. /\ b \in Int /\ 1 <= b /\ b <= l /\ l - LogSize < b
            /\ (b - 1) % LogSize = i
        <5>1. b \in Int /\ 1 <= b /\ (b - 1) % LogSize = i
          BY <3>3
        <5>2. l = logged + n /\ buffer[i] = b
          BY <1>1
        <5>3. b <= l /\ l - LogSize < b
          <6> HIDE DEF b, l
          <6> QED BY <1>1, <4>4, <4>5, <5>1, <5>2, LogSizes, SMT
        <5> QED BY <5>1, <5>3
      <4>7. buffer'[i] = b /\ logged' = l
        BY <3>1
      <4> HIDE DEF b, l
      <4> QED BY <4>6, <4>7 DEF Newest
    <3> QED BY <3>1, <3>2, <3>3 DEF Ring, Newest
  <2> QED BY <2>4, <2>5
<1> QED BY <1>1, <1>2, <1>3, <1>4, SMT DEF Ring

-----------------------------------------------------------------------------
(* Printing. *)

\* n bytes having been printed, the part <<first, count>> comes next: it begins
\* with the byte that is due, and what is left after it, or after one byte of
\* it, is right again.
ComesNext(n, first, count, others) ==
    /\ n + 1 <= Total
    /\ count \in Int /\ 1 <= count /\ n + count <= Total
    /\ n + 1 <= Kept => /\ first \in Places
                        /\ first = (Due(n + 1) - 1) % LogSize
    /\ others = Rest(n + count)
    /\ count # 1 => << <<first + 1, count - 1>> >> \o others = Rest(n + 1)

LEMMA NextPart ==
    ASSUME Printing, snapshot < Wrap, todo # <<>>
    PROVE  ComesNext(Len(printed), Head(todo)[1], Head(todo)[2], Tail(todo))
<1> DEFINE n == Len(printed)
           after == snapshot % LogSize
           q == snapshot \div LogSize
<1>1. /\ snapshot \in Int /\ 0 <= snapshot
      /\ n \in Int /\ 0 <= n /\ n <= Total
      /\ todo = Rest(n)
  <2>1. n \in Nat
    BY LenProperties DEF Printing
  <2> HIDE DEF n
  <2> QED BY <2>1, SMT DEF Printing, n
<1>2. /\ after \in Int /\ 0 <= after /\ after < LogSize
      /\ q \in Int /\ LogSize * q \in Int /\ snapshot = LogSize * q + after
      /\ LogSize * (q - 1) = LogSize * q - LogSize
  <2>1. /\ after \in Int /\ 0 <= after /\ after < LogSize
        /\ q \in Int /\ LogSize * q \in Int /\ snapshot = LogSize * q + after
    BY <1>1, LogSizes, Division
  <2> HIDE DEF q
  <2>2. LogSize * (q - 1) = LogSize * q - LogSize
    BY <2>1, LogSizes, SMT
  <2> QED BY <2>1, <2>2
<1>3. Kept = IF snapshot <= LogSize THEN snapshot ELSE LogSize
  BY KeptIs
<1>4. ASSUME n + 1 <= Kept, NEW a \in Places,
             a + LogSize * q = snapshot - Kept + n
             \/ a + LogSize * (q - 1) = snapshot - Kept + n
             \/ a = snapshot - Kept + n
      PROVE  a = (Due(n + 1) - 1) % LogSize
  <2> DEFINE d == Due(n + 1) - 1
  <2>1. a \in Int /\ 0 <= a /\ a < LogSize
    BY LogSizes, SMT DEF Places
  <2>2. Kept \in Int
    BY <1>1, <1>3, LogSizes, SMT
  <2> HIDE DEF n, q
  <2>3. d \in Int /\ d = snapshot - Kept + n
    BY <1>1, <2>2, SMT DEF Due
  <2> HIDE DEF d
  <2>4. \E p \in Int : d = LogSize * p + a
    <3>1. CASE a + LogSize * q = snapshot - Kept + n
      <4>1. d = LogSize * q + a
        BY <1>2, <2>1, <2>3, <3>1, SMT
      <4> QED BY <1>2, <4>1
    <3>2. CASE a + LogSize * (q - 1) = snapshot - Kept + n
      <4>1. q - 1 \in Int
        BY <1>2, SMT
      <4>2. d = LogSize * (q - 1) + a
        BY <1>2, <2>1, <2>3, <3>2, <4>1, LogSizes, SMT
      <4> QED BY <4>1, <4>2
    <3>3. CASE a = snapshot - Kept + n
      <4>1. d = LogSize * 0 + a
        BY <2>1, <2>3, <3>3, LogSizes, SMT
      <4> QED BY <4>1
    <3> QED BY <1>4, <3>1, <3>2, <3>3
  <2>5. PICK p \in Int : d = LogSize * p + a
    BY <2>4
  <2>6. LogSize \in Positive
    BY LogSizes
  <2>7. d % LogSize = a
    BY <2>1, <2>3, <2>5, <2>6, RemainderIs
  <2> QED BY <2>7 DEF d
<1>5. CASE InOnePart
  <2>1. Total = snapshot /\ n < snapshot
    BY <1>1, <1>5, SMT DEF Total, Rest
  <2>2. todo = << <<n, snapshot - n>> >>
    BY <1>1, <1>5, <2>1, SMT DEF Rest
  <2>3. Head(todo) = <<n, snapshot - n>> /\ Tail(todo) = <<>>
    BY <2>2
  <2>4. n + (snapshot - n) = snapshot /\ Rest(snapshot) = <<>>
    BY <1>1, <1>5, SMT DEF Rest
  <2>5. snapshot - n # 1 => << <<n + 1, snapshot - n - 1>> >> \o <<>> = Rest(n + 1)
    BY <1>1, <1>5, <2>1, SMT DEF Rest
  <2>6. n + 1 <= Kept => n \in Places /\ n = (Due(n + 1) - 1) % LogSize
    <3> SUFFICES ASSUME n + 1 <= Kept PROVE n \in Places /\ n = (Due(n + 1) - 1) % LogSize
      OBVIOUS
    <3>1. n \in Places
      BY <1>1, <1>3, LogSizes, SMT DEF Places
    <3>2. n + LogSize * (q - 1) = snapshot - Kept + n \/ n = snapshot - Kept + n
      BY <1>1, <1>2, <1>3, <1>5, LogSizes, SMT DEF InOnePart
    <3> QED BY <1>4, <3>1, <3>2
  <2>7. Head(todo)[1] = n /\ Head(todo)[2] = snapshot - n
    BY <2>3
  <2> HIDE DEF n
  <2>8. ComesNext(n, n, snapshot - n, <<>>)
    BY <1>1, <2>1, <2>4, <2>5, <2>6, SMT DEF ComesNext
  <2> QED BY <2>3, <2>7, <2>8 DEF n
<1>6. CASE ~InOnePart /\ n < LogSize - after
  <2> DEFINE f == after + n
             c == LogSize - after - n
  <2>0. after # 0 /\ LogSize < snapshot /\ Total = LogSize /\ Kept = LogSize
    BY <1>1, <1>3, <1>6, LogSizes, SMT DEF InOnePart, Total
  <2>1. todo = << <<f, c>>, <<0, after>> >>
    BY <1>1, <1>6, SMT DEF Rest
  <2>2. Head(todo) = <<f, c>> /\ Tail(todo) = << <<0, after>> >>
    BY <2>1
  <2>3. /\ f \in Int /\ c \in Int /\ 1 <= c /\ f + 1 = after + (n + 1)
        /\ c - 1 = LogSize - after - (n + 1)
        /\ n + c = LogSize - after /\ n + c < LogSize /\ n + 1 <= LogSize
    BY <1>1, <1>2, <1>6, <2>0, LogSizes, SMT
  <2>4. << <<0, after>> >> = Rest(n + c)
    <3> DEFINE m == LogSize - after
    <3>2. m \in Int /\ ~(m < LogSize - after) /\ m # LogSize /\ n + c = m
      BY <1>1, <1>2, <2>0, <2>3, LogSizes, SMT
    <3>3. m - (LogSize - after) = 0 /\ LogSize - m = after
      <4> HIDE DEF after
      <4> QED BY <1>2, LogSizes, SMT
    <3> HIDE DEF m, c
    <3> QED BY <1>6, <3>2, <3>3 DEF Rest
  <2>5. c # 1 => << <<f + 1, c - 1>> >> \o << <<0, after>> >> = Rest(n + 1)
    <3> SUFFICES ASSUME c # 1
                 PROVE  << <<f + 1, c - 1>> >> \o << <<0, after>> >> = Rest(n + 1)
      OBVIOUS
    <3>1. n + 1 < LogSize - after
      BY <1>1, <1>2, <1>6, <2>0, LogSizes, SMT
    <3>2. Rest(n + 1) = << <<after + (n + 1), LogSize - after - (n + 1)>>, <<0, after>> >>
      BY <1>6, <3>1 DEF Rest
    <3>3. Rest(n + 1) = << <<f + 1, c - 1>>, <<0, after>> >>
      <4> HIDE DEF f, c
      <4> QED BY <2>3, <3>2
    <3> HIDE DEF f, c, after
    <3> QED BY <3>3
  <2>6. f \in Places /\ f = (Due(n + 1) - 1) % LogSize
    <3>1. f \in Places
      BY <1>1, <1>2, <1>6, LogSizes, SMT DEF Places
    <3>2. f + LogSize * (q - 1) = snapshot - Kept + n
      BY <1>1, <1>2, <2>0, LogSizes, SMT
    <3>3. n + 1 <= Kept
      BY <2>0, <2>3
    <3> HIDE DEF f
    <3> QED BY <1>4, <3>1, <3>2, <3>3
  <2>7. Head(todo)[1] = f /\ Head(todo)[2] = c
    BY <2>2
  <2> HIDE DEF n, f, c, after
  <2>8. ComesNext(n, f, c, << <<0, after>> >>)
    BY <1>1, <2>0, <2>3, <2>4, <2>5, <2>6, LogSizes, SMT DEF ComesNext
  <2> QED BY <2>2, <2>7, <2>8 DEF n
<1>7. CASE ~InOnePart /\ ~(n < LogSize - after)
  <2> DEFINE f == n - (LogSize - after)
             c == LogSize - n
  <2>0. after # 0 /\ LogSize < snapshot /\ Total = LogSize /\ Kept = LogSize
    BY <1>1, <1>3, <1>7, LogSizes, SMT DEF InOnePart, Total
  <2>1. n # LogSize /\ todo = << <<f, c>> >>
    BY <1>1, <1>7, SMT DEF Rest
  <2>2. Head(todo) = <<f, c>> /\ Tail(todo) = <<>>
    BY <2>1
  <2>3. /\ f \in Int /\ c \in Int /\ 1 <= c
        /\ f + 1 = (n + 1) - (LogSize - after)
        /\ c - 1 = LogSize - (n + 1)
        /\ n + c = LogSize /\ n + 1 <= LogSize
    BY <1>1, <1>2, <2>0, <2>1, LogSizes, SMT
  <2>4. <<>> = Rest(n + c)
    <3>1. ~(LogSize < LogSize - after)
      BY <1>2, LogSizes, SMT
    <3> HIDE DEF c
    <3> QED BY <1>7, <2>3, <3>1 DEF Rest
  <2>5. c # 1 => << <<f + 1, c - 1>> >> \o <<>> = Rest(n + 1)
    <3> SUFFICES ASSUME c # 1 PROVE << <<f + 1, c - 1>> >> \o <<>> = Rest(n + 1)
      OBVIOUS
    <3>1. ~(n + 1 < LogSize - after) /\ n + 1 # LogSize
      BY <1>1, <1>2, <1>7, <2>0, LogSizes, SMT
    <3>2. Rest(n + 1) = << <<(n + 1) - (LogSize - after), LogSize - (n + 1)>> >>
      <4> DEFINE k == n + 1
      <4> HIDE DEF k
      <4>1. Rest(k) = << <<k - (LogSize - after), LogSize - k>> >>
        BY <1>7, <3>1 DEF Rest, k
      <4> QED BY <4>1 DEF k
    <3>3. Rest(n + 1) = << <<f + 1, c - 1>> >>
      <4> HIDE DEF f, c
      <4> QED BY <2>3, <3>2
    <3> HIDE DEF f, c
    <3> QED BY <3>3
  <2>6. f \in Places /\ f = (Due(n + 1) - 1) % LogSize
    <3>1. f \in Places
      BY <1>1, <1>2, <1>7, <2>0, <2>3, LogSizes, SMT DEF Places
    <3>2. f + LogSize * q = snapshot - Kept + n
      BY <1>1, <1>2, <2>0, LogSizes, SMT
    <3>3. n + 1 <= Kept
      BY <2>0, <2>3
    <3> HIDE DEF f
    <3> QED BY <1>4, <3>1, <3>2, <3>3
  <2>7. Head(todo)[1] = f /\ Head(todo)[2] = c
    BY <2>2
  <2> HIDE DEF n, f, c, after
  <2>8. ComesNext(n, f, c, <<>>)
    BY <1>1, <2>0, <2>3, <2>4, <2>5, <2>6, LogSizes, SMT DEF ComesNext
  <2> QED BY <2>2, <2>7, <2>8 DEF n
<1> QED BY <1>5, <1>6, <1>7

\* What printing itself leaves alone.
LEMMA RingStays ==
    ASSUME Ring, UNCHANGED <<buffer, wrpos, logged>>
    PROVE  Ring'
BY DEF Ring, Newest

\* Everything is as after a start.
LEMMA ResetKeeps ==
    ASSUME buffer' = [i \in 0..(LogSize - 1) |-> 0], wrpos' = 0, logged' = 0,
           todo' = <<>>, snapshot' = 0, printed' = <<>>
    PROVE  LogInv'
<1>1. Ring'
  <2>1. 0 = 0 % Wrap
    <3>1. 0 = Wrap * 0 + 0
      BY LogSizes, SMT
    <3> QED BY <3>1, LogSizes, RemainderIs
  <2>2. \A i \in Places : Newest(i)'
    BY SMT DEF Newest, Places
  <2> QED BY <2>1, <2>2 DEF Ring, Places
<1>2. Len(printed') = 0 /\ printed' \in Seq(Int)
  OBVIOUS
<1>3. Rest(0)' = <<>> /\ Total' = 0
  BY LogSizes, SMT DEF Rest, Total, InOnePart
<1>4. Printing'
  BY <1>2, <1>3, SMT DEF Printing
<1>5. Shown'
  BY <1>2, SMT DEF Shown
<1> QED BY <1>1, <1>4, <1>5 DEF LogInv

\* What was printed is of no more interest.
LEMMA ForgetKeeps ==
    ASSUME LogInv, UNCHANGED <<buffer, wrpos, logged, todo>>, todo = <<>>,
           snapshot' = 0, printed' = <<>>
    PROVE  LogInv'
<1>1. Ring'
  BY RingStays DEF LogInv
<1>2. Len(printed') = 0 /\ printed' \in Seq(Int)
  OBVIOUS
<1>3. Rest(0)' = <<>> /\ Total' = 0
  BY LogSizes, SMT DEF Rest, Total, InOnePart
<1>4. Printing'
  BY <1>1, <1>2, <1>3, SMT DEF Printing, Ring
<1>5. Shown'
  BY <1>2, SMT DEF Shown
<1> QED BY <1>1, <1>4, <1>5 DEF LogInv

\* dmesg reads the position and splits the ring where it begins.
LEMMA DmesgKeeps ==
    ASSUME LogInv, Dmesg
    PROVE  LogInv'
<1>1. Ring'
  BY RingStays DEF LogInv, Dmesg
<1>2. /\ Len(printed') = 0 /\ printed' \in Seq(Int)
      /\ snapshot' = logged /\ todo' = Parts(wrpos)
      /\ logged \in Int /\ 0 <= logged
  BY SMT DEF Dmesg, LogInv, Ring
<1>3. ASSUME logged < Wrap
      PROVE  todo' = Rest(0)'
  <2> DEFINE after == logged % LogSize
  <2>1. wrpos = logged
    <3>1. logged = Wrap * 0 + logged
      BY <1>2, LogSizes, SMT
    <3>2. logged % Wrap = logged
      BY <1>2, <1>3, <3>1, LogSizes, RemainderIs
    <3> QED BY <3>2 DEF LogInv, Ring
  <2>2. after \in Int /\ 0 <= after /\ after < LogSize
    BY <1>2, LogSizes, Division
  <2>3. InOnePart' <=> (logged <= LogSize \/ after = 0)
    BY <1>2 DEF InOnePart
  <2>4. CASE logged = 0
    BY <1>2, <2>1, <2>3, <2>4, LogSizes, SMT DEF Parts, Rest
  <2>5. CASE logged # 0 /\ (logged <= LogSize \/ after = 0)
    BY <1>2, <2>1, <2>3, <2>5, LogSizes, SMT DEF Parts, Rest
  <2>6. CASE logged # 0 /\ ~(logged <= LogSize \/ after = 0)
    <3>1. Parts(wrpos) = << <<after, LogSize - after>>, <<0, after>> >>
      BY <2>1, <2>6, SMT DEF Parts
    <3>2. 0 < LogSize - after /\ after + 0 = after /\ LogSize - after - 0 = LogSize - after
      <4> HIDE DEF after
      <4> QED BY <2>2, LogSizes, SMT
    <3>3. Rest(0)' = << <<after + 0, LogSize - after - 0>>, <<0, after>> >>
      BY <1>2, <2>3, <2>6, <3>2, Zenon DEF Rest
    <3> HIDE DEF after
    <3> QED BY <1>2, <3>1, <3>2, <3>3, Zenon
  <2> QED BY <2>4, <2>5, <2>6
<1>4. 0 <= Total'
  BY <1>2, LogSizes, SMT DEF Total
<1>5. Printing'
  BY <1>1, <1>2, <1>3, <1>4, SMT DEF Printing, Ring, Dmesg
<1>6. Shown'
  BY <1>2, SMT DEF Shown
<1> QED BY <1>1, <1>5, <1>6 DEF LogInv

\* The byte at the place of one that is due is that one or a later one.
LEMMA FreshByte ==
    ASSUME Ring, Printing, NEW k \in Int, 1 <= k, k <= Kept,
           NEW i \in Places, i = (Due(k) - 1) % LogSize
    PROVE  /\ buffer[i] \in Int
           /\ Due(k) <= buffer[i] /\ buffer[i] <= logged
           /\ (buffer[i] - Due(k)) % LogSize = 0
<1> DEFINE d == Due(k) - 1
           b == buffer[i] - 1
<1>1. /\ i \in Int /\ 0 <= i /\ i < LogSize
      /\ logged \in Int /\ snapshot \in Int /\ 0 <= snapshot /\ snapshot <= logged
  BY LogSizes, SMT DEF Places, Ring, Printing
<1>2. d \in Int /\ 0 <= d /\ d < logged /\ Due(k) = d + 1
  <2>1. Kept = IF snapshot <= LogSize THEN snapshot ELSE LogSize
    BY KeptIs
  <2> QED BY <1>1, <2>1, LogSizes, SMT DEF Due
<1> HIDE DEF d
<1>3. i <= d
  <2> DEFINE q == d \div LogSize
  <2>1. /\ q \in Int /\ LogSize * q \in Int /\ d = LogSize * q + i
    BY <1>2, LogSizes, Division DEF d
  <2> HIDE DEF q
  <2>2. ~(q < 0)
    <3> SUFFICES ASSUME q < 0 PROVE FALSE
      OBVIOUS
    <3>1. LogSize * q + LogSize <= LogSize * 0
      BY <2>1, LogSizes, Multiples
    <3> QED BY <1>1, <1>2, <2>1, <3>1, LogSizes, SMT
  <2>3. 0 <= LogSize * q
    BY <2>1, <2>2, LogSizes, SMT
  <2> QED BY <1>1, <2>1, <2>3, SMT
<1>4. /\ b \in Int /\ b + 1 = buffer[i] /\ buffer[i] \in Int
      /\ buffer[i] <= logged /\ logged - LogSize < b + 1
      /\ b % LogSize = i
  <2>1. ~(logged <= i)
    BY <1>1, <1>2, <1>3, SMT
  <2>2. /\ buffer[i] \in Int /\ buffer[i] <= logged
        /\ logged - LogSize < buffer[i] /\ (buffer[i] - 1) % LogSize = i
    BY <2>1 DEF Ring, Newest
  <2>3. b \in Int /\ b + 1 = buffer[i]
    BY <2>2, SMT
  <2> QED BY <2>2, <2>3
<1> HIDE DEF b
<1>5. d % LogSize = b % LogSize
  BY <1>4 DEF d
<1>6. d - LogSize < b
  BY <1>1, <1>2, <1>4, LogSizes, SMT
<1>7. (b - d) % LogSize = 0 /\ d <= b
  BY <1>2, <1>4, <1>5, <1>6, LogSizes, SameRemainder
<1>8. buffer[i] - Due(k) = b - d
  BY <1>2, <1>4, SMT
<1> QED BY <1>2, <1>4, <1>7, <1>8, SMT

\* What is due does not change while it is printed.
LEMMA DueStays ==
    ASSUME snapshot' = snapshot
    PROVE  Kept' = Kept /\ Total' = Total /\ \A k \in Int : Rest(k)' = Rest(k) /\ Due(k)' = Due(k)
BY DEF Kept, Total, Rest, Due, InOnePart

LEMMA RestAfter ==
    ASSUME snapshot' = snapshot, NEW m \in Int, m = Len(printed'), todo' = Rest(m)
    PROVE  todo' = Rest(Len(printed))'
BY DEF Rest, InOnePart

\* A message logged meanwhile only makes the bytes printed older.
LEMMA DbgKeeps ==
    ASSUME LogInv, NEW n \in Lengths, Dbg(n)
    PROVE  LogInv'
<1>1. Ring'
  BY DbgRing DEF LogInv
<1>2. /\ UNCHANGED <<todo, snapshot, printed>>
      /\ logged \in Int /\ logged' \in Int /\ logged <= logged'
  BY LogSizes, SMT DEF Dbg, LogInv, Ring
<1>3. Printing'
  <2>1. Printing
    BY DEF LogInv
  <2>2. snapshot \in Nat /\ snapshot <= logged'
    BY <1>2, <2>1, SMT DEF Printing
  <2>3. Rest(Len(printed))' = Rest(Len(printed)) /\ Total' = Total
    BY <1>2 DEF Rest, Total, InOnePart
  <2> QED BY <1>2, <2>1, <2>2, <2>3 DEF Printing
<1>4. Shown'
  <2> SUFFICES ASSUME snapshot < Wrap, NEW k \in 1..Len(printed), k <= Kept
               PROVE  Fresh(k)'
    BY <1>2, DueStays DEF Shown
  <2>1. Fresh(k) /\ Due(k)' = Due(k)
    BY <1>2 DEF LogInv, Shown, Due, Kept
  <2>2. ASSUME printed[k] # Lost PROVE printed[k] \in Int /\ printed[k] <= logged'
    BY <1>2, <2>1, <2>2, SMT DEF Fresh
  <2> QED BY <1>2, <2>1, <2>2 DEF Fresh
<1> QED BY <1>1, <1>3, <1>4 DEF LogInv

\* The bytes printed and then the value v.
LEMMA OneMore ==
    ASSUME NEW s \in Seq(Int), NEW v \in Int
    PROVE  /\ Append(s, v) \in Seq(Int) /\ Len(Append(s, v)) = Len(s) + 1
           /\ Len(s) \in Int /\ 0 <= Len(s)
           /\ Append(s, v)[Len(s) + 1] = v
           /\ \A k \in 1..Len(s) : Append(s, v)[k] = s[k]
BY AppendProperties, LenProperties

\* A byte is printed.
LEMMA WriteKeeps ==
    ASSUME LogInv, Write
    PROVE  LogInv'
<1> DEFINE n == Len(printed)
           first == Head(todo)[1]
           count == Head(todo)[2]
           v == IF first \in DOMAIN buffer THEN buffer[first] ELSE Outside
<1>1. Ring'
  BY RingStays DEF LogInv, Write
<1>2. /\ todo # <<>> /\ printed' = Append(printed, v)
      /\ todo' = IF count = 1 THEN Tail(todo) ELSE << <<first + 1, count - 1>> >> \o Tail(todo)
      /\ snapshot' = snapshot /\ logged' = logged
  BY DEF Write
<1>3. Ring /\ Printing /\ Shown
  BY DEF LogInv
<1>4. snapshot' \in Nat /\ snapshot' <= logged'
  BY <1>2, <1>3 DEF Printing
<1>5. ASSUME snapshot < Wrap
      PROVE  /\ printed' \in Seq(Int) /\ Len(printed') <= Total'
             /\ todo' = Rest(Len(printed))'
             /\ \A k \in 1..Len(printed') : k <= Kept' => Fresh(k)'
  <2>1. ComesNext(n, first, count, Tail(todo))
    BY <1>2, <1>3, <1>5, NextPart
  <2>2. v \in Int
    <3>1. CASE first \in DOMAIN buffer
      BY <1>3, <3>1 DEF Ring, Newest
    <3>2. CASE first \notin DOMAIN buffer
      BY <3>2, SMT DEF Outside
    <3> QED BY <3>1, <3>2
  <2>3. printed \in Seq(Int)
    BY <1>3, <1>5 DEF Printing
  <2> HIDE DEF v, first, count
  <2>4. /\ printed' \in Seq(Int) /\ Len(printed') = n + 1 /\ n \in Int /\ 0 <= n
        /\ printed'[n + 1] = v
        /\ \A k \in 1..n : printed'[k] = printed[k]
    BY <1>2, <2>2, <2>3, OneMore
  <2> HIDE DEF n
  <2>5. Kept' = Kept /\ Total' = Total /\ \A k \in Int : Rest(k)' = Rest(k) /\ Due(k)' = Due(k)
    BY <1>2, DueStays
  <2>6. PICK m \in Int : m = n + 1
    BY <2>4
  <2>7. Len(printed') <= Total'
    BY <2>1, <2>4, <2>5 DEF ComesNext
  <2>8. todo' = Rest(m)
    BY <1>2, <2>1, <2>6 DEF ComesNext
  <2>9. todo' = Rest(Len(printed))'
    BY <1>2, <2>4, <2>6, <2>8, RestAfter
  <2>10. ASSUME NEW k \in 1..Len(printed'), k <= Kept'
         PROVE  Fresh(k)'
    <3>1. k \in Int /\ 1 <= k /\ k <= n + 1 /\ k <= Kept /\ Due(k)' = Due(k)
      BY <2>4, <2>5, <2>10
    <3>2. CASE k <= n
      <4>1. k \in 1..n
        BY <2>4, <3>1, <3>2, SMT
      <4>2. Fresh(k)
        BY <1>3, <1>5, <3>1, <4>1 DEF Shown, n
      <4> QED BY <1>2, <2>4, <3>1, <4>1, <4>2 DEF Fresh
    <3>3. CASE k = n + 1
      <4>1. first \in Places /\ first = (Due(k) - 1) % LogSize
        BY <2>1, <3>1, <3>3 DEF ComesNext
      <4>2. PICK i \in Places : i = first
        BY <4>1
      <4>3. /\ buffer[i] \in Int
            /\ Due(k) <= buffer[i] /\ buffer[i] <= logged
            /\ (buffer[i] - Due(k)) % LogSize = 0
        BY <1>3, <3>1, <4>1, <4>2, FreshByte
      <4>4. printed'[k] = buffer[i]
        BY <1>3, <2>4, <3>3, <4>2 DEF v, Ring
      <4> QED BY <1>2, <3>1, <4>3, <4>4 DEF Fresh
    <3> QED BY <2>4, <3>1, <3>2, <3>3, SMT
  <2> QED BY <2>4, <2>7, <2>9, <2>10
<1>6. Printing'
  BY <1>2, <1>4, <1>5 DEF Printing
<1>7. Shown'
  BY <1>2, <1>5 DEF Shown
<1> QED BY <1>1, <1>6, <1>7 DEF LogInv

\* The bytes printed and then a part that is lost.
LostPart(c) == [k \in 1..c |-> Lost]

LEMMA PartMore ==
    ASSUME NEW s \in Seq(Int), NEW c \in Int, 1 <= c
    PROVE  /\ s \o LostPart(c) \in Seq(Int) /\ Len(s \o LostPart(c)) = Len(s) + c
           /\ Len(s) \in Int /\ 0 <= Len(s)
           /\ \A k \in 1..Len(s) : (s \o LostPart(c))[k] = s[k]
           /\ \A k \in (Len(s) + 1)..(Len(s) + c) : (s \o LostPart(c))[k] = Lost
<1>1. LostPart(c) \in Seq(Int) /\ Len(LostPart(c)) = c
  BY SMT DEF LostPart, Lost
<1>2. \A k \in 1..c : LostPart(c)[k] = Lost
  BY DEF LostPart
<1> DEFINE l == LostPart(c)
<1> HIDE DEF l
<1>3. /\ s \o l \in Seq(Int) /\ Len(s \o l) = Len(s) + c
      /\ \A k \in 1..(Len(s) + c) :
            (s \o l)[k] = IF k <= Len(s) THEN s[k] ELSE l[k - Len(s)]
  BY <1>1, ConcatProperties DEF l
<1>4. Len(s) \in Int /\ 0 <= Len(s)
  BY LenProperties
<1>5. \A k \in 1..Len(s) : (s \o l)[k] = s[k]
  BY <1>3, <1>4, SMT
<1>6. ASSUME NEW k \in (Len(s) + 1)..(Len(s) + c) PROVE (s \o l)[k] = Lost
  <2>1. k \in 1..(Len(s) + c) /\ ~(k <= Len(s)) /\ k - Len(s) \in 1..c
    BY <1>4, SMT
  <2> QED BY <1>2, <1>3, <2>1 DEF l
<1> QED BY <1>3, <1>4, <1>5, <1>6 DEF l

\* The stream takes no more, and a part is given up.
LEMMA DropKeeps ==
    ASSUME LogInv, DropPart
    PROVE  LogInv'
<1> DEFINE n == Len(printed)
           first == Head(todo)[1]
           count == Head(todo)[2]
<1>1. Ring'
  BY RingStays DEF LogInv, DropPart
<1>2. /\ todo # <<>> /\ printed' = printed \o LostPart(count)
      /\ todo' = Tail(todo)
      /\ snapshot' = snapshot /\ logged' = logged
  BY DEF DropPart, LostPart
<1>3. Ring /\ Printing /\ Shown
  BY DEF LogInv
<1>4. snapshot' \in Nat /\ snapshot' <= logged'
  BY <1>2, <1>3 DEF Printing
<1>5. ASSUME snapshot < Wrap
      PROVE  /\ printed' \in Seq(Int) /\ Len(printed') <= Total'
             /\ todo' = Rest(Len(printed))'
             /\ \A k \in 1..Len(printed') : k <= Kept' => Fresh(k)'
  <2>1. ComesNext(n, first, count, Tail(todo))
    BY <1>2, <1>3, <1>5, NextPart
  <2>2. count \in Int /\ 1 <= count
    BY <2>1 DEF ComesNext
  <2>3. printed \in Seq(Int)
    BY <1>3, <1>5 DEF Printing
  <2> HIDE DEF first, count
  <2>4. /\ printed' \in Seq(Int) /\ Len(printed') = n + count /\ n \in Int /\ 0 <= n
        /\ \A k \in 1..n : printed'[k] = printed[k]
        /\ \A k \in (n + 1)..(n + count) : printed'[k] = Lost
    BY <1>2, <2>2, <2>3, PartMore
  <2> HIDE DEF n
  <2>5. Kept' = Kept /\ Total' = Total /\ \A k \in Int : Rest(k)' = Rest(k) /\ Due(k)' = Due(k)
    BY <1>2, DueStays
  <2>6. PICK m \in Int : m = n + count
    BY <2>2, <2>4
  <2>7. Len(printed') <= Total'
    BY <2>1, <2>4, <2>5 DEF ComesNext
  <2>8. todo' = Rest(m)
    BY <1>2, <2>1, <2>6 DEF ComesNext
  <2>9. todo' = Rest(Len(printed))'
    BY <1>2, <2>4, <2>6, <2>8, RestAfter
  <2>10. ASSUME NEW k \in 1..Len(printed'), k <= Kept'
         PROVE  Fresh(k)'
    <3>1. k \in Int /\ 1 <= k /\ k <= n + count /\ k <= Kept /\ Due(k)' = Due(k)
      BY <2>2, <2>4, <2>5, <2>10
    <3>2. CASE k <= n
      <4>1. k \in 1..n
        BY <2>4, <3>1, <3>2, SMT
      <4>2. Fresh(k)
        BY <1>3, <1>5, <3>1, <4>1 DEF Shown, n
      <4> QED BY <1>2, <2>4, <3>1, <4>1, <4>2 DEF Fresh
    <3>3. CASE k > n
      <4>1. k \in (n + 1)..(n + count)
        BY <2>2, <2>4, <3>1, <3>3, SMT
      <4> QED BY <2>4, <4>1 DEF Fresh
    <3> QED BY <2>4, <3>1, <3>2, <3>3, SMT
  <2> QED BY <2>4, <2>7, <2>9, <2>10
<1>6. Printing'
  BY <1>2, <1>4, <1>5 DEF Printing
<1>7. Shown'
  BY <1>2, <1>5 DEF Shown
<1> QED BY <1>1, <1>6, <1>7 DEF LogInv

\* Everything else leaves the log alone.
LEMMA OthersKeepLog ==
    ASSUME LogInv, UNCHANGED logVars
    PROVE  LogInv'
BY DEF LogInv, logVars, Ring, Newest, Printing, Rest, Total, InOnePart, Shown, Kept, Fresh, Due

LEMMA LogInvariant == Spec => []LogInv
<1>1. Init => LogInv
  <2> SUFFICES ASSUME Init PROVE LogInv
    OBVIOUS
  <2>1. Ring
    <3>1. 0 = 0 % Wrap
      <4>1. 0 = Wrap * 0 + 0
        BY LogSizes, SMT
      <4> QED BY <4>1, LogSizes, RemainderIs
    <3>2. \A i \in Places : Newest(i)
      BY SMT DEF Init, LogInit, Newest, Places
    <3> QED BY <3>1, <3>2 DEF Init, LogInit, Ring, Places
  <2>2. Len(printed) = 0 /\ printed \in Seq(Int)
    BY DEF Init, LogInit
  <2>3. Rest(0) = <<>> /\ Total = 0
    BY LogSizes, SMT DEF Init, LogInit, Rest, Total, InOnePart
  <2>4. Printing
    BY <2>2, <2>3, SMT DEF Init, LogInit, Printing
  <2>5. Shown
    BY <2>2, SMT DEF Shown
  <2> QED BY <2>1, <2>4, <2>5 DEF LogInv
<1>2. LogInv /\ [Next]_vars => LogInv'
  <2> SUFFICES ASSUME LogInv, [Next]_vars PROVE LogInv'
    OBVIOUS
  <2>1. CASE CmdReboot
    BY <2>1, ResetKeeps DEF CmdReboot, Reset
  <2>2. CASE CmdDmesg
    BY <2>2, DmesgKeeps DEF CmdDmesg
  <2>3. CASE DmesgStep
    BY <2>3, WriteKeeps, DropKeeps DEF DmesgStep
  <2>4. CASE DmesgReturns
    BY <2>4, ForgetKeeps DEF DmesgReturns
  <2>5. CASE Log
    BY <2>5, DbgKeeps DEF Log
  <2>6. CASE Main \/ StartUsb \/ Host
    BY <2>6, OthersKeepLog DEF Main, StartHub, HubStep, StartUsbThread, Poll, Release,
       StartUsb, Host, HostResets, HostAddresses, HostConfigures, HostUnconfigures,
       HostSuspends, HostWakes, GoTo
  <2>7. CASE ShellReads \/ PortFails \/ CmdExit \/ CmdInputQuadspi
    BY <2>7, DbgKeeps, OthersKeepLog DEF ShellReads, PortFails, CmdExit, ShellEnds,
       CmdInputQuadspi
  <2>8. CASE UNCHANGED vars
    BY <2>8, OthersKeepLog DEF vars
  <2> QED BY <2>1, <2>2, <2>3, <2>4, <2>5, <2>6, <2>7, <2>8 DEF Next, Shell
<1> QED BY <1>1, <1>2, PTL DEF Spec

\* What dmesg prints while messages are logged is, byte for byte, what is due
\* or what was logged over it since (debug.c:28-75).
THEOREM NothingStale == Spec => []NeverStale
<1>1. LogInv => NeverStale
  <2> SUFFICES ASSUME LogInv, snapshot < Wrap,
                      NEW k \in {j \in 1..Min({Len(printed), Kept}) : printed[j] # Lost}
               PROVE  /\ Due(k) <= printed[k] /\ printed[k] <= logged
                      /\ (printed[k] - Due(k)) % LogSize = 0
    BY DEF NeverStale
  <2>1. Kept \in Int /\ Len(printed) \in Int
    <3>1. Kept \in Int
      BY KeptIs, LogSizes DEF LogInv, Printing
    <3> QED BY <3>1, LenProperties DEF LogInv, Printing
  <2>2. k \in 1..Len(printed) /\ k <= Kept
    BY <2>1, MinOfTwo, SMT
  <2> QED BY <2>2 DEF LogInv, Shown, Fresh
<1> QED BY <1>1, LogInvariant, PTL

\* A log printed while nothing is logged is complete, the newest bytes in order,
\* but for those the stream did not take (debug.c:42-60).
THEOREM NewestPrinted == Spec => []NewestInOrder
<1>1. LogInv => NewestInOrder
  <2> SUFFICES ASSUME LogInv, todo = <<>>, printed # <<>>, logged = snapshot, snapshot < Wrap
               PROVE  /\ Len(printed) >= Kept
                      /\ \A k \in 1..Kept : printed[k] \in {Due(k), Lost}
    BY DEF NewestInOrder
  <2>1. /\ Kept = IF snapshot <= LogSize THEN snapshot ELSE LogSize
        /\ snapshot \in Int /\ 0 <= snapshot
        /\ Len(printed) \in Int /\ 0 <= Len(printed)
    <3>1. Kept = IF snapshot <= LogSize THEN snapshot ELSE LogSize
      BY KeptIs DEF LogInv
    <3>2. Len(printed) \in Nat /\ snapshot \in Nat
      BY LenProperties DEF LogInv, Printing
    <3> QED BY <3>1, <3>2, SMT
  <2>2. Len(printed) >= Kept
    <3>1. Rest(Len(printed)) = <<>>
      BY DEF LogInv, Printing
    <3>2. InOnePart => Len(printed) = snapshot
      BY <3>1 DEF Rest
    <3>3. ~InOnePart => Len(printed) = LogSize
      BY <3>1 DEF Rest
    <3> QED BY <2>1, <3>2, <3>3, LogSizes, SMT
  <2>3. ASSUME NEW k \in 1..Kept, printed[k] # Lost
        PROVE  printed[k] = Due(k)
    <3>1. k \in Int /\ 1 <= k /\ k <= Kept /\ k \in 1..Len(printed)
      BY <2>1, <2>2, LogSizes, SMT
    <3>2. /\ printed[k] \in Int
          /\ Due(k) <= printed[k] /\ printed[k] <= logged
          /\ (printed[k] - Due(k)) % LogSize = 0
      BY <2>3, <3>1 DEF LogInv, Shown, Fresh
    <3>3. Due(k) \in Int /\ snapshot - LogSize < Due(k)
      BY <2>1, <3>1, LogSizes, SMT DEF Due
    <3>4. printed[k] % LogSize = Due(k) % LogSize
      BY <3>2, <3>3, LogSizes, RemainderOfMultiple
    <3>5. printed[k] - LogSize < Due(k)
      BY <2>1, <3>2, <3>3, LogSizes, SMT
    <3>6. printed[k] <= Due(k)
      BY <3>2, <3>3, <3>4, <3>5, LogSizes, SameRemainder
    <3> QED BY <3>2, <3>3, <3>6, SMT
  <2> QED BY <2>2, <2>3
<1> QED BY <1>1, LogInvariant, PTL

-----------------------------------------------------------------------------
(* The sample rate. *)

\* The dividers there are: none yet, 1 for double data rate, even ones that the
\* 8-bit prescaler can halve.
Dividers == {0, 1} \cup {2 * h : h \in 1..256}

LEMMA Clocks ==
    /\ BaseFreq \in Int /\ 0 <= BaseFreq /\ KernelClock \in Int /\ 0 <= KernelClock
    /\ BaseFreq = 2 * KernelClock
    /\ \A rate \in Rates : rate \in Nat
<1>1. KernelClock \in Nat /\ BaseFreq = 2 * KernelClock /\ Rates \subseteq Nat
  BY ClockAssumption DEF ClockAssumption
<1> QED BY <1>1, SMT

LEMMA DividerPossible ==
    ASSUME NEW rate \in Rates
    PROVE  Divider(rate) \in Dividers
<1> DEFINE d == Quotient(BaseFreq, rate)
<1>1. d \in Int
  <2>1. rate \in Int /\ 0 <= rate
    BY Clocks, SMT
  <2>2. CASE rate = 0
    BY <2>2, SMT DEF Quotient
  <2>3. CASE rate # 0
    <3>1. rate \in Positive
      BY <2>1, <2>3, SMT DEF Positive
    <3>2. BaseFreq \div rate \in Int
      BY <3>1, Clocks, Division
    <3> QED BY <2>3, <3>2 DEF Quotient
  <2> QED BY <2>2, <2>3
<1>2. Divider(rate) = IF d < 1 THEN 1 ELSE IF d > 512 THEN 512
                      ELSE IF d > 1 THEN d - (d % 2) ELSE d
  BY DEF Divider
<1> HIDE DEF d
<1>3. CASE d > 1 /\ d <= 512
  <2>1. d \div 2 \in 1..256 /\ d - (d % 2) = 2 * (d \div 2)
    BY <1>1, <1>3, SMT
  <2>2. Divider(rate) = 2 * (d \div 2)
    BY <1>1, <1>2, <1>3, <2>1, SMT
  <2> QED BY <2>1, <2>2 DEF Dividers
<1>4. CASE d > 512
  <2>1. 256 \in 1..256 /\ 512 = 2 * 256
    BY SMT
  <2>2. Divider(rate) = 2 * 256
    BY <1>1, <1>2, <1>4, <2>1, SMT
  <2> QED BY <2>1, <2>2 DEF Dividers
<1>5. CASE d <= 1
  <2>1. Divider(rate) = 1
    BY <1>1, <1>2, <1>5, SMT
  <2> QED BY <2>1 DEF Dividers
<1> QED BY <1>1, <1>3, <1>4, <1>5, SMT

LEMMA DividerInvariant == Spec => [](divider \in Dividers)
<1>1. Init => divider \in Dividers
  BY DEF Init, Dividers
<1>2. divider \in Dividers /\ [Next]_vars => (divider \in Dividers)'
  <2> SUFFICES ASSUME divider \in Dividers, [Next]_vars PROVE divider' \in Dividers
    OBVIOUS
  <2>1. CASE CmdReboot
    BY <2>1 DEF CmdReboot, Reset, Dividers
  <2>2. CASE CmdInputQuadspi
    BY <2>2, DividerPossible DEF CmdInputQuadspi, inputVars
  <2>3. CASE Main \/ StartUsb \/ Host
    BY <2>3 DEF Main, StartHub, HubStep, StartUsbThread, Poll, Release,
       StartUsb, Host, HostResets, HostAddresses, HostConfigures, HostUnconfigures,
       HostSuspends, HostWakes, GoTo, inputVars
  <2>4. CASE ShellReads \/ PortFails \/ CmdExit \/ CmdDmesg \/ DmesgStep \/ DmesgReturns \/ Log
    BY <2>4 DEF ShellReads, PortFails, CmdExit, ShellEnds, CmdDmesg, DmesgStep,
       DmesgReturns, Log, inputVars
  <2>5. CASE UNCHANGED vars
    BY <2>5 DEF vars, inputVars
  <2> QED BY <2>1, <2>2, <2>3, <2>4, <2>5 DEF Next, Shell
<1> QED BY <1>1, <1>2, PTL DEF Spec

\* Twice the clock divided by an even number is the clock divided by its half.
LEMMA HalvesDivide ==
    ASSUME NEW h \in Positive
    PROVE  (2 * KernelClock) \div (2 * h) = KernelClock \div h
<1> DEFINE q == KernelClock \div h
           r == KernelClock % h
<1>1. /\ h \in Int /\ h > 0 /\ KernelClock \in Int
      /\ q \in Int /\ h * q \in Int /\ r \in Int /\ 0 <= r /\ r < h
      /\ KernelClock = h * q + r
  BY Clocks, Division
<1> HIDE DEF q, r
<1> DEFINE m == 2 * h
           a == 2 * KernelClock
           t == 2 * r
<1>2. m \in Positive /\ a \in Int /\ t \in Int /\ 0 <= t /\ t < m
  BY <1>1, SMT DEF Positive
<1>3. m * q = 2 * (h * q)
  BY <1>1, SMT
<1>4. a = m * q + t
  <2>1. a = 2 * (h * q) + t
    BY <1>1, SMT
  <2> QED BY <1>3, <2>1
<1> HIDE DEF m, a, t
<1>5. a \div m = q
  BY <1>1, <1>2, <1>4, RemainderIs
<1> QED BY <1>5 DEF a, m, q

\* For every rate asked for, the one in the packet headers is the one the
\* prescaler makes of the clock, or double data rate (input_quadspi.c:244-296).
THEOREM RateIsExact == Spec => []RateReported
<1>1. divider \in Dividers => RateReported
  <2> SUFFICES ASSUME divider \in Dividers, divider # 0
               PROVE  Prescaler \in 0..255 /\ SampleRate = BaseFreq \div divider
    BY DEF RateReported
  <2>1. CASE divider = 1
    <3>1. Prescaler = 0
      BY <2>1 DEF Prescaler
    <3>2. SampleRate = (2 * KernelClock) \div (0 + 1)
      BY <2>1, <3>1 DEF SampleRate
    <3>3. 0 + 1 = 1
      OBVIOUS
    <3> QED BY <2>1, <3>1, <3>2, <3>3, Clocks, SMT
  <2>2. CASE divider # 1
    <3>1. PICK h \in 1..256 : divider = 2 * h
      BY <2>2 DEF Dividers
    <3>2. h \in Positive /\ divider \div 2 = h /\ h - 1 \in 0..255 /\ (h - 1) + 1 = h
      BY <3>1, SMT DEF Positive
    <3>3. Prescaler = h - 1
      BY <2>2, <3>2 DEF Prescaler
    <3>4. SampleRate = (1 * KernelClock) \div h
      BY <2>2, <3>2, <3>3 DEF SampleRate
    <3>5. 1 * KernelClock = KernelClock
      BY Clocks, SMT
    <3>6. BaseFreq \div divider = KernelClock \div h
      BY <3>1, <3>2, Clocks, HalvesDivide
    <3> QED BY <3>2, <3>3, <3>4, <3>5, <3>6
  <2> QED BY <2>1, <2>2
<1> QED BY <1>1, DividerInvariant, PTL
=============================================================================
