--------------------------- MODULE FramingProofs ---------------------------
(***************************************************************************)
(* The host stays in step with the stream for every buffer size up to      *)
(* 16 KB, every USB packet size dividing it and every size of the header.  *)
(***************************************************************************)
EXTENDS UsbFraming, TLAPS

\* The numbers two varint bytes can hold, and the paddings there can be.
TwoByteNumber == 0..16383
Padding == {0} \cup 2..16383

\* What the arithmetic below needs of the sizes.
LEMMA Sizes ==
    /\ BufBytes \in Int /\ BufBytes <= 16384
    /\ UsbBytes \in Int /\ 0 < UsbBytes /\ UsbBytes <= BufBytes
    /\ UsbBytes \in Nat \ {0}
    /\ \A n \in HeaderBytes : n \in Nat /\ n >= 4
<1>1. /\ BufBytes \in Int /\ BufBytes <= 16384 /\ UsbBytes \in 1..BufBytes
  BY FramingAssumption DEF FramingAssumption
<1>2. \A n \in HeaderBytes : n \in Nat /\ n >= 4
  <2>1. HeaderBytes \subseteq Nat /\ (\A n \in HeaderBytes : n >= 4)
    BY FramingAssumption DEF FramingAssumption
  <2> QED BY <2>1
<1> QED BY <1>1, <1>2

\* Two bytes hold every number below 16384: what DigIn and usb_thread write
\* for the lengths that occur is read back unchanged.
LEMMA TwoBytesSuffice ==
    ASSUME NEW n \in TwoByteNumber
    PROVE  TwoByteVarint(n) = n
<1>1. n \in Int /\ n >= 0 /\ n <= 16383
  BY SMT DEF TwoByteNumber
<1>2. n \div 128 \in Int /\ n % 128 \in Int
  BY <1>1, SMT
<1>3. n \div 128 >= 0 /\ n \div 128 <= 127
  BY <1>1, SMT
<1>4. n = 128 * (n \div 128) + (n % 128)
  BY <1>1, SMT
<1> DEFINE high == n \div 128
<1>5. high % 256 = high
  <2> HIDE DEF high
  <2> QED BY <1>2, <1>3, SMT DEF high
<1>6. TwoByteVarint(n) = (n % 128) + 128 * high
  <2>1. high % 256 < 128
    BY <1>2, <1>3, <1>5, SMT
  <2> QED BY <1>5, <2>1 DEF TwoByteVarint
<1> QED BY <1>2, <1>4, <1>6, SMT

\* The padding field is as long as the padding it was made for.
LEMMA PadFieldFills ==
    ASSUME NEW padding \in Padding
    PROVE  PadFieldOf(padding) = padding
<1>0. padding \in {0} \cup 2..16383
  BY DEF Padding
<1>1. CASE padding = 0
  BY <1>1, SMT DEF PadFieldOf
<1>2. CASE padding = 2
  BY <1>2, SMT DEF PadFieldOf
<1>3. CASE padding > 2
  <2>1. /\ padding - 3 \in TwoByteNumber
        /\ padding \in Int
    BY <1>0, <1>3, SMTT(30) DEF TwoByteNumber
  <2>2. TwoByteVarint(padding - 3) = padding - 3
    BY <2>1, TwoBytesSuffice, Zenon
  <2> QED BY <1>3, <2>1, <2>2, SMT DEF PadFieldOf
<1>4. padding = 0 \/ padding = 2 \/ padding > 2
  BY <1>0, SMT
<1> QED BY <1>1, <1>2, <1>3, <1>4

\* The padding is less than a USB packet and never a single byte.
LEMMA PaddedRange ==
    ASSUME NEW len \in Nat
    PROVE  Padded(len) \in Padding
<1> DEFINE r == len % UsbBytes
<1>1. UsbBytes \in Int /\ 0 < UsbBytes /\ UsbBytes <= 16384
  BY Sizes, SMT
<1>2. r \in 0..(UsbBytes - 1)
  BY <1>1, SMT
<1>3. Padded(len) = IF r # 0 /\ UsbBytes - r >= 2 THEN UsbBytes - r ELSE 0
  BY DEF Padded
<1> HIDE DEF r
<1> QED BY <1>1, <1>2, <1>3, SMT DEF Padding

\* Padding makes the length a multiple of a USB packet, or leaves it one byte
\* short of one; and as the buffer is whole USB packets, it stays in the buffer.
LEMMA PaddedFits ==
    ASSUME NEW len \in 0..BufBytes
    PROVE  /\ len + Padded(len) <= BufBytes
           /\ (len + Padded(len)) % UsbBytes \in {0, UsbBytes - 1}
<1> DEFINE q == len \div UsbBytes
           r == len % UsbBytes
           k == BufBytes \div UsbBytes
           whole == q * UsbBytes
<1>1. /\ UsbBytes \in Int /\ UsbBytes > 0
      /\ BufBytes \in Int /\ BufBytes % UsbBytes = 0
      /\ len \in Int /\ 0 <= len /\ len <= BufBytes
  BY Sizes, FramingAssumption DEF FramingAssumption
<1>2. /\ q \in Int /\ r \in Int /\ k \in Int
      /\ 0 <= r /\ r < UsbBytes
      /\ len = UsbBytes * q + r
      /\ BufBytes = UsbBytes * k
  BY <1>1, SMT
<1>3. /\ UsbBytes * q \in Int /\ UsbBytes * (q + 1) = UsbBytes * q + UsbBytes
  BY <1>1, <1>2, SMT
<1>4. r # 0 => UsbBytes * q + UsbBytes <= BufBytes
  <2> SUFFICES ASSUME r # 0 PROVE UsbBytes * q + UsbBytes <= BufBytes
    OBVIOUS
  <2>1. UsbBytes * q < UsbBytes * k
    BY <1>1, <1>2, <1>3, SMT
  <2>2. q < k
    BY <1>1, <1>2, <2>1, SMT
  <2>3. UsbBytes * (q + 1) <= UsbBytes * k
    BY <1>1, <1>2, <2>2, SMT
  <2> QED BY <1>2, <1>3, <2>3
<1>5. Padded(len) = IF r # 0 /\ UsbBytes - r >= 2 THEN UsbBytes - r ELSE 0
  BY DEF Padded
<1>6. CASE r # 0 /\ UsbBytes - r >= 2
  <2>1. len + Padded(len) = UsbBytes * (q + 1)
    <3> HIDE DEF q, r
    <3> QED BY <1>1, <1>2, <1>3, <1>5, <1>6, SMT
  <2>2. (UsbBytes * (q + 1)) % UsbBytes = 0
    BY <1>1, <1>2, SMT
  <2> QED BY <1>1, <1>2, <1>3, <1>4, <1>6, <2>1, <2>2
<1>7. CASE ~(r # 0 /\ UsbBytes - r >= 2)
  <2>1. Padded(len) = 0
    BY <1>5, <1>7
  <2>2. r = 0 \/ r = UsbBytes - 1
    <3> HIDE DEF q, r
    <3> QED BY <1>1, <1>2, <1>7, SMT
  <2>3. len + Padded(len) = len
    BY <1>1, <2>1, SMT
  <2> QED BY <1>1, <2>2, <2>3
<1> QED BY <1>6, <1>7

LEMMA FramingInvariant == FramingSpec => []FramingInv
<1>1. FramingInit => FramingInv
  BY SMT DEF FramingInit, FramingInv, HostStaysInStep
<1>2. FramingInv /\ [FramingNext]_framingVars => FramingInv'
  <2> SUFFICES ASSUME FramingInv, [FramingNext]_framingVars PROVE FramingInv'
    OBVIOUS
  <2>0. /\ header \in Nat /\ header >= 4
        /\ compressed \in Int
        /\ compressed \in TwoByteNumber
    BY Sizes, SMTT(30) DEF FramingInv, TwoByteNumber
  <2>1. CASE FinishPacket
    <3>1. TwoByteVarint(compressed) = compressed
      BY <2>0, TwoBytesSuffice, Zenon
    <3> QED BY <2>0, <2>1, <3>1, SMT
          DEF FinishPacket, FramingInv, HostStaysInStep, FramingInit
  <2>2. CASE PadAndTransmit
    <3>1. /\ lengthPrefix = header + 4 + compressed
          /\ dataField = 4 + compressed
          /\ lengthPrefix \in Nat
      BY <2>0, <2>2, SMT DEF FramingInv, PadAndTransmit
    <3>2. /\ Padded(lengthPrefix) \in Nat
          /\ PadFieldOf(Padded(lengthPrefix)) = Padded(lengthPrefix)
      <4>1. Padded(lengthPrefix) \in Padding
        BY <3>1, PaddedRange, Zenon
      <4>2. PadFieldOf(Padded(lengthPrefix)) = Padded(lengthPrefix)
        BY <4>1, PadFieldFills, Zenon
      <4>3. Padded(lengthPrefix) \in Nat
        <5>1. \A p \in Padding : p \in Nat
          BY SMT DEF Padding
        <5> QED BY <4>1, <5>1, Zenon
      <4> QED BY <4>2, <4>3
    <3> QED BY <2>0, <2>2, <3>1, <3>2, SMT
          DEF PadAndTransmit, FramingInv, HostStaysInStep
  <2>3. CASE UNCHANGED framingVars
    BY <2>3 DEF framingVars, FramingInv, HostStaysInStep
  <2> QED BY <2>1, <2>2, <2>3 DEF FramingNext
<1> QED BY <1>1, <1>2, PTL DEF FramingSpec

\* Whatever the sizes of header and data, the host takes exactly the bytes
\* that were sent as one packet and parses its fields to its exact end
\* (input_quadspi.c:214-222, usb_thread.c:42-71).
THEOREM HostInStep == FramingSpec => []HostStaysInStep
<1>1. FramingInv => HostStaysInStep
  BY DEF FramingInv
<1> QED BY <1>1, FramingInvariant, PTL

\* Whatever the sizes of header and data, the padding field is written inside
\* of the buffer, and what is sent is whole USB packets or one byte less
\* (usb_thread.c:42-71).
THEOREM PaddingStaysInside == FramingSpec => []PaddingFits
<1>1. FramingInv => PaddingFits
  <2> SUFFICES ASSUME FramingInv, stage = "sent"
               PROVE  /\ sent <= BufBytes
                      /\ sent % UsbBytes \in {0, UsbBytes - 1}
    BY DEF PaddingFits
  <2> DEFINE len == header + 4 + compressed
  <2>1. len \in 0..BufBytes
    BY Sizes, SMT DEF FramingInv
  <2>2. sent = len + Padded(len)
    BY DEF FramingInv, HostStaysInStep
  <2> HIDE DEF len
  <2> QED BY <2>1, <2>2, PaddedFits
<1> QED BY <1>1, FramingInvariant, PTL
=============================================================================
