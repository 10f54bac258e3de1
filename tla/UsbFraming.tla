----------------------------- MODULE UsbFraming -----------------------------
(***************************************************************************)
(* How a digital packet is laid out in its buffer: the DigIn thread writes *)
(* a length prefix, protobuf header fields and the data field; the USB     *)
(* thread pads it to whole USB packets with one more field; the host takes *)
(* as many bytes as the prefix says and parses them field by field.        *)
(*                                                                         *)
(* A packet is the sizes of its parts in bytes.  For the last two fields   *)
(* the size is the one a parser gets from the tag and length it reads.     *)
(***************************************************************************)
EXTENDS Integers

CONSTANTS
    BufBytes,       \* DATABUF_BYTES: 16384
    UsbBytes,       \* bytes in a USB packet: 512
    HeaderBytes     \* bound: sizes of prefix and header fields

ASSUME FramingAssumption ==
    /\ BufBytes \in Nat /\ BufBytes <= 16384
    /\ UsbBytes \in 1..BufBytes /\ BufBytes % UsbBytes = 0
    /\ HeaderBytes \subseteq Nat
    /\ \A n \in HeaderBytes : n >= 4

VARIABLES
    stage,          \* "compressed", "queued" or "sent"
    header,         \* data_start_offset - 4: prefix and header fields
    compressed,     \* compressed_len
    lengthPrefix,   \* buf->data[0], once written
    dataField,      \* bytes a parser takes for the data field
    padField,       \* bytes a parser takes for the padding field
    sent            \* len of usbTransmit

framingVars ==
    <<stage, header, compressed, lengthPrefix, dataField, padField, sent>>

\* What a parser reads from the bytes {0x80 | (n & 0x7F), (uint8_t)(n >> 7)}.
\* With bit 7 of the second byte set the number would go on: -1.
TwoByteVarint(n) ==
    LET high == (n \div 128) % 256
    IN  IF high < 128 THEN (n % 128) + 128 * high ELSE -1

\* The compressor was given what header, tag and length leave of the buffer.
FramingInit ==
    /\ stage = "compressed"
    /\ header \in HeaderBytes
    /\ compressed \in {n \in 1..BufBytes : header + 4 + n <= BufBytes}
    /\ lengthPrefix = 0 /\ dataField = 0 /\ padField = 0 /\ sent = 0

\* DigIn: tag (2 bytes), length (2 bytes) and data, then the prefix.
FinishPacket ==
    /\ stage = "compressed"
    /\ stage' = "queued"
    /\ dataField' = 2 + 2 + TwoByteVarint(compressed)
    /\ lengthPrefix' = header + 4 + compressed
    /\ UNCHANGED <<header, compressed, padField, sent>>

\* (Mutant: only the tag and one byte of length are deducted.)
PadFieldNoVarint(padding) ==
    CASE padding < 2 -> 0
      [] padding = 2 -> 1 + 1 + 0
      [] padding > 2 -> 1 + 2 + TwoByteVarint(padding - 2)

\* usb_thread: a tag (1 byte) and a one-byte length 0, or a tag, a two-byte
\* length and as many bytes.  The bytes themselves are whatever the buffer held.
PadFieldOf(padding) ==
    CASE padding < 2 -> 0
      [] padding = 2 -> 1 + 1 + 0
      [] padding > 2 -> 1 + 2 + TwoByteVarint(padding - 3)

\* (Mutant: a missing byte is made up for as well, in the next USB packet.)
PaddedInNext(len) ==
    LET padding == UsbBytes - (len % UsbBytes)
    IN  IF len % UsbBytes = 0 THEN 0
        ELSE IF padding >= 2 THEN padding ELSE padding + UsbBytes

\* The length is adjusted exactly when a field is written: one missing byte
\* is left missing.
Padded(len) ==
    LET padding == UsbBytes - (len % UsbBytes)
    IN  IF len % UsbBytes # 0 /\ padding >= 2 THEN padding ELSE 0

PadAndTransmit ==
    /\ stage = "queued"
    /\ stage' = "sent"
    /\ padField' = PadFieldOf(Padded(lengthPrefix))
    /\ lengthPrefix' = lengthPrefix + Padded(lengthPrefix)
    /\ sent' = lengthPrefix'
    /\ UNCHANGED <<header, compressed, dataField>>

FramingNext == FinishPacket \/ PadAndTransmit

FramingSpec == FramingInit /\ [][FramingNext]_framingVars

-----------------------------------------------------------------------------
\* The host stays in step: what it takes for one packet is what was sent,
\* and the fields it parses end exactly where the packet does, so neither the
\* next prefix nor the padding field is ever read as something else.
HostStaysInStep ==
    stage = "sent" => /\ lengthPrefix = sent
                      /\ header + dataField + padField = sent
                      /\ dataField = 4 + compressed

\* The padding field is written into the buffer, not past it, and the transfer
\* is whole USB packets, or one byte less (a padding of one byte is impossible).
PaddingFits ==
    stage = "sent" => /\ sent <= BufBytes
                      /\ sent % UsbBytes \in {0, UsbBytes - 1}

\* What holds at each stage: the inductive invariant behind HostStaysInStep
\* and PaddingFits.
FramingInv ==
    /\ header \in HeaderBytes /\ compressed \in 1..BufBytes
    /\ header + 4 + compressed <= BufBytes
    /\ stage \in {"compressed", "queued", "sent"}
    /\ stage = "queued" => /\ lengthPrefix = header + 4 + compressed
                          /\ dataField = 4 + compressed
    /\ stage = "sent" =>
           LET len == header + 4 + compressed
           IN  lengthPrefix = len + Padded(len)
    /\ stage # "sent" => padField = 0
    /\ HostStaysInStep
=============================================================================
