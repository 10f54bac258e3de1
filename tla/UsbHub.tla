------------------------------- MODULE UsbHub -------------------------------
(***************************************************************************)
(* Configuration of the USB hub chip over I2C at start-up (usb_hub.c): the *)
(* register block, three descriptor strings and the command that attaches  *)
(* the hub to the bus with what it was given.                              *)
(*                                                                         *)
(* A string is sent as one or two blocks of 16 characters to consecutive   *)
(* registers, so that a block may reach into the registers of the next     *)
(* string.  A character is <<string, position>>; it takes two registers.   *)
(***************************************************************************)
EXTENDS Integers, Sequences

CONSTANT StringLengths        \* bound: lengths of a string, at most 31 characters

ASSUME HubAssumption == StringLengths \subseteq 0..31

Strings == {"manufacturer", "product", "serial"}

Address == [manufacturer |-> 22, product |-> 84, serial |-> 146]   \* 0x16, ...

Zero == <<"zero", 0>>

VARIABLES
    len,            \* strlen of each string
    pending,           \* the I2C transfers still to make, in order
    regs,           \* the string registers of the chip
    configured,     \* the register block was received
    attached        \* the attach command was received

hubVars == <<len, pending, regs, configured, attached>>

\* A transfer: a block of a string, or one of the other two.
Block(s, number) == [what |-> s, number |-> number]
Registers == Block("registers", 0)
Attach    == Block("attach", 0)

\* write_string: a second block only for what does not fit into the first.
WriteString(s) == IF len[s] > 16 THEN <<Block(s, 0), Block(s, 1)>>
                                 ELSE <<Block(s, 0)>>

\* (Mutant: the product string comes last.)
TransfersProductLast ==
    <<Registers>> \o WriteString("manufacturer") \o WriteString("serial")
                  \o WriteString("product") \o <<Attach>>

Transfers ==
    <<Registers>> \o WriteString("manufacturer") \o WriteString("product")
                  \o WriteString("serial") \o <<Attach>>

\* What a block has at position k.  The second one is built in the same
\* array, in which the first one is still there.
BlockAt(b, k) ==
    IF b.number = 1 /\ k + 16 < len[b.what] THEN <<b.what, k + 16>>
    ELSE IF k < len[b.what] THEN <<b.what, k>> ELSE Zero

Start(b) == Address[b.what] + 32 * b.number

\* The string registers after the chip received a transfer.  The register
\* block has 32 bytes and zeroes the first ten of them.
RegsWith(b) ==
    [a \in DOMAIN regs |->
        IF b = Registers /\ a < 32 THEN Zero
        ELSE IF b.what \in Strings /\ a \in Start(b)..(Start(b) + 31)
             THEN BlockAt(b, (a - Start(b)) \div 2)
             ELSE regs[a]]

HubInit ==
    /\ len \in [Strings -> StringLengths]
    /\ regs = [a \in {n \in 22..207 : n % 2 = 0} |-> Zero]
    /\ pending = Transfers
    /\ configured = FALSE /\ attached = FALSE

\* What the chip does with a transfer it receives.
Received(transfer) ==
    /\ regs' = RegsWith(transfer)
    /\ configured' = (configured \/ transfer = Registers)
    /\ attached' = (attached \/ transfer = Attach)

\* status = status && ...: after a failure nothing more is sent.
GoOn(ok) == IF ok THEN Tail(pending) ELSE <<>>

\* i2cMasterTransmitTimeout.  A transfer that fails, or whose answer is late,
\* may have been received all the same.
Transmit ==
    /\ pending # <<>>
    /\ \/ Received(Head(pending)) /\ pending' = GoOn(TRUE)
       \/ Received(Head(pending)) /\ pending' = GoOn(FALSE)
       \/ UNCHANGED <<regs, configured, attached>> /\ pending' = GoOn(FALSE)
    /\ UNCHANGED len

-----------------------------------------------------------------------------
\* A hub that attaches to the bus has its registers and every character of
\* the three strings: a string's second block never damages another string,
\* and a failed transfer is never passed over.
AttachedConfigured ==
    attached => /\ configured
                /\ \A s \in Strings : \A k \in 0..(len[s] - 1) :
                        regs[Address[s] + 2 * k] = <<s, k>>
=============================================================================
