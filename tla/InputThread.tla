---------------------------- MODULE InputThread ----------------------------
(***************************************************************************)
(* The thread "DigIn" (input_quadspi_thread): takes full buffers from the  *)
(* input queue, compresses them into output buffers, one packet each, and  *)
(* hands these to the USB thread's write queue.                            *)
(*                                                                         *)
(* A packet's contents are the sampleidx of its header and the words       *)
(* compressed into it.  How many words an output buffer takes depends on   *)
(* the data, so a call of snappy_compress may consume any number of them,  *)
(* some behind the end of the block included; the model fixes only that an *)
(* empty packet takes at least one.                                        *)
(***************************************************************************)
EXTENDS Capture

CONSTANTS
    PacketSize,     \* bound: words compressed into one packet
    Overread        \* most words read behind a block: 15 in snappy_compress

ASSUME PacketAssumption == PacketSize \in Nat \ {0} /\ Overread \in Nat

VARIABLES
    usbQueue,       \* g_usb_write_queue: packets to transmit, oldest first
    digPc,          \* where the thread is; "none" before it is created
    inputBuf,       \* input_buf
    inputIndex,     \* input_buf_index
    outputBuf,      \* output_buf
    sampleidx       \* words compressed so far

digVars == <<usbQueue, digPc, inputBuf, inputIndex, outputBuf, sampleidx>>

DigInit ==
    /\ usbQueue = <<>>
    /\ digPc = "none"
    /\ inputBuf = NULL /\ inputIndex = 0 /\ outputBuf = NULL
    /\ sampleidx = 0

DigTypeOK ==
    /\ usbQueue \in Seq(Buffers)
    /\ digPc \in {"none", "fetch", "allocate", "wait", "compress", "release",
                  "refill", "send"}
    /\ inputBuf \in Pointer /\ outputBuf \in Pointer
    /\ inputIndex \in 0..BlockSize + Overread
    /\ sampleidx \in Nat

DigAt(pc) == ThreadsRun /\ digPc = pc

\* Only the pool, the contents of buffers and the input queue are shared
\* with the capture side.
CaptureFrame == UNCHANGED <<current, next, entry, hwDest, qspi, cisr,
                            isrPc, captured, lost, times, commands>>

\* chThdCreateStatic in input_quadspi_start.
DigCreate ==
    /\ digPc' = "fetch"
    /\ UNCHANGED <<usbQueue, inputBuf, inputIndex, outputBuf, sampleidx>>

-----------------------------------------------------------------------------
\* Wait for a full buffer.  (A timeout of this wait only repeats it.)  Asked
\* for the domain of a null pointer, databuf_get_domain asserts.
DigFetch ==
    /\ DigAt("fetch")
    /\ inQueue # <<>>
    /\ inputBuf' = Head(inQueue) /\ inQueue' = Tail(inQueue)
    /\ inputIndex' = 0
    /\ digPc' = "allocate"
    /\ cpu' = AfterAssert(HasDomain(inputBuf'))
    /\ UNCHANGED <<free, memory, usbQueue, outputBuf, sampleidx>>
    /\ CaptureFrame

\* (Mutant: the buffer taken stays in the pool.)
TakeOutputStaysFree(b) ==
    /\ outputBuf' = b
    /\ free' = free
    /\ memory' = [memory EXCEPT ![b] = [first |-> sampleidx, data |-> <<>>]]
    /\ digPc' = "compress"

\* An output buffer, with the packet header written into it.
TakeOutput(b) ==
    /\ outputBuf' = b
    /\ free' = free \ {b}
    /\ memory' = [memory EXCEPT ![b] = [first |-> sampleidx, data |-> <<>>]]
    /\ digPc' = "compress"

\* databuf_allocate(DOMAIN_D1).  After a first failed attempt the thread waits
\* on the D1 pool for up to 10 ms and tries all pools again, for as long as it
\* takes.
DigAllocate ==
    /\ DigAt("allocate") \/ DigAt("wait")
    /\ \E b \in TryAllocate(free, "D1") :
        IF b = NULL
        THEN /\ digPc' = "wait"
             /\ UNCHANGED <<free, memory, outputBuf>>
        ELSE TakeOutput(b)
    /\ UNCHANGED <<inQueue, usbQueue, inputBuf, inputIndex, sampleidx, cpu>>
    /\ CaptureFrame

\* The words that snappy_compress finds behind the end of a block.
Stray == -1

\* snappy_compress consumes n words; if not all of the block, then because
\* the output buffer is full.  It may consume more: a match at the end of the
\* block is followed without regard to the word count (snappy_overread).
DigCompress ==
    /\ DigAt("compress")
    /\ LET packet == memory[outputBuf].data
           left   == BlockSize - inputIndex
       IN  \E n \in 0..left + Overread :
            /\ packet = <<>> => n > 0
            /\ Len(packet) + n <= PacketSize
            /\ memory' = [memory EXCEPT ![outputBuf].data = packet \o
                    [i \in 1..n |-> IF i <= left THEN memory[inputBuf].data[inputIndex + i]
                                    ELSE Stray]]
            /\ sampleidx' = sampleidx + n
            /\ inputIndex' = inputIndex + n
            /\ digPc' = IF n >= left THEN "release" ELSE "send"
    /\ UNCHANGED <<free, inQueue, usbQueue, inputBuf, outputBuf, cpu>>
    /\ CaptureFrame

\* (Mutant: the index into the block is not reset.)
DigReleaseKeepsIndex ==
    /\ DigAt("release")
    /\ free' = Released(free, inputBuf)
    /\ inputBuf' = NULL
    /\ digPc' = "refill"
    /\ UNCHANGED <<memory, inQueue, usbQueue, inputIndex, outputBuf, sampleidx, cpu>>
    /\ CaptureFrame

\* The block is used up: give its buffer back.
DigRelease ==
    /\ DigAt("release")
    /\ free' = Released(free, inputBuf)
    /\ inputBuf' = NULL /\ inputIndex' = 0
    /\ digPc' = "refill"
    /\ UNCHANGED <<memory, inQueue, usbQueue, outputBuf, sampleidx, cpu>>
    /\ CaptureFrame

\* (Mutant: the wait for another block never times out.)
DigRefillForEver ==
    /\ DigAt("refill")
    /\ inQueue # <<>>
    /\ inputBuf' = Head(inQueue) /\ inQueue' = Tail(inQueue)
    /\ digPc' = IF inputBuf' = NULL THEN "send" ELSE "compress"
    /\ UNCHANGED <<free, memory, usbQueue, inputIndex, outputBuf, sampleidx, cpu>>
    /\ CaptureFrame

\* Another block goes into the same packet if one arrives within 10 ms; the
\* result of the fetch is ignored, only the pointer is looked at.
DigRefill ==
    /\ DigAt("refill")
    /\ \/ /\ inQueue # <<>>
          /\ inputBuf' = Head(inQueue) /\ inQueue' = Tail(inQueue)
          /\ digPc' = IF inputBuf' = NULL THEN "send" ELSE "compress"
       \/ /\ inQueue = <<>>
          /\ digPc' = "send"
          /\ UNCHANGED <<inQueue, inputBuf>>
    /\ UNCHANGED <<free, memory, usbQueue, inputIndex, outputBuf, sampleidx,
                   cpu>>
    /\ CaptureFrame

\* (Mutant: the pointer is cleared before it is posted.)
DigSendNull ==
    /\ DigAt("send")
    /\ Len(usbQueue) < QueueSize
    /\ usbQueue' = Append(usbQueue, NULL)
    /\ outputBuf' = NULL
    /\ digPc' = IF inputBuf = NULL THEN "fetch" ELSE "allocate"
    /\ UNCHANGED <<free, memory, inQueue, inputBuf, inputIndex, sampleidx, cpu>>
    /\ CaptureFrame

\* Finish the packet; usb_thread_write waits while the write queue is full.
DigSend ==
    /\ DigAt("send")
    /\ Len(usbQueue) < QueueSize
    /\ usbQueue' = Append(usbQueue, outputBuf)
    /\ outputBuf' = NULL
    /\ digPc' = IF inputBuf = NULL THEN "fetch" ELSE "allocate"
    /\ UNCHANGED <<free, memory, inQueue, inputBuf, inputIndex, sampleidx,
                   cpu>>
    /\ CaptureFrame

DigIn == \/ DigFetch \/ DigAllocate \/ DigCompress
         \/ DigRelease \/ DigRefill \/ DigSend
=============================================================================
