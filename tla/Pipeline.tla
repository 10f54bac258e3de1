------------------------------ MODULE Pipeline ------------------------------
(***************************************************************************)
(* The capture pipeline: peripheral and MDMA channel, interrupt callback,  *)
(* DigIn thread, USB thread and shell command, which share the buffer pool *)
(* and two queues.  The scheduler interleaves the threads in any order;    *)
(* priorities only remove some of these orders.                            *)
(***************************************************************************)
EXTENDS UsbThread, SequencesExt

vars == <<free, captureVars, digVars, usbVars>>

Init == PoolInit /\ CaptureInit /\ DigInit /\ UsbInit

\* input_quadspi read-only, and with a rate and a mask
Read  == ReadInput /\ UNCHANGED <<digVars, usbVars>>
Start == StartCapture /\ DigCreate /\ UNCHANGED usbVars

Hardware == \/ BlockDone \/ BlockLost \/ TransferError \/ QspiDone

HardwareStep == Hardware /\ UNCHANGED <<digVars, usbVars>>
QspiIrqStep  == QspiIrq /\ UNCHANGED <<digVars, usbVars>>
IsrStep      == Isr /\ UNCHANGED <<digVars, usbVars>>
DigStep      == DigIn /\ UNCHANGED usbVars
UsbStep      == Usb

Next == Read \/ Start \/ HardwareStep \/ QspiIrqStep \/ IsrStep \/ DigStep \/ UsbStep

Spec == Init /\ [][Next]_vars

(* Interrupts are served and threads scheduled; the waits of a thread time *)
(* out; usbTransmit returns because the host polls or the device resets.   *)
(* Nothing is assumed of the peripheral, which may be idle for ever.       *)
Fairness ==
    /\ WF_vars(QspiIrqStep)
    /\ WF_vars(IsrStep)
    /\ WF_vars(DigStep)
    /\ WF_vars(UsbStep)

FairSpec == Spec /\ Fairness
-----------------------------------------------------------------------------
\* Every variable that names buffers or counts has its type.
TypeOK == PoolTypeOK /\ CaptureTypeOK /\ DigTypeOK /\ UsbTypeOK

\* Where a buffer can be: in the pool, or with one of seven holders.
Places == {"pool", "filling", "armed", "input", "reading", "writing",
           "output", "sending"}

\* Buffer b is in place p and nowhere else.  While the callback is between
\* its two steps the full buffer is in the input queue already, although
\* g_digital_input_current_buffer still names it.
IsAt(b, p) ==
    /\ b \in free <=> p = "pool"
    /\ (b = current /\ isrPc = "idle") <=> p = "filling"
    /\ b = next <=> p = "armed"
    /\ b \in ToSet(inQueue) <=> p = "input"
    /\ b = inputBuf <=> p = "reading"
    /\ b = outputBuf <=> p = "writing"
    /\ b \in ToSet(usbQueue) <=> p = "output"
    /\ b = usbBuf <=> p = "sending"

QueuedOnce(queue) == \A i, j \in DOMAIN queue :
                        queue[i] = queue[j] /\ queue[i] # NULL => i = j

(* No buffer is ever lost or shared: through every interleaving of the     *)
(* callback, the two threads and the pool, from databuf_try_allocate to    *)
(* databuf_release, each buffer is in exactly one place, and in a queue at *)
(* most once.                                                              *)
BuffersConserved ==
    /\ \A b \in Buffers : \E p \in Places : IsAt(b, p)
    /\ QueuedOnce(inQueue)
    /\ QueuedOnce(usbQueue)

(* While the channel writes into a buffer nobody can read it, write it or  *)
(* allocate it: what chMBPostI hands over, the channel has let go of.      *)
DmaExclusive ==
    hwDest # NULL =>
        hwDest \notin free \cup ToSet(inQueue) \cup ToSet(usbQueue)
                       \cup {inputBuf, outputBuf, usbBuf}

(* The callback ignores chMBPostI's result and usb_thread_write its own    *)
(* wait: neither queue is ever full when something is posted to it.        *)
PostsNeverFail ==
    /\ "BTIF" \in cisr => Len(inQueue) < QueueSize
    /\ digPc = "send" => Len(usbQueue) < QueueSize

\* No assertion fails: those of input_quadspi_read, input_quadspi_start and
\* databuf_get_domain.
NoAssertFailure == cpu = "running"

-----------------------------------------------------------------------------
(* The inductive invariant behind the properties above. *)

\* A thread holds a buffer exactly where its code says it does.
PointersOK ==
    /\ outputBuf # NULL <=> digPc \in {"compress", "release", "refill", "send"}
    /\ digPc \in {"none", "fetch", "refill"} => inputBuf = NULL
    /\ usbBuf # NULL <=> usbPc \in {"transmit", "release"}

\* Until the first start nothing has been set up.
BeforeStart ==
    qspi = "off" =>
        /\ current = NULL /\ next = NULL /\ hwDest = NULL /\ inQueue = <<>>
        /\ "BTIF" \notin cisr /\ isrPc = "idle" /\ digPc = "none"

\* The link entry names the armed buffer, and the channel is one block ahead
\* of the callback from the end of a block until the callback ends.
BlockEnded == "BTIF" \in cisr \/ isrPc = "advance"

ChannelOK ==
    /\ entry = next
    /\ "BTIF" \in cisr => isrPc = "idle" /\ current # NULL
    /\ hwDest \in {IF BlockEnded THEN next ELSE current, NULL}
    /\ NULL \notin ToSet(inQueue)

TypeInv == TypeOK /\ PointersOK /\ BeforeStart

\* The three parts are inductive together: what BuffersConserved needs of
\* input_quadspi_mdma_callback is that it and the channel agree (ChannelOK).
PipelineInv == TypeInv /\ ChannelOK /\ BuffersConserved

-----------------------------------------------------------------------------
(* The pipeline implements the sample stream. *)

Contents(queue) == [i \in DOMAIN queue |-> memory[queue[i]]]

\* The buffers whose packets are still to be sent.
Pending == IF usbPc = "transmit" THEN <<usbBuf>> \o usbQueue ELSE usbQueue

\* The blocks the callback has queued, those of them the thread has taken from
\* the queue, and of these the ones it has compressed to the end.
Posted  == IF "BTIF" \in cisr THEN captured - 1 ELSE captured
Fetched == Posted - Len(inQueue)
Partly   == inputBuf # NULL /\ inputIndex < BlockSize
Finished == IF Partly THEN Fetched - 1 ELSE Fetched

\* The samples compressed so far.
Consumed == Finished * BlockSize + (IF Partly THEN inputIndex ELSE 0)

\* The packet being written has a sample in it.
Begun == outputBuf # NULL /\ memory[outputBuf].data # <<>>

\* The samples in packets that have been handed to the USB thread, and the
\* words in them.
Packed  == IF Begun THEN memory[outputBuf].data[1] ELSE Consumed
Counted == IF Begun THEN memory[outputBuf].first ELSE sampleidx

Stream == INSTANCE SampleStream WITH
    packed   <- Packed,
    counted  <- Counted,
    pending  <- Contents(Pending),
    wire     <- wire

\* The packets the host receives hold the delivered samples, each once and in
\* order, and their numbers count the words sent, whatever the interleaving
\* of channel, callback and threads, and whichever buffers are reused for
\* what.  What stands between samples that follow each other, lost blocks in
\* "times" and words behind a block's end, is as SampleStream bounds it.
StreamSafe == Stream!Spec

(* The inductive invariant behind StreamSafe: what the buffers contain. *)

\* From the end of a block until its buffer is released, the buffer contains
\* the samples its place in the queue says.
InputsOK ==
    /\ "BTIF" \in cisr => memory[current] = Block(Posted)
    /\ \A i \in DOMAIN inQueue : memory[inQueue[i]] = Block(Fetched + i - 1)
    /\ inputBuf # NULL => memory[inputBuf] = Block(Fetched - 1)

\* sampleidx has run ahead of the samples by the words behind the blocks
\* finished, and input_buf_index is behind a block's end only until then.
ReadingOK ==
    /\ Finished \in Nat
    /\ sampleidx - Consumed \in 0..Finished * Overread
    /\ digPc \in {"allocate", "wait", "compress", "release"} => inputBuf # NULL
    /\ inputBuf # NULL => (Partly <=> digPc # "release")
    /\ digPc = "refill" => inputIndex = 0

\* The packet being written has the samples from its first one up to the last
\* compressed, and its header counts the words before it.
WritingOK ==
    outputBuf # NULL =>
        /\ memory[outputBuf] = [first |-> Counted, data |-> memory[outputBuf].data]
        /\ memory[outputBuf].data \in Seq(Int)
        /\ Counted \in Nat
        /\ Len(memory[outputBuf].data) = sampleidx - Counted
        /\ Packed \in 0..Consumed
        /\ Stream!Carries(memory[outputBuf].data, Packed, Consumed)
        /\ digPc \in {"release", "refill", "send"} => Packed < Consumed

\* The delivered blocks in the order of their capture.
TimesOK ==
    /\ Len(times) = captured
    /\ \A i \in DOMAIN times : times[i] < captured + lost

(* Through the merging of blocks into packets, the splitting of blocks     *)
(* over packets and the reading past their ends in input_quadspi_thread,   *)
(* every buffer's contents agree with the counters and with the buffer's   *)
(* place.                                                                  *)
StreamInv ==
    DOMAIN memory = Buffers /\ InputsOK /\ ReadingOK /\ WritingOK /\ TimesOK

\* Moreover every packet queued by usb_thread_write is eventually sent.
StreamLive == Stream!FairSpec

-----------------------------------------------------------------------------
(* Progress. *)

\* The DigIn thread waits for an output buffer while all others wait for it.
Starved ==
    /\ digPc = "wait"
    /\ free = {} /\ usbBuf = NULL /\ usbQueue = <<>>

\* Every captured block gets into packets and these to the USB thread, even
\* when no further block follows, unless the pool runs dry with nothing left
\* for the USB thread to release.
BlocksPacked ==
    \A n \in 1..MaxBlocks :
        captured >= n ~> (Packed >= n * BlockSize \/ Starved)

\* Once the channel has stopped and its last interrupt was served, the wait
\* for an output buffer ends if the USB thread has a buffer to release.
StoppedWaitEnds ==
    (/\ digPc = "wait" /\ hwDest = NULL /\ ~BlockEnded
     /\ (usbBuf # NULL \/ usbQueue # <<>>)) ~> digPc # "wait"

\* What the comment in databuf_allocate says: the processing thread waits
\* only until the USB thread frees up some buffers.
OutputWaitEnds == digPc = "wait" ~> digPc # "wait"
=============================================================================
