------------------------------ MODULE Capture ------------------------------
(***************************************************************************)
(* Digital capture up to the input queue: input_quadspi_start, the QuadSPI *)
(* peripheral and its interrupt, the MDMA channel that moves samples into  *)
(* buffers, and the MDMA interrupt callback that queues full buffers and   *)
(* arms the next one (input_quadspi.c, mdma.c).                            *)
(*                                                                         *)
(* The channel and the callback run concurrently: the channel loads its    *)
(* next destination from the one link entry in memory the moment a block   *)
(* ends, and only then raises the interrupt whose handler rewrites that    *)
(* entry.  The callback takes two steps so that the channel may act        *)
(* between them.  Threads cannot: the interrupt preempts them.             *)
(*                                                                         *)
(* Samples are named by numbers in the order of delivery, BlockSize to a   *)
(* block; "times" records when each delivered block was captured, counted  *)
(* in blocks.  (The few dozen samples that QspiIrq loses within a block    *)
(* are not counted.)  A buffer's contents are a number for its header and  *)
(* the words in it.                                                        *)
(***************************************************************************)
EXTENDS Databuf, Sequences

CONSTANTS
    BlockSize,      \* samples in a full buffer
    QueueSize,      \* DATABUF_COUNT, the slots of each mailbox
    MaxBlocks,      \* bound: blocks delivered in one behaviour
    MaxLost,        \* bound: up to here blocks captured over are counted
    MaxCommands,    \* bound: input_quadspi shell commands in one behaviour
    IsrShort        \* TRUE: once begun, the callback ends before another block

ASSUME CaptureAssumption ==
    /\ BlockSize \in Nat \ {0}
    /\ QueueSize \in Nat
    /\ MaxBlocks \in Nat
    /\ MaxLost \in Nat
    /\ MaxCommands \in Nat
    /\ IsrShort \in BOOLEAN

\* DATABUF_COUNT is 64; the four arrays of databuf.c hold 3+31+18+4 buffers.
ASSUME QueueAssumption == Cardinality(Buffers) <= QueueSize

VARIABLES
    memory,         \* what each buffer contains
    inQueue,        \* g_digital_input_queue: filled buffers, oldest first
    current,        \* g_digital_input_current_buffer
    next,           \* g_digital_input_next_buffer
    entry,          \* g_digital_input_mdma_entry.CDAR, NULL when zeroed
    hwDest,         \* where the channel writes, NULL when it has stopped
    qspi,           \* QuadSPI: "off", "busy", or "done" until re-armed
    cisr,           \* CISR: the channel's interrupt flags
    isrPc,          \* the callback: not running, or between its two steps
    captured,       \* blocks completed and not captured over: delivered
    lost,           \* blocks captured over, as far as they are counted
    times,          \* history: the time of each delivered block
    commands,       \* input_quadspi shell commands run
    cpu             \* "aborted" once an assert failed: abort() never returns

captureVars == <<memory, inQueue, current, next, entry, hwDest, qspi, cisr,
                 isrPc, captured, lost, times, commands, cpu>>

Block(n) == [first |-> n * BlockSize,
             data  |-> [i \in 1..BlockSize |-> n * BlockSize + i - 1]]

\* A buffer the channel is writing into: some mixture of old and new samples.
Torn == [first |-> -1, data |-> [i \in 1..BlockSize |-> -1]]

CaptureInit ==
    /\ memory = [b \in Buffers |-> Torn]
    /\ inQueue = <<>>
    /\ current = NULL /\ next = NULL /\ entry = NULL /\ hwDest = NULL
    /\ qspi = "off"
    /\ cisr = {}
    /\ isrPc = "idle"
    /\ captured = 0 /\ lost = 0 /\ times = <<>>
    /\ commands = 0
    /\ cpu = "running"

\* (What buffers contain is the subject of Pipeline's StreamSafe.)
CaptureTypeOK ==
    /\ inQueue \in Seq(Pointer)
    /\ current \in Pointer /\ next \in Pointer
    /\ entry \in Pointer /\ hwDest \in Pointer
    /\ qspi \in {"off", "busy", "done"}
    /\ cisr \subseteq {"BTIF", "TEIF"}
    /\ cpu \in {"running", "aborted"}
    /\ isrPc \in {"idle", "advance"}
    /\ captured \in Nat /\ lost \in Nat /\ commands \in Nat
    /\ times \in Seq(Nat)

-----------------------------------------------------------------------------
\* A thread runs when no interrupt handler does and the system is alive.
ThreadsRun == isrPc = "idle" /\ cpu = "running"

AfterAssert(condition) == IF condition THEN "running" ELSE "aborted"

\* config_next_buffer: the link entry describes a whole block into buf, and
\* links to itself, so that the channel will load it again.
ConfigNextBuffer(buf) == entry' = buf

\* Without a link or a length the channel stops when it loads the entry.
ZeroEntry == entry' = NULL

(* The shell command input_quadspi. *)

\* input_quadspi_read asserts that the peripheral is not busy.  (The QuadSPI
\* interrupt preempts every thread, so no command runs in state "done".)
ReadAsserts == qspi = "busy"

\* Without a rate and a mask the command only reads the pins.
ReadInput ==
    /\ ThreadsRun /\ qspi # "done"
    /\ commands < MaxCommands
    /\ commands' = commands + 1
    /\ cpu' = AfterAssert(~ReadAsserts)
    /\ UNCHANGED <<free, memory, inQueue, current, next, entry, hwDest, qspi,
                   cisr, isrPc, captured, lost, times>>

\* With them it reads the pins and then runs input_quadspi_start.  Nobody
\* else uses the queue or the pools before its last statement sets the
\* peripheral going: the channel is loaded with the first buffer, the link
\* entry holds the second.
StartCapture ==
    /\ ThreadsRun /\ qspi # "done"
    /\ commands < MaxCommands
    /\ ~ReadAsserts
    /\ commands' = commands + 1
    /\ \E first \in TryAllocate(free, "CPU") :
       \E second \in TryAllocate(free \ {first}, "CPU") :
        /\ cpu' = AfterAssert(NULL \notin {first, second})
        /\ free' = free \ {first, second}
        /\ current' = first /\ hwDest' = first
        /\ next' = second /\ ConfigNextBuffer(second)
    /\ inQueue' = <<>>
    /\ cisr' = {}
    /\ qspi' = "busy"
    /\ UNCHANGED <<memory, isrPc, captured, lost, times>>

-----------------------------------------------------------------------------
(* The peripheral and the MDMA channel. *)

\* The channel ends a block, loads the link entry and raises its interrupt.
\* An entry of zeroes (length and link) leaves it stopped.
BlockDone ==
    /\ cpu = "running" /\ qspi = "busy" /\ hwDest \notin {NULL, entry}
    /\ captured < MaxBlocks
    /\ memory' = [b \in Buffers |-> CASE b = entry  -> Torn
                                      [] b = hwDest -> Block(captured)
                                      [] OTHER      -> memory[b]]
    /\ captured' = captured + 1
    /\ times' = Append(times, captured + lost)
    /\ hwDest' = entry
    /\ cisr' = cisr \cup {"BTIF"}
    /\ UNCHANGED <<free, inQueue, current, next, entry, qspi, isrPc, lost,
                   commands, cpu>>

\* When the callback has not yet rewritten the entry the channel is using, the
\* channel loads the same one again and captures the next block over this one.
\* The flag is set already, unless the callback has just cleared it.
BlockLost ==
    /\ cpu = "running" /\ qspi = "busy" /\ hwDest # NULL /\ hwDest = entry
    /\ IsrShort => isrPc = "idle"
    /\ lost' = IF lost < MaxLost THEN lost + 1 ELSE lost
    /\ memory' = [memory EXCEPT ![hwDest] = Torn]
    /\ cisr' = cisr \cup {"BTIF"}
    /\ UNCHANGED <<free, inQueue, current, next, entry, hwDest, qspi, isrPc,
                   captured, times, commands, cpu>>

\* A bus error disables the channel.
TransferError ==
    /\ cpu = "running" /\ hwDest # NULL
    /\ hwDest' = NULL
    /\ cisr' = cisr \cup {"TEIF"}
    /\ UNCHANGED <<free, memory, inQueue, current, next, entry, qspi, isrPc,
                   captured, lost, times, commands, cpu>>

\* The peripheral's own transfer count runs out after 4 GB ...
QspiDone ==
    /\ cpu = "running" /\ qspi = "busy"
    /\ qspi' = "done"
    /\ UNCHANGED <<free, memory, inQueue, current, next, entry, hwDest, cisr,
                   isrPc, captured, lost, times, commands, cpu>>

\* ... and its interrupt, above all others, starts it again.
QspiIrq ==
    /\ cpu = "running" /\ qspi = "done"
    /\ qspi' = "busy"
    /\ UNCHANGED <<free, memory, inQueue, current, next, entry, hwDest, cisr,
                   isrPc, captured, lost, times, commands, cpu>>

-----------------------------------------------------------------------------
(* input_quadspi_mdma_callback, called by the MDMA interrupt handler for as *)
(* long as a flag of the channel is set.                                    *)

\* Clear the flag and queue the full buffer; chMBPostI's result is ignored.
IsrPost ==
    /\ cpu = "running" /\ isrPc = "idle" /\ "BTIF" \in cisr
    /\ cisr' = cisr \ {"BTIF"}
    /\ inQueue' = IF Len(inQueue) < QueueSize THEN Append(inQueue, current)
                                              ELSE inQueue
    /\ isrPc' = "advance"
    /\ UNCHANGED <<free, memory, current, next, entry, hwDest, qspi,
                   captured, lost, times, commands, cpu>>

\* (Mutant: when no buffer is free the link entry is not zeroed.)
IsrAdvanceEntryKept ==
    /\ cpu = "running" /\ isrPc = "advance"
    /\ current' = next
    /\ \E b \in TryAllocate(free, "CPU") :
        /\ next' = b
        /\ IF b = NULL THEN UNCHANGED entry ELSE ConfigNextBuffer(b)
        /\ free' = free \ {b}
    /\ isrPc' = "idle"
    /\ UNCHANGED <<memory, inQueue, hwDest, qspi, cisr, captured, lost, times, commands, cpu>>

\* Move on to the next buffer, and write another one, or zeroes if there is
\* none, into the link entry.
IsrAdvance ==
    /\ cpu = "running" /\ isrPc = "advance"
    /\ current' = next
    /\ \E b \in TryAllocate(free, "CPU") :
        /\ next' = b
        /\ IF b = NULL THEN ZeroEntry ELSE ConfigNextBuffer(b)
        /\ free' = free \ {b}
    /\ isrPc' = "idle"
    /\ UNCHANGED <<memory, inQueue, hwDest, qspi, cisr, captured,
                   lost, times, commands, cpu>>

\* A transfer error is logged and its flag cleared.
IsrError ==
    /\ cpu = "running" /\ isrPc = "idle" /\ "TEIF" \in cisr
    /\ cisr' = cisr \ {"TEIF"}
    /\ UNCHANGED <<free, memory, inQueue, current, next, entry, hwDest, qspi,
                   isrPc, captured, lost, times, commands, cpu>>

Isr == IsrPost \/ IsrAdvance \/ IsrError
=============================================================================
