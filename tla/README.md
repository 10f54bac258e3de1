# Verification of the DECurrent firmware

TLA+ modules for the firmware of the DECurrent logic analyzer (`src/src`), an
STM32H7 running ChibiOS: what the modules model, what TLC checks on small
instances, what TLAPS proves for all sizes, and where the code does something
other than its own comments say.

Check a run with `tlc -config <run>.cfg <module>.tla`, a proof with
`tlapm <module>.tla`. `PROJECT.json` lists the runs, the lines each definition
translates, the hazards and the theorems.

## 1. The system

Digital samples go through the firmware like this:

    QuadSPI --> MDMA channel --> buffer --> input queue --> DigIn thread
                   ^                                          | compresses
                   | link entry                               v
             MDMA callback  <----- buffer pool <-----   output buffer
                                        ^                     |
                                        |                write queue
                                        +---- USB thread <----+
                                                  |
                                                  v  packets, idle status
                                                 host

| Component | Source | State | Operations | Module |
|---|---|---|---|---|
| Buffer pool | `databuf.c` | four pools of free 16 KB buffers, one per memory domain | try-allocate, blocking allocate, release | `Databuf` |
| Digital capture | `input_quadspi.c`, `mdma.c` | `current`/`next` buffer, link entry, input queue, channel and QuadSPI registers | start, read, end of a block, callback, re-arm interrupt, transfer error | `Capture` |
| DigIn thread | `input_quadspi.c` | `input_buf`, its index, output buffer, `sampleidx` | fetch, allocate, compress, release, merge another block, post | `InputThread` |
| USB thread | `usb_thread.c` | write queue, buffer in transmission | fetch, transmit, release, idle status | `UsbThread` |
| Packet framing | `input_quadspi.c`, `usb_thread.c` | bytes of a packet | length prefix, field lengths, padding | `UsbFraming` |
| Compressor | `snappy32.c` | write position, history, length so far | init, compress, finish | `Snappy32` |
| Debug log | `debug.c` | ring of 4096 bytes, write position; processor load | dbg, abort, dmesg; idle loop, get_cpu_usage | `DebugLog`, `CpuUsage` |
| USB hub | `usb_hub.c` | registers of the hub chip | configuration over I2C | `UsbHub` |
| Start-up, USB events, shell thread | `main.c`, `usb_thread.c`, `usbcfg.c` | USB state, serial port, shell thread | start, poll, release; reset, configured, suspend, wake-up | `Console` |
| Shell commands | `shell_cmds.c` | sample rate | input_quadspi, dmesg, reboot, exit; others read or write a register | `Console`, `Pipeline` |
| CIC filters | `cic_filter.c` | integrators, combs, phase; stages | downsample32/64; choose_factors, downsampleX | `CicFilter`, `CicChain` |
| Huffman, deflate | `huffman.c`, `deflate.c` | heap, tree, code lengths, codes; bit stream, cache of codes | make an alphabet; start, compress, end a block | `BitStream`, `Huffman`, `Deflate`; `Rfc1951`, `Inflate`, `Decompressed` |
| Others | see section 7 | | | not modelled |

The parts of the pipeline (the first five rows) run concurrently: the MDMA channel
in hardware, two interrupt handlers, two threads and the shell thread. They
share the pool, two ChibiOS mailboxes, one link entry in memory that the channel
reads by itself, and the contents of the buffers.

**What is hard.** The channel loads its next destination from the link entry the
moment a block ends, and only then the callback rewrites that entry. The
callback must keep two buffers ahead of itself, stop the channel cleanly when
the pool is empty, and posts without looking at the result. Buffers change hands
six times before they are free again. The DigIn thread merges blocks into a
packet under a timeout. USB transfers fail. The compressor trades bounds checks
for speed. The log is printed while it is written, to a port that the host may
close at any byte. The shell thread ends and is started again in the same memory
while USB events come and go. The deflate encoder makes its code by a heap and a
loop of corrections, and joins codes in a cache that is never initialized.

**What makes it correct.** No buffer is lost or shared (`BuffersConserved`);
nobody touches the buffer the channel writes (`DmaExclusive`); no queue is full
when posted to (`PostsNeverFail`); the host gets every delivered sample once and in order
(`StreamSafe`); what is captured is sent (`StreamLive`,
`BlocksPacked`); what is compressed can be decompressed (`RoundTrip`) and stays in
its buffer (`StoresInBuffer`); the byte stream can be split into packets again
(`HostStaysInStep`). Around it: the hub is attached only when it is configured
(`AttachedConfigured`), a configured device gets a shell again and again
(`ShellComesBack`) and one whose port is gone is released (`ShellReleased`), the log
is printed in order (`NewestInOrder`), and what deflate writes inflates to its input
(`InflatesToInput`).

## 2. Modules

### The pipeline

`Databuf`, `Capture`, `InputThread` and `UsbThread` extend one another and each
add the variables of one component; `Pipeline` puts their actions together.
`MCPipeline` gives the instance for TLC.

- **Databuf**: `free` is the union of the four pools; which buffer of a pool an
  allocation returns is left open. Allocation and release are atomic since the
  code runs them with interrupts disabled. `TryAllocate` has the fallback order
  preferred domain, D1, D2, D3 (so the CPU pool serves only who prefers it).
- **Capture**: `hwDest` is the channel's current destination, `entry` the link entry in memory.
  `BlockDone` is the hardware: it finishes the block, loads `entry` and raises BTIF. If the
  callback has not moved on since the last block, the channel is in the buffer that `entry`
  names, and loads it again: this block is lost (`BlockLost`), as often as the callback is
  late. `times` records when each delivered block was captured, so that a lost one shows as a
  gap. The callback is `IsrPost` (acknowledge, queue the full buffer) and `IsrAdvance`
  (advance, allocate, rewrite the entry); the channel may act between the two, threads may not.
  A full buffer contains numbered samples in the order of delivery; a buffer the channel is
  writing into contains garbage (`Torn`), so that reading it too early is visible. A failed
  `assert` sets `cpu` to "aborted" and nothing runs after it, as in `abort()`.
- **InputThread**: the thread's program counter `digPc` stands at each call that may block or
  touches shared state. `TakeOutput` writes the packet header, with the `sampleidx` of that
  moment. `DigCompress` consumes any number of words that fits, up to `Overread` of them from
  behind the end of the block (`Stray` words, see finding 3), and `input_buf_index` and
  `sampleidx` go on by as many; `DigRefill` either gets another block or times out.
- **UsbThread**: `UsbTransmit` succeeds or fails; the buffer is released either
  way. `UsbIdle` is the 100 ms timeout.
- **SampleStream** is the abstract specification: blocks are delivered with gaps in their
  times, their samples are packed into packets, each once and in order, and each packet is
  received or lost. A packet's number counts the words in the packets before it; behind the
  last sample of a block there may be up to `Overread` words that are no samples. This is
  what the code does, and less than a running index of samples (section 6).
  `Pipeline!Stream` instantiates it with the refinement mapping (`packed` is the number of
  samples compressed, and `counted` is `sampleidx`, or either at the start of the packet still
  being filled; `pending` is the
  contents of the queued buffers *at the time*, so that any reuse of a queued
  buffer breaks the refinement).

### The compressor

**Snappy32** takes one step per loop iteration of `snappy_compress` and one per
call and return. Elements are a literal block, or a copy with a distance and a
number of words; of their bytes the count is kept, for the bounds. A decoder
that knows the Snappy format only runs along, one word a step (`DecodeWord`).
`data` includes what lies behind the input in memory, because the code reads it;
the history is never initialized, so `Init` lets it hold anything. Its entries are 16 bits
wide (`HistoryLimit`), and so is the byte offset of a copy (`OffsetLimit` words): `Remember`
and `WriteCopy` keep what is left of a number there. The copy length 16, literal length 15,
delta 512, these widths and the 21-bit length are constants, so that
TLC reaches them with small values and the proofs cover the real ones. `RoundTrip` is about
calls that stay within the offset (`ShortCalls`).

### The others

- **UsbFraming**: sizes of the parts of one packet. `TwoByteVarint` is what a
  protobuf parser reads from the two bytes the firmware writes by hand, which is
  not always the number they were made from.
- **CicFilter**: samples taken one at a time (`Slow`) or six at a time (`Fast`).
  With `FastLoop` it is `downsample32`, without it `downsample64`. `Comb` is the
  macro as the compiler sees it, with its argument evaluated twice.
- **CicChain**: `choose_factors` takes one step per factor. Where it tests an entry of
  its local array that it has not written, the value is any member of `Garbage`.
  The stages of `downsampleX` then run over one buffer, a sample a step. A sample
  stands for the number of input samples up to it.
- **CpuUsage**: the idle thread stands at each statement that reads or writes what
  `get_cpu_usage` reads too. Others preempt it anywhere; it preempts nobody, which is why
  `GetCpuUsage` is one step. Loads are floats in the code: `Raised` and `Decayed` give the set
  of results that a sum with an error of up to `Error` may have (`FloatSum`), of which only is
  assumed that rounding is monotonic, and `Percents` cuts off what follows the point. `busy` is
  the work of others that the estimate does not contain yet, `later` the part of it since the
  counter was read; `shown` records both with each load that is read.
- `MCMeasures` is an instance of the last three, which share no state: a behaviour is
  of one of them.

### The console

**Console** is the device as seen from the host's terminal, from reset on. It extends
`DebugLog` and `UsbHub` and adds main, the USB driver, the shell thread and the sample
rate.

- **DebugLog**: the n-th byte ever logged is the number n. Appending a message is
  one step (it is done with the system locked), printing takes one step per byte.
  `DropPart` is a stream that was closed: `streamWrite` returns early, and dmesg
  goes on with the other part of the ring.
- **UsbHub**: the transfers still to make and the registers as the chip has them.
  A transfer is received and acknowledged, received but reported as failed, or
  not received.
- `main` is the program counter of main. `Poll` and `Release` are the two halves of
  `usb_thread_poll`; the shell, whose priority is higher, may run between them.
- `HostResets`, `HostSuspends`, ... are what the driver does on the bus, each with
  what `usb_event` makes of it in the same step, as it runs in the interrupt.
  A closed port wakes a thread that waits for it (`Disturb`), and the thread sees
  this when it runs, even if the port has been opened again by then.
- `CmdInputQuadspi` starts a capture, and as nothing stops it, the next such command fails
  the assertion of `input_quadspi_read`: `cpu` is "aborted" and only the host's side of the
  bus goes on. (`Running` guards every step of the firmware.)
- `CmdReboot` is a reset in the middle of anything: static variables start from
  zero, the hub keeps its registers until `ResetHub` pulls its reset line.

### The deflate encoder

- **BitStream**: a code is the sequence of its bits in the order they are sent. A machine word
  is a function from bit positions, with `Or` and the two shifts defined on these. `Put`
  is `bitstream_write` in these terms, its shift by a negative count included (`ShiftCount`: the
  processors the tests are built for take counts modulo 32), and `HasRoom` its result.
  `Contents` reads back what has been written.
- **Huffman**: `Inserted` and `Removed` are the heap; an entry that moves is described
  by the entries it meets on its way (`SiftUp`, `SiftDown`). `InsertLeaf`, `Combine` and
  `Balance` are one iteration each of the loops that fill the heap, that join two nodes
  of the tree, and that make room for the codes that were cut; `MeasureLengths` cuts the
  depths at the maximum, and `AssignBitstrings` gives the codes. `huffman_write_alphabet`
  describes a run of equal lengths a step (`DescribeLengths`, `DescribeDistances`); the
  codes of the description wait in `unwritten` until they are written.
- **Deflate**: an iteration of the loop of `deflate_compress` is one of
  `CompressRepeat`, `CompressCached` and `CompressWord`. `StartBlock` begins the block,
  and `WriteCode` writes one code of the alphabet. `CreateAlphabet` is another caller, as
  in the unit tests, with counts of its own. The preprocessor is any idempotent function,
  as `deflate.h` asks.
- **Rfc1951** has what the format says of codes and of lengths of repetitions, and
  **Inflate** is a decoder of one block, both from RFC 1951 and not from this code. Neither
  shares a table with the encoder. `Sums` has sums as recursive functions, so that there can
  be proofs about the modules that use them.
  **Decompressed** has the properties that read with it what the encoder wrote.
  `MCDeflate` gives the instance.

Definitions whose comment begins with "(Mutant: ...)" are variants of the
definition after them with a plausible bug. No specification uses them; with one
of them in place of the original, the property they are listed with in
`PROJECT.json` fails, which shows that the property depends on that code.

## 3. Runs

### Pipeline

The instance: one CPU buffer, two in D1 and one in D2, and mailboxes with four slots.
Start-up takes the CPU buffer and one of D1; from the third block on, callback and
DigIn thread compete for the rest, and with a slow thread the pool is empty when the third
block ends. With a fast one the channel goes on, for the fourth block, into a buffer that
has been used before, while packets are still on their way.

| Run | Properties | Bounds | Shows |
|---|---|---|---|
| `pipeline_safety` | StreamInv, PipelineInv, TypeOK, BuffersConserved, DmaExclusive, PostsNeverFail, NoAssertFailure, StreamSafe | 3 blocks of 2 samples, packets of 3 words, up to 1 word read past a block, lost blocks, 1 command | no interleaving loses or shares a buffer, fills a queue or fails an assertion; the pipeline implements `SampleStream` |
| `pipeline_live` | StreamLive, BlocksPacked, StoppedWaitEnds | the same without words read past a block, fairness | everything captured is packed and sent, unless the pool is starved |
| `pipeline_starved` | OutputWaitEnds fails | as `pipeline_live` | finding 1 |
| `pipeline_twice` | NoAssertFailure fails | 2 commands | finding 2 |

With packets of three words and blocks of two a packet takes more than a block and a block
more than a packet. Lost blocks are possible in every run, as often as the callback is late;
`MaxLost` bounds how many are counted in `times`, from which on times still increase.

`pipeline_safety` and `pipeline_twice` treat the two D1 buffers as symmetric; the
runs with liveness do not. With one command only, a capture is started at most
once: what a second command does is the subject of `pipeline_twice`. All runs have
`IsrShort = TRUE` (see section 5): the callback may begin any number of blocks late.

`BlocksPacked` and `StoppedWaitEnds` have an escape for starvation, because
`pipeline_starved` shows that it happens.

### Compressor and framing

| Run | Properties | Bounds | Shows |
|---|---|---|---|
| `packets` | SnappyInv, RoundTrip, StoresInBuffer, HostStaysInStep, PaddingFits | compression: 2 words, 2 calls of 1, 2 or 10 words, longest copy 3 words, longest literal block 2, stale history, two buffer sizes; framing with real sizes: 16384 and 512 bytes, three header sizes, every data length | decompression gives back what was consumed, through all branches and over several calls; no store leaves the buffer; framing is right for every length there is |
| `snappy_overread` | ConsumedInInput fails | compression as in `packets` | finding 3 |

Compression and framing share no state: a behaviour of `MCPackets` is of one of them.
In `packets` ten words are enough for the inner loop of long runs (three copies
of the longest length), and the smaller buffer is full in the middle of it. A
second call finds the history of the first, and the stale entries 0 and 7 point to
an earlier word that may be equal or not, and ahead of the current one. Positions in the
history wrap at 8, so that the last two words of a call are remembered as its first ones;
offsets reach back 9 words, which is what calls of 10 need. (In the code these are 65536 and
16383 words, and calls have 4096.) 10 + 10
words would exceed the limit of the length (13 here), so that the refusal is
reached too.

### Console and log

| Run | Properties | Bounds | Shows |
|---|---|---|---|
| `console` | AttachedConfigured, NewestInOrder, NeverStale, RateReported, ShellComesBack, ShellReleased | ring of 4, messages of 1 and 3 bytes, 8 bytes in all, wrap at 12; seven lengths for each of three strings; rates of 0, 60 MHz and 100 Hz; fairness | no half-configured hub is attached; what dmesg prints is in order and current; the shell comes back, unless a second capture command halts the processor, and is released; the rate reported is the one clocked |
| `log_overread` | StaysInLog fails | ring of 4, position wraps at 12 | finding 4 |

Every combination of string lengths goes through the hub. Only the one that `usb_hub.c`
has goes on from there, to a reboot and the hub again, as the lengths make no
difference to anything else. 8 bytes fill the ring twice, so that a message is
printed while it is overwritten, across the end of the ring. The rates reach both
ends of the divider (0 divides by zero, which gives 0 on this processor) and an odd
one between, with the real clock tree.

### Deflate

| Run | Properties | Bounds | Shows |
|---|---|---|---|
| `deflate` | TypeOK, LengthsOptimal, LightestCombined, KraftHolds, PrefixFree, CodesCanonical, LengthCodesAgree, DescribesLengths, DeflateLengths, CacheValid, InflatesToInput | 18 symbols, codes of up to 7 bits, words of 18; 4 words in 2 cache entries; buffers of 13 and 40 words; five samples to make an alphabet from, twelve sets of counts; two calls; a preprocessor that masks the lowest bit of each byte | the lightest trees are combined; code lengths are optimal where nothing is cut, and those of a prefix code where symbol 0 occurs; the codes are those a decoder makes from the lengths where none has the greatest length, as none of `deflate_init` has; a decoder reads the lengths and the words back; stale cache entries never match |
| `deflate_overrun` | StaysInBuffer fails | runs of 119 equal words, a buffer of 14 words | finding 6 |

Fibonacci numbers as counts make the deepest tree there is, deeper than the greatest length, so
that the loop of corrections runs; only counts of the caller's own do this, and they end with
the alphabet. The counts of `deflate_init` go on to compress. `DeflateLengths` says that none
of them gives a code of the greatest length, which takes counts that add up to 34 in the
instance and to 1597 in the code. `MCLopsided` is the sample that comes closest: as many words
as are ever sampled, of five symbols only, with counts that add up to 33 and a code of 6 of the
7 bits (in the code, 256 samples add up to 1558 at most). With twice as many samples, which is
its mutant, there is one of 7. Inputs have repetitions longer than one copy may be, words that
share a cache entry, and words that the preprocessor changes. The smaller buffer is full in the
first call. `InflatesToInput` is about blocks that fit into the buffer.

### Measures

| Run | Properties | Bounds | Shows |
|---|---|---|---|
| `measures` | OutputsOnTime, RunningSums, ExactRate, ChainOnTime, LoadShown | filter: calls of 1, 4 or 7 samples of two values, up to 13, words of 4 bits; chain: calls of 1, 5 or 9, up to 31, rates of 1 to 16 and eight more, factors up to 4 and 6, four values of garbage; load: a second of 16 cycles, threshold 4, counter of 20, loads of 0 to 201 with errors of 1 | outputs at the right samples across calls, loops and stages; the first two integrators, including wrap-around; factors and what is left multiply to the rate, and no stage could have done more of it; the load is a percentage and misses work only while it is being updated |
| `cic_gain` | GainAsStated fails | constant input of 1, 42 samples, words of 16 bits | finding 5 |

The path of a call depends on the phase (of 6) and the samples left; the three call sizes reach
every phase with and without enough samples for the fast loop. The words of `cic_gain` hold the
gain of 7776. The rates are primes beyond both limits, powers, and 480 = 4 * 6 * 5 * 4, which
takes all four stages; 77 has no divisor that fits in the first stage, and of 1024 a part is
left after four. The idle loop of `measures` gets around within a second (`MaxRound` is
`Frequency`). The counter of `CpuUsage` is a little longer than a second, so that it wraps
around every few loops of the idle thread.

### Deadlock

Runs of things done once or a bounded number of times end in a state without
successors and set `CHECK_DEADLOCK FALSE` (`console` too, where it is the strings of
other lengths that end with the hub). The pipeline runs
do check for deadlock, but the idle status of the USB thread is
always possible, so that it is the liveness properties that count.

## 4. Fairness

`Pipeline!Fairness` is weak fairness of the QuadSPI interrupt, of the MDMA
interrupt, of the DigIn thread and of the USB thread.

- Interrupts are served: nothing disables them for ever.
- Threads run: the callback is short and the two threads block in every round.
- Waits end: each `chMBFetchTimeout` and `chGuardedPoolAllocTimeout` has a timeout.
- `usbTransmit` returns: the host polls, or the bus is reset and the call fails.

`Console!Fairness` is weak fairness of main, of the USB thread's start, and of what the shell
thread does by itself: ask for a command, notice that its port is gone, print, return. (An
aborted processor takes none of these steps.) Main and the shell block in every round and
nothing of higher priority runs for ever. That printing goes on assumes that a host which
leaves the port open reads from it.

Nothing else is assumed of the peripheral, the channel, the host or the user: samples
may stop at any time, a device may stay suspended, and nobody needs to enter a command.
This is why `BlocksPacked` is about the last block as well: the packet must be finished
by the 10 ms timeout even if no other block comes.

## 5. Proofs

Constants carry named assumptions (`BuffersAssumption`, `CaptureAssumption`,
`QueueAssumption`, `SnappyAssumption`, `FramingAssumption`, `HuffmanAssumption`, ...) in the
modules that declare them; TLC evaluates them on every run. Everything below holds for all
values of the constants that satisfy these, and for behaviours of any length. Each
invariant named here was checked by TLC before it was proved.

**PipelineProofs.** `TypeCorrect` (`TypeOK`, whatever the timing of the callback) and,
assuming `IsrShort`, `PipelineInvariant`, from which follow `Conservation`, `ExclusiveDma` and
`QueuesNeverFull`, and `AssertionsHold`.

`BuffersConserved` is not inductive: it says where buffers are, but not that the
channel and the callback agree on it. `PipelineInv` adds `ChannelOK` (the link
entry names the armed buffer; between the end of a block and the end of the
callback the channel writes into `next`, otherwise into `current`; no null pointer
is queued), `PointersOK` (a thread has a buffer exactly where its code says so)
and `BeforeStart`. There is a lemma for each action, and in it a step for each
place a buffer can be in. `ChannelAhead` is the heart of it: the channel is using the
link entry exactly while the callback is behind, so that a block which ends then ends in
the buffer in which the next one begins. `QueuesNeverFull` follows by counting: a queue
without duplicates whose elements are all buffers, and not all of them, is shorter than
their number (`QueueAssumption`: 64 slots, 56 buffers). `AssertionsHold` says that no
`assert` fails as long as the shell has run one `input_quadspi` command at most and there
are two buffers to start with; `StartUpInv` adds that the pool is full before the first
start. A second command is finding 2.

`IsrShort` means that no block ends between the first and the last statement of the
callback, which is 82 microseconds at 200 MB/s. That the callback *begins* in time is
not assumed: `vdbg` formats text with the system locked, and blocks that end meanwhile are
lost, but no buffer is (`BlockLost`). Without `IsrShort` a block may end in a buffer that the
callback is about to queue, while the channel stays in it; `TypeCorrect` covers this too, the
rest does not.

`ContentsCorrect` (`StreamInv`) and `StreamImplemented` (`StreamSafe`) stand on top of
`PipelineInv` and under the same assumption, for any `Overread` and any number of lost blocks.
Where buffers are does not say what is in them. `StreamInv` adds that each queued block has the
samples of its turn (counted back from `captured` through the queue; `InputsOK`), that
`sampleidx` is ahead of the samples compressed by at most `Overread` for each block finished
(`ReadingOK`), that the packet being written has the samples from its first one on in order,
stray words only where a block ends, and the number `sampleidx` had when it was begun
(`WritingOK`), and that the times of delivered blocks increase (`TimesOK`). With this each step
of the pipeline is one of `SampleStream` or leaves its variables alone: the end of a block is
`CaptureBlock`, a post to the write queue `Pack` (`SendRefines`), the end of a transmission
`Transmit`; everything else is `OthersStutter`, where the work is to show that no buffer that
is queued for the USB thread has been written to.

**Snappy32Proofs.** For all words, hash functions, preprocessors, stale histories, buffer sizes
and data, and for the real lengths: `SnappyInvariant`, `RoundTripCorrect` and
`StoresStayInBuffer`. The first two assume `ShortCalls`: no call has more words than a 16-bit
byte offset can reach back to (`OffsetLimit`, 16384 of them). The firmware calls with at most
4096; larger calls, which the unit test makes, may be decoded to something else (section 6),
and without the assumption the theorems would be false. The third is about calls of any size
(`BufferInv`). The invariant `SnappyInv` says that inside a call the decoder's output followed
by the open literal block is what earlier calls consumed followed by the words up to `index`,
that `prev_word` is the last of these (except before the first), and that the write position
leaves the reserve of `SNAPPY_RUNOVER_LEN` that one iteration needs. Each branch of the
compressor is a lemma; the branches for copies share `CopyStep`. Literals need that a block is
closed before it has more words than its tag can count. The proof does not use that the input
ends at `wordcount`, so the round trip holds even for words consumed beyond it (finding 3):
they are compressed faithfully, they are only not samples.

**FramingProofs.** `HostInStep` and `PaddingStaysInside`: for every buffer size up to 16384,
every size of USB packet that divides it and every header size. `FramingInv` says what each
part is once it has been written. The lemma `TwoBytesSuffice` is the reason for the limit:
two varint bytes hold numbers up to 16383.

**ConsoleProofs.** For every behaviour of `Console`, with all its restarts:

- `AttachedOnlyConfigured`, for strings of any length up to 31. `AttachedConfigured` says
  nothing before the hub is attached; `HubInv` adds, for each transfer that may come
  next, that what was sent before it is in the chip. Most of the proof is about addresses:
  the second block of a string reaches into the first register of the next, which is
  sent later, and never into one sent before (`BeforeKept`), and it leaves the first
  block alone.
- `NothingStale` and `NewestPrinted`, for a ring of any size, messages of any length up to
  it and a position that wraps at any multiple of it. `LogInv` has three parts: `Ring` (each
  entry has the last byte that was logged to it), `Printing` (where the two parts of the log
  that dmesg prints begin and end) and `Shown` (each byte printed is the one due, or one
  that was logged over it since).
- `RateIsExact`, for any clock and rate: each divider that `input_quadspi_start` can choose
  is one the prescaler makes exactly, so that the rate reported is the rate clocked
  (`ClockAssumption`: the base frequency of input_quadspi.h is twice the clock that mcuconf.h
  gives the peripheral, samples being taken at double data rate).

**MeasureProofs.** The computations on measured values:

- `NoWorkIsLost` (`LoadShown`): for any frequency, threshold and counter, and any rounding of
  loads within `Error`, which is less than a two hundredth of a load of 1 (`UsageAssumption`).
  It assumes `MaxRound <= Frequency`, that the idle thread gets around its loop within a
  second; otherwise the load can exceed 100 % (section 6). `UsageInv` bounds what others have
  run for since the counter was read and since it was stored, by where the idle thread stands,
  and keeps the estimate between 0 and `Scale`, which rounding alone cannot leave.
- `NoSampleIsLost`: for any divider. `FilterInv` says that the phase counts the samples since
  the last output.
- `SummationIsExact`: for words of any size, the first two integrators are the running sum
  of the samples and of these sums. The fast loop's step is compared with three single
  ones (`SummationSums`, `TripleUpdate`).
- `NothingOfTheRateIsLost`: for any rate and limits of the stages. `RateInv`: factors times
  rest is the rate, and so is the divider of the chain times the rest. What is left has no
  divisor q that could have been done by a stage as well: a stage of factor f would then have
  had the larger divisor f * q (`DivisorOfQuotient`). That the rest is 1 is not true of all
  rates (section 6). That a greatest divisor within the limit exists is `GreatestNumber`.
- `NoStageMixesSamples`: for any stages and calls. `ChainInv` says for each stage which of
  its outputs of this call are in the buffer, which of its inputs are still unread, and that
  the two do not overlap, given how many samples there were `before` the call.

**DeflateProofs.** `WriteAppends`: a write appends exactly its code to the bits before, across
word boundaries, for words of any size and codes shorter than one. The words are those of
`BitStream`: the proof has to show that a code shifted into a word does not meet bits that are
there already (`WellFormed`: those from `bits_in_buf` on are 0), and that what the first shift
drops is what the second one keeps (`FilledWord`, `RestOfCode`), where a shift by a negative
count is one by that count modulo the size of a word. On it rests `DeflateIsSafe`, the
invariant of the encoder, and from that follow `DeflateTypes` and `CacheIsValid`, for any
alphabet, hash function, word size, counts and inputs. That writes stay in the buffer is not
among them: they do not (finding 6). The parts of `DeflateInv`:

- `LoopInv`: where each loop over the symbols is.
- `TreeInv`: nodes are numbered as they are made, and a parent comes after its children,
  so that following parents comes to an end (`Depth` is a number). The heap has only nodes
  that were made.
- `AlphabetInv`: lengths are at most the maximum, however many were cut and balanced; codes
  have the lengths of their symbols.
- `InputInv`, `StreamInv`: the words read so far, and a well-formed stream.
- `CacheInv`: before the alphabet has been written no word is in the cache, although no
  entry is cleared: each entry has a word that belongs to another one. After that, those
  that are have their code.

**CodeProofs.** The code that `huffman_create_alphabet` makes, for any counts, alphabet and
greatest length. `CodesAreSafe` adds to `DeflateInv` what the tree, the lengths and the codes
have to do with one another:

- `LightestAreCombined`: an entry of the heap is never lighter than the one at half its number
  (`Ordered`, part of `ForestInv`). `SiftUpRearranges` and `SiftDownRearranges` are about a heap
  with one entry out of order; the model describes a sift by the entries on its path, and
  the lemmas on paths say which entry comes where. From `Ordered` follows that the root is
  lightest (`RootIsLightest`, by the least entry that would be lighter). The weights may
  have wrapped around.
- `KraftIsKept`: `ForestInv` says that each node made has two children, and that the heap has
  each root once. `FrontierShares` starts with the root of the finished tree, which has all
  codes, and goes down the nodes by number: the nodes before k whose parent is not before k
  share the codes by their depths, as each node shares with its two children. Before the first
  inner node these are the leaves. Cutting a depth to `MaxBits` takes at most one code more
  than the leaf had, which is what `tooLong` counts, and what `Balance` subtracts from it is
  what the lengthened symbol gives back (`LengthInv`). The theorem is about alphabets in which
  symbol 0 occurs, as it does in all of `deflate_init`; without it the lengths may be wrong
  (section 6).
- `CodesArePrefixFree`: codes of a length are consecutive numbers that fit into as many bits,
  by Kraft's inequality (`CodesFit`), and those of a greater length, cut to this one, come
  after them (`CodesFollow`).
- `CodesAreCanonical`: the number of `assign_bitstrings_to_symbols` is the sum that `Rfc1951`
  has, though one is made length by length from the counts of each, and the other symbol by symbol.
  `PrefixFree` and `CodesCanonical` say nothing of alphabets with a code of the greatest length, for
  which they do not hold (section 6).
- `LengthsAreCoded`: each range of `repeat_length_code` is compared with the tables of the format.

`LengthAssumption` (each length of a repetition has a symbol) and the last conjunct of
`HuffmanAssumption` (a power of 2 is a positive number) are true of all numbers concerned, but
the provers know nothing of powers; TLC evaluates them.

**Remainders.** Lemmas on division that SMT does not find: what a remainder is, how it goes
along with sums, multiples and other remainders, how quotients compare. `LeastNumber` and
`GreatestNumber` stand in for induction, which the library states with an operator as a
parameter: what holds of 0 and is inherited by the next number has no least exception. For
the same reason there are lemmas on recursive functions (that they exist, and that their values do
not depend on what comes after) and on sums: what one changed member makes of them, and
how a sum over symbols is one over lengths.

**Only model-checked.**

- Liveness: `StreamLive`, `BlocksPacked`, `StoppedWaitEnds`, `ShellComesBack` and
  `ShellReleased`. Fairness is outside of what the prover does.
- `LengthsOptimal`: that Huffman's algorithm is optimal compares a tree with all others of its
  leaves; `LightestCombined` is the step it rests on.
- `DeflateLengths`: that a tree as deep as the greatest length needs as many occurrences as a
  Fibonacci number, for which the counts of `deflate_init` would have to be followed to
  their sum.
- `DescribesLengths`, `InflatesToInput`: what a decoder with recursive operators makes of
  the output. `Inflate` and `Decompressed` are the modules with such operators, and only runs
  use them.

## 6. Findings

1. **The DigIn thread can wait for ever** (`pipeline_starved`, `databuf.c:84`).
   The comment says that it waits "until USB thread frees up some buffers", but
   all buffers may be in its own input queue. Then nobody frees one.
2. **A second `input_quadspi` command aborts** (`pipeline_twice`,
   `input_quadspi.c:236`): nothing stops the peripheral, and the read at the
   beginning of the command asserts that it is not busy.
3. **The compressor consumes more than its input** (`snappy_overread`,
   `snappy32.c:161-168`): a match is extended without regard to `wordcount`. The
   packet then contains words that are no samples and `sampleidx` runs ahead.
4. **dmesg prints past the log** (`log_overread`, `debug.c:46`) whenever the write
   position is 8192, 12288, ...
5. **The filter has one comb instead of five** (`cic_gain`, `cic_filter.c:4`): `COMB`
   evaluates its argument twice, the second time with updated histories.
6. **deflate runs past its buffer** (`deflate_overrun`, `deflate.c:177`): it looks only at the
   result of the last of several writes, and a write that stores no word reports that there is
   room. In a long run the code for the length may be the one that always crosses the word
   boundary, and the distance code never does: the call ends with its input, any number of
   words behind the buffer, and not with "less than 4 words remaining" (`deflate.h:37`).

Met while reading, without a run of their own. Where a property would be false for one of
these, the property or an assumption says so in its definition:

- A gap is not in the numbers (`input_quadspi.c:92`): when the callback comes late, blocks are
  captured over, and `sampleidx`, which counts what was compressed, is not the "Running index of
  the first sample" of `decurrent.proto:125` any more. The few dozen samples lost when QuadSPI is
  re-armed (`input_quadspi.c:81-84`) do not count either. `SampleStream` promises only that the
  numbers count the words sent.
- Offsets are cut off in long calls (`snappy32.c:179`): the distance of a copy is shifted into a
  16-bit field. From 16384 words on the decoder copies from somewhere else. The unit test
  (`Makefile.tests:5`) compresses up to 131072 words in a call, the firmware 4096. `RoundTrip` is
  about `ShortCalls`.
- deflate sends unmasked bytes (`deflate.c:201`): whether a word is one byte four times is decided
  by comparing the word before preprocessing with a byte of the one after it. With an idempotent
  preprocessor that masks other bits in one byte than in another, which `deflate.h:12` allows, a
  byte masked away is sent (and `deflate.c:98` has counted others). `Sent` is what is sent of a
  word, and `InflatesToInput` is about that. In the run it differs from the preprocessed word.
- Codes of the greatest length (`huffman.c:193`): `assign_bitstrings_to_symbols` stops before it,
  so that all of them start from 0 and clash with others. `PrefixFree` and `CodesCanonical` leave
  them out; `DeflateLengths` says that `deflate_init` makes none.
- The loop that makes room for codes too long begins with symbol 0 (`huffman.c:138-157`): if
  that does not occur it gets a length all the same, and the lengths may leave no room for a
  code (`KraftHolds` is about alphabets where it occurs); if it has the greatest length itself,
  the loop never finds another symbol and does not end. The counts of `deflate_init` reach none
  of this.
- A rate is not always divided to the end (`cic_filter.c:193`, against "1..1000000x" in
  `cic_filter.h:24`): 102487 = 11^4 * 7 becomes 11^4, as each of the four stages gets a factor
  of 11, and the caller is not told. `ExactRate` says what is left.
- A factor is read that was never written (`cic_filter.c:186`), if a rate has no divisor that
  fits: the fallback of line 188 is taken only if that entry happens to hold 1. `NoDivisor` takes
  any member of `Garbage`, and `ExactRate` is about the other rates.
- The load dips (`debug.c:125`) for a thread that preempts the idle thread between storing the
  counter and updating the estimate: what it reads lacks "the usage since the last update"
  (`debug.c:114`). `LoadShown` makes the exception.
- The load exceeds 100 % (`debug.c:136`, against `decurrent.proto:120`) if the idle thread does not
  run for more than a second; `MaxRound` bounds this time.
- `decurrent.proto:78` says of STATUS_IDLE "No measurement running"; the USB thread
  sends it whenever there was no packet for 100 ms (`UsbIdle`).
- The fast loop of `downsample32` leaves out cross terms such as 6*i0 in i2
  (`cic_filter.c:69-71`), contrary to the comment above it. This is why `RunningSums`
  is about the first two integrators only.
- `huffman.h:64` shifts by a negative number. On the hosts the tests are built for, the
  count is taken modulo 32 and the result is right; this is `ShiftCount`. On a
  Cortex-M7 a register shift of 32 or more gives 0; deflate is not built for it.
- `deflate_test.c` calls `deflate_start_block` with two arguments of three.
- `downsampleX` with a rate of 1 uses a stage that was never initialized.
- The interrupt endpoint's descriptor says 8 bytes (`usbcfg.c:44`), its configuration 16
  (`usbcfg.c:87`).

`snappy32.h:12` asks for a preprocessor that is "idempotent". `quadspi_preprocess`
is not, it is its own inverse; the compressor only needs it to be a function, and
this is all the model assumes.

## 7. Not modelled, and why

- Register settings (DMA widths, timing, interrupt priorities): no control depends on
  them. The clock of QuadSPI and its divider are in `Console`.
- The data cache: `cacheBufferInvalidate` is taken to make the thread see what the
  channel wrote (planned).
- The few dozen samples lost within a block when QuadSPI re-arms after 4 GB: the code states
  and accepts it; `times` counts whole blocks.
- Values in packet headers other than `sampleidx` and the rate; wording of messages.
- The shell commands `status`, `peek` and `poke`, which print or access any address, and
  those of `output_vsw.c`, `input_dcmi.c` and `input_spi.c`, which access one register.
- `input_analog.c`, `output_analog.c`: unfinished, do not compile, not built.
- `calibration.c`, board and kernel configuration, USB descriptors and generated
  protobuf tables: no state or no control.
- ChibiOS, nanopb and CMSIS are submodules; mailboxes, pools, `usbTransmit`, the serial
  driver and the shell are modelled from how the code uses them.
- The host tools; `UsbFraming` includes how `decompress.py` reads the stream.

## 8. Plan

Done: the pipeline, the compressor, framing, the console with log and hub, the filters,
the processor load, the deflate encoder, and the proofs above: of every safety property that
some run checks but for those listed at the end of section 5. What could come next:

1. A model of the data cache for buffers that change from output to input.
2. That the decoder of `Inflate` reads one code of the encoder back, from `CodesAreCanonical` and
   `CodesArePrefixFree`, as a first part of `InflatesToInput`; its operators would have to be
   recursive functions.
3. What remains true of the numbers when a block ends inside of the callback.
