------------------------------ MODULE CpuUsage ------------------------------
(***************************************************************************)
(* The processor load shown in status messages and packet headers          *)
(* (debug.c).  The idle thread measures the time from one iteration of its *)
(* loop to the next: a long one means that other threads or interrupts ran *)
(* in between.  Threads read the estimate without a lock, and may preempt  *)
(* the idle thread anywhere in its loop, but never the other way round.    *)
(*                                                                         *)
(* Loads are numbers of 0 to Scale instead of floats from 0 to 1, and each *)
(* computation of one may be off by up to Error: the floats are rounded.   *)
(***************************************************************************)
EXTENDS Integers

CONSTANTS
    Frequency,      \* CPU_FREQ: cycles in a second
    Threshold,      \* CPU_IDLE_THRESHOLD: 64 cycles
    CounterWrap,    \* 2^32: the cycle counter wraps around
    Scale,          \* bound: what a load of 1 is
    Error,          \* bound: error of a load computed with floats
    MaxRound,       \* bound: cycles from one round of the idle loop to the next
    BusyTimes       \* bound: cycles other threads run for

ASSUME UsageAssumption ==
    /\ Frequency \in Nat \ {0} /\ Threshold \in Nat
    /\ CounterWrap \in Nat /\ CounterWrap > Frequency
    /\ Threshold > 3    \* an iteration of the idle loop takes less
    /\ Threshold < Frequency
    /\ Scale \in Nat \ {0} /\ Error \in Nat /\ 200 * Error < Scale
    /\ MaxRound \in Nat /\ MaxRound < CounterWrap
    /\ BusyTimes \subseteq Nat \ {0}

VARIABLES
    clock,          \* chSysGetRealtimeCounterX
    prevTime,       \* g_cpu_usage_prevtime
    usage,          \* g_cpu_usage
    idlePc,         \* where the idle thread is in its loop
    time,           \* its local variables time and delta, 0 when they are
    delta,          \* not used any more
    busy,           \* history: cycles other threads ran for that usage does
                    \* not contain yet,
    later,          \* and those of them since the counter was last read
    shown           \* history: what get_cpu_usage has just returned, and what
                    \* percentages of a second busy and later were then

usageVars == <<clock, prevTime, usage, idlePc, time, delta, busy, later, shown>>

Nothing == [percent |-> 0, busy |-> 0, later |-> 0]

UsageInit ==
    /\ clock = 0 /\ prevTime = 0 /\ usage = 0
    /\ idlePc = "read" /\ time = 0 /\ delta = 0
    /\ busy = 0 /\ later = 0 /\ shown = Nothing

Elapsed(since) == (clock - since) % CounterWrap

\* The counter as the idle thread runs a statement; one cycle stands
\* for all of them.
IdleRuns == clock' = (clock + 1) % CounterWrap /\ shown' = Nothing

\* cpu_usage_idle_loop: read the counter ...
IdleRead ==
    /\ idlePc = "read" /\ idlePc' = "store"
    /\ time' = clock
    /\ delta' = Elapsed(prevTime)
    /\ later' = 0
    /\ IdleRuns
    /\ UNCHANGED <<prevTime, usage, busy>>

\* (Mutant: the time stored is read anew.)
StoredTimeNow == clock

\* ... store it ...
StoredTime == time

IdleStore ==
    /\ idlePc = "store" /\ idlePc' = "update"
    /\ prevTime' = StoredTime /\ time' = 0
    /\ IdleRuns
    /\ UNCHANGED <<usage, delta, busy, later>>

\* What the float sum of the load u and change/Frequency may be.  Rounding
\* is monotonic: nothing grows by adding a negative number or shrinks by adding
\* a positive one, and no sum that is not negative gets negative.
SumMayBe(u, change, r) ==
    /\ Frequency * (r - u) <= change + Frequency * Error
    /\ Frequency * (r - u) >= change - Frequency * Error
    /\ change >= 0 => r >= u
    /\ change <= 0 => r <= u
    /\ Frequency * u + change >= 0 => r >= 0

FloatSum(u, change) ==
    LET exact == u + change \div Frequency
    IN  {r \in (exact - Error)..(exact + 1 + Error) : SumMayBe(u, change, r)}

\* The load u after d busy cycles, and after d idle ones.
Raised(u, d)  == FloatSum(u, (Scale - u) * d)
Decayed(u, d) == FloatSum(u, -(u * d))

\* ... and let the estimate decay, or raise it after a long time.
IdleUpdate ==
    /\ idlePc = "update" /\ idlePc' = "read"
    /\ usage' \in IF delta < Threshold THEN Decayed(usage, delta) ELSE Raised(usage, delta)
    /\ delta' = 0
    /\ busy' = later
    /\ IdleRuns
    /\ UNCHANGED <<prevTime, time, later>>

\* Other threads and interrupt handlers run.  Bound: the idle thread, with the
\* cycles of its own, gets around its loop within MaxRound.
OthersRun ==
    /\ \E n \in BusyTimes :
        /\ Elapsed(prevTime) + n + 3 <= MaxRound
        /\ clock' = (clock + n) % CounterWrap
        /\ busy' = busy + n /\ later' = later + n
    /\ shown' = Nothing
    /\ UNCHANGED <<prevTime, usage, idlePc, time, delta>>

\* The conversion to int cuts off what follows the point.
Truncated(n) == IF n >= 0 THEN n \div Scale ELSE -((-n) \div Scale)

Percents(u) ==
    {Truncated(w * 100) : w \in {v \in (u - Error)..(u + Error) : u >= 0 => v >= 0}}

\* What n cycles are of a second, if the threshold does not hide them.
Share(n) == IF n > Threshold THEN (n * 100) \div Frequency ELSE 0

\* One of them calls get_cpu_usage, which adds the time since prevTime.
GetCpuUsage ==
    /\ LET d == Elapsed(prevTime)
       IN  \E u \in IF d > Threshold THEN Raised(usage, d) ELSE {usage} :
               \E percent \in Percents(u) :
                   shown' = [percent |-> percent, busy |-> Share(busy), later |-> Share(later)]
    /\ UNCHANGED <<clock, prevTime, usage, idlePc, time, delta, busy, later>>

UsageNext == IdleRead \/ IdleStore \/ IdleUpdate \/ OthersRun \/ GetCpuUsage

-----------------------------------------------------------------------------
\* "Current CPU usage 0-100%" (decurrent.proto:120).
Percentage == shown.percent \in 0..100

\* "Add the usage since the last update" (debug.c:114): the load returned is,
\* but for rounding, not less than the share of a second that other threads
\* have been running for since the estimate was last updated.
UsageSinceUpdate == shown.busy <= shown.percent + 1

\* As long as the idle thread gets around its loop within a second, the load
\* returned is a percentage.  Wherever in its loop the idle thread is preempted,
\* it contains the work since the counter was last read; and all the work the
\* estimate does not contain yet, except between the two statements that store
\* the counter and update the estimate.
LoadShown ==
    /\ Percentage
    /\ shown.later <= shown.percent + 1
    /\ idlePc # "update" => UsageSinceUpdate
=============================================================================
