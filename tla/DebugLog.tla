------------------------------ MODULE DebugLog ------------------------------
(***************************************************************************)
(* The debug log (debug.c): a ring of bytes that every thread and callback *)
(* appends whole messages to with the system locked, and that the shell    *)
(* command dmesg prints without a lock, byte by byte, from a position it   *)
(* reads once.                                                             *)
(*                                                                         *)
(* The n-th byte ever logged is the number n, so that what dmesg prints    *)
(* tells which bytes they are; 0 is a byte of the ring not written yet.    *)
(***************************************************************************)
EXTENDS Integers, Sequences, FiniteSetsExt

CONSTANTS
    LogSize,        \* LOG_SIZE: 4096
    Wrap,           \* 2^32: g_logbuffer_wrpos is a uint32_t
    Lengths,        \* bound: lengths of a message
    MaxBytes        \* bound: bytes logged

ASSUME LogAssumption ==
    /\ LogSize \in Nat \ {0} /\ Wrap \in Nat \ {0} /\ Wrap % LogSize = 0
    /\ Lengths \subseteq Nat \ {0} /\ MaxBytes \in Nat

VARIABLES
    buffer,         \* g_logbuffer
    wrpos,          \* g_logbuffer_wrpos
    logged,         \* history: bytes logged so far
    todo,           \* the parts <<first, count>> dmesg still has to print
    snapshot,       \* history: bytes logged when dmesg read the position
    printed         \* history: what dmesg has printed

logVars == <<buffer, wrpos, logged, todo, snapshot, printed>>

Outside == -1       \* a byte of whatever follows g_logbuffer in memory
Lost    == -2       \* a byte the stream did not take

LogInit ==
    /\ buffer = [i \in 0..(LogSize - 1) |-> 0]
    /\ wrpos = 0 /\ logged = 0
    /\ todo = <<>> /\ snapshot = 0 /\ printed = <<>>

\* The bytes of a message go to wrpos & LOG_MASK, one after the other.
Appended(n) ==
    [i \in DOMAIN buffer |->
        LET last == Max({k \in 0..n : k = 0 \/ (wrpos + k - 1) % LogSize = i})
        IN  IF last = 0 THEN buffer[i] ELSE logged + last]

\* vdbg.  The lock makes a message a single step for every other thread and
\* callback; abort_with_error logs the same way with interrupts disabled.
Dbg(n) ==
    /\ logged + n <= MaxBytes
    /\ buffer' = Appended(n)
    /\ wrpos' = (wrpos + n) % Wrap
    /\ logged' = logged + n
    /\ UNCHANGED <<todo, snapshot, printed>>

\* (Mutant: the part before the wrap is printed last.)
PartsSwapped(pos) ==
    LET after == pos % LogSize
    IN  IF pos = 0 THEN <<>>
        ELSE IF pos <= LogSize \/ after = 0 THEN << <<0, pos>> >>
        ELSE << <<0, after>>, <<after, LogSize - after>> >>

\* debug_print_log: the parts of the ring to print, oldest byte first.
Parts(pos) ==
    LET after == pos % LogSize
    IN  IF pos = 0 THEN <<>>
        ELSE IF pos <= LogSize \/ after = 0 THEN << <<0, pos>> >>
        ELSE << <<after, LogSize - after>>, <<0, after>> >>

Dmesg ==
    /\ todo = <<>>
    /\ todo' = Parts(wrpos)
    /\ snapshot' = logged
    /\ printed' = <<>>
    /\ UNCHANGED <<buffer, wrpos, logged>>

\* streamWrite copies a part byte by byte and may be preempted at each.
Write ==
    /\ todo # <<>>
    /\ LET first == Head(todo)[1]
           count == Head(todo)[2]
       IN  /\ printed' = Append(printed, IF first \in DOMAIN buffer
                                         THEN buffer[first] ELSE Outside)
           /\ todo' = IF count = 1 THEN Tail(todo)
                      ELSE << <<first + 1, count - 1>> >> \o Tail(todo)
    /\ UNCHANGED <<buffer, wrpos, logged, snapshot>>

\* The stream is closed while a part is printed: streamWrite returns without
\* the rest of it, and debug_print_log goes on with the next part.
DropPart ==
    /\ todo # <<>>
    /\ printed' = printed \o [k \in 1..Head(todo)[2] |-> Lost]
    /\ todo' = Tail(todo)
    /\ UNCHANGED <<buffer, wrpos, logged, snapshot>>

\* The log by itself, on a stream that is never closed.
LogNext == Dmesg \/ Write \/ \E n \in Lengths : Dbg(n)

LogSpec == LogInit /\ [][LogNext]_logVars

-----------------------------------------------------------------------------
\* As many bytes as the ring held when dmesg read the position.
Kept == Min({snapshot, LogSize})

\* The byte dmesg should print as its k-th.
Due(k) == snapshot - Kept + k

\* A log printed while nothing is logged is the newest bytes, oldest first and
\* none missing but those the stream did not take.  (Until wrpos wraps at 2^32.  More may follow: StaysInLog.)
NewestInOrder ==
    (todo = <<>> /\ printed # <<>> /\ logged = snapshot /\ snapshot < Wrap)
        => /\ Len(printed) >= Kept
           /\ \A k \in 1..Kept : printed[k] \in {Due(k), Lost}

\* Messages logged while dmesg prints may replace bytes it has not printed
\* yet: each byte of the log it prints is the one due or one that was logged
\* over it since, never an older one and never one of another place.
NeverStale ==
    snapshot < Wrap =>
        \A k \in {j \in 1..Min({Len(printed), Kept}) : printed[j] # Lost} :
            /\ Due(k) <= printed[k] /\ printed[k] <= logged
            /\ (printed[k] - Due(k)) % LogSize = 0

\* "Log has not wrapped yet" (debug.c:48), so the bytes printed from the start
\* of the ring are all in it.
StaysInLog == \A k \in DOMAIN printed : printed[k] # Outside
=============================================================================
