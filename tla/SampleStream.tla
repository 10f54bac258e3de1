--------------------------- MODULE SampleStream ---------------------------
(***************************************************************************)
(* What digital capture gives the host: packets that together hold every   *)
(* delivered sample once and in order, sent in the order they were made.   *)
(* The number in a packet's header counts the words put into the packets   *)
(* before it, so that a packet lost on the wire shows as a gap.            *)
(*                                                                         *)
(* It is no more than that.  Blocks the channel captured over leave a gap  *)
(* in the capture times and none in the numbers; and behind the last       *)
(* sample of a block a packet may have a few words that are no samples,    *)
(* which are counted.  The host can see neither.                           *)
(***************************************************************************)
EXTENDS Integers, Sequences

CONSTANTS
    BlockSize,      \* samples are delivered in blocks of this size
    Overread        \* most words behind a block that are sent with it

VARIABLES
    times,          \* when each delivered block was captured, in blocks
    packed,         \* samples put into packets so far
    counted,        \* words put into packets so far
    pending,        \* the packets on their way, oldest first
    wire            \* the packets the host has received, oldest first

streamVars == <<times, packed, counted, pending, wire>>

\* A word that is no sample.
Stray == -1

EndsBlock(sample) == (sample + 1) % BlockSize = 0

\* The words of a packet are the samples from number "from" up to "to", each
\* once and in order, and stray words close behind the last one of a block.
Carries(data, from, to) ==
    /\ \A s \in from..to - 1 : \E i \in DOMAIN data : data[i] = s
    /\ \A i, j \in DOMAIN data : i < j /\ data[j] # Stray => data[i] < data[j]
    /\ \A i \in DOMAIN data :
          \/ data[i] \in from..to - 1
          \/ /\ data[i] = Stray
             /\ \E k \in 1..Overread : /\ k < i
                                       /\ data[i - k] # Stray
                                       /\ EndsBlock(data[i - k])

Init ==
    /\ times = <<>>
    /\ packed = 0 /\ counted = 0
    /\ pending = <<>> /\ wire = <<>>

\* A block is delivered, later than all others.
CaptureBlock ==
    /\ Len(times') > Len(times)
    /\ LET last == times'[Len(times')]
       IN  /\ times' = Append(times, last)
           /\ last \in Nat
           /\ \A i \in DOMAIN times : times[i] < last
    /\ UNCHANGED <<packed, counted, pending, wire>>

\* A packet with at least one sample is made.
Pack ==
    /\ Len(pending') > Len(pending)
    /\ LET packet == pending'[Len(pending')]
       IN  /\ pending' = Append(pending, packet)
           /\ packet.first = counted
           /\ counted' = counted + Len(packet.data)
           /\ Carries(packet.data, packed, packed')
    /\ packed' \in packed + 1 .. Len(times) * BlockSize
    /\ UNCHANGED <<times, wire>>

Transmit ==
    /\ pending # <<>>
    /\ pending' = Tail(pending)
    /\ wire' \in {wire, Append(wire, Head(pending))}
    /\ UNCHANGED <<times, packed, counted>>

Next == CaptureBlock \/ Pack \/ Transmit

Spec == Init /\ [][Next]_streamVars

\* Packets do not stay on their way for ever.
FairSpec == Spec /\ WF_streamVars(Transmit)
=============================================================================
