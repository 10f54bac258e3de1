----------------------------- MODULE MCPackets -----------------------------
(***************************************************************************)
(* A packet on its way through the firmware: the compression of its data   *)
(* by snappy32.c on a small instance, and its framing in the buffer at the *)
(* real sizes.  The two have no state in common, so that a behaviour is    *)
(* one of them.                                                            *)
(***************************************************************************)
EXTENDS MCSnappy32, UsbFraming

VARIABLE used       \* which of them

\* The compressor starts anywhere it can, or in one of its states.
PacketsInit ==
    /\ Init /\ FramingInit
    /\ \/ /\ used = "snappy"
          /\ header = 19 /\ compressed = 1
       \/ /\ used = "framing"
          /\ prev = w1 /\ history = [k \in Keys |-> 0]
          /\ \A n \in BufLens : endpos <= n - Runover

PacketsNext ==
    /\ \/ used = "snappy" /\ Next /\ UNCHANGED framingVars
       \/ used = "framing" /\ FramingNext /\ UNCHANGED vars
    /\ UNCHANGED used

PacketsSpec == PacketsInit /\ [][PacketsNext]_<<vars, framingVars, used>>
=============================================================================
