----------------------------- MODULE UsbThread -----------------------------
(***************************************************************************)
(* The thread "USB" (usb_thread.c): transmits the packets of the write     *)
(* queue and releases their buffers; after 100 ms without one it sends a   *)
(* status message instead.  The padding it appends is in UsbFraming.       *)
(***************************************************************************)
EXTENDS InputThread

VARIABLES
    usbPc,          \* where the thread is
    usbBuf,         \* buf
    wire            \* the packets the host has received

usbVars == <<usbPc, usbBuf, wire>>

UsbInit ==
    /\ usbPc = "fetch"
    /\ usbBuf = NULL
    /\ wire = <<>>

UsbTypeOK ==
    /\ usbPc \in {"fetch", "transmit", "release", "status"}
    /\ usbBuf \in Pointer

UsbAt(pc) == ThreadsRun /\ usbPc = pc

\* The thread shares only the pool and the write queue with the others.
OthersFrame == UNCHANGED <<memory, inQueue, digPc, inputBuf, inputIndex,
                           outputBuf, sampleidx, cpu>> /\ CaptureFrame

-----------------------------------------------------------------------------
UsbFetch ==
    /\ UsbAt("fetch")
    /\ usbQueue # <<>>
    /\ usbBuf' = Head(usbQueue) /\ usbQueue' = Tail(usbQueue)
    /\ usbPc' = "transmit"
    /\ UNCHANGED <<free, wire>> /\ OthersFrame

\* usbTransmit blocks until the host has polled the whole packet, or fails
\* when the device is or becomes unconfigured.  The result is only logged.
UsbTransmit ==
    /\ UsbAt("transmit")
    /\ \E received \in BOOLEAN :
        wire' = IF received THEN Append(wire, memory[usbBuf]) ELSE wire
    /\ usbPc' = "release"
    /\ UNCHANGED <<free, usbQueue, usbBuf>> /\ OthersFrame

UsbRelease ==
    /\ UsbAt("release")
    /\ free' = Released(free, usbBuf)
    /\ usbBuf' = NULL
    /\ usbPc' = "fetch"
    /\ UNCHANGED <<usbQueue, wire>> /\ OthersFrame

\* (Mutant: the status message takes precedence over the queue.)
UsbIdleFirst ==
    /\ UsbAt("fetch")
    /\ usbPc' = "status"
    /\ UNCHANGED <<free, usbQueue, usbBuf, wire>> /\ OthersFrame

\* Nothing to transmit for 100 ms: report STATUS_IDLE.
UsbIdle ==
    /\ UsbAt("fetch")
    /\ usbQueue = <<>>
    /\ usbPc' = "status"
    /\ UNCHANGED <<free, usbQueue, usbBuf, wire>> /\ OthersFrame

UsbSendStatus ==
    /\ UsbAt("status")
    /\ usbPc' = "fetch"
    /\ UNCHANGED <<free, usbQueue, usbBuf, wire>> /\ OthersFrame

Usb == UsbFetch \/ UsbTransmit \/ UsbRelease \/ UsbIdle \/ UsbSendStatus
=============================================================================
