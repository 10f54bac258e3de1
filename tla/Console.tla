------------------------------ MODULE Console ------------------------------
(***************************************************************************)
(* The device from reset on as the host's terminal sees it: main           *)
(* configures the hub, starts the USB thread and then keeps a shell thread *)
(* running while the device is configured (main.c, usb_thread.c); events   *)
(* of the USB driver open and close the serial port the shell reads and    *)
(* writes (usbcfg.c); the shell prints the log, starts the capture or      *)
(* resets the processor (shell_cmds.c).  Every thread may log at any time. *)
(* An assertion that fails stops everything until the next reset.          *)
(*                                                                         *)
(* Interrupt handlers are single steps.  main looks at the shell's thread  *)
(* in two steps, between which the shell, which has the higher priority,   *)
(* may run and end.                                                        *)
(***************************************************************************)
EXTENDS DebugLog, UsbHub

CONSTANTS
    BaseFreq,       \* input_quadspi_BASEFREQ
    Oscillator,     \* the crystal, STM32_HSECLK
    PllM, PllN, PllR,   \* STM32_PLL2_DIVM_VALUE, ...
    Rates           \* bound: rates asked for with the command input_quadspi

\* The clock of the QuadSPI peripheral (mcuconf.h).
KernelClock == ((Oscillator \div PllM) * PllN) \div PllR

\* Rates are counted in samples at double data rate.
ASSUME ClockAssumption ==
    /\ KernelClock \in Nat /\ BaseFreq = 2 * KernelClock
    /\ Rates \subseteq Nat

VARIABLES
    main,           \* "boot", "hub", "poll" or "release" (of the shell thread)
    usb,            \* USBD2.state
    resumed,        \* the state a wake-up goes back to
    open,           \* the queues of g_usb_serial are not suspended
    shell,          \* the shell thread: what it does, or "none"
    handle,         \* g_usb_shell_thread is not NULL
    broken,         \* the port was closed or reset since the shell waited for it
    divider,        \* g_digital_input_divider
    capturing,      \* QUADSPI_SR_BUSY: a capture was started
    cpu             \* "running", or "aborted" in the loop of abort_with_error

usbVars   == <<usb, resumed, open>>
shellVars == <<shell, handle, broken>>
inputVars == <<divider, capturing>>
vars == <<main, usbVars, shellVars, inputVars, cpu, logVars, hubVars>>

\* abort_with_error disables all interrupts and never returns.
Running == cpu = "running"

\* Reset: static variables start from zero.  The hub is as it was.
Reset ==
    /\ main' = "boot"
    /\ usb' = "stop" /\ resumed' = "stop" /\ open' = FALSE
    /\ shell' = "none" /\ handle' = FALSE /\ broken' = FALSE
    /\ divider' = 0 /\ capturing' = FALSE /\ cpu' = "running"
    /\ buffer' = [i \in 0..(LogSize - 1) |-> 0] /\ wrpos' = 0 /\ logged' = 0
    /\ todo' = <<>> /\ snapshot' = 0 /\ printed' = <<>>
    /\ pending' = <<>>
    /\ UNCHANGED <<len, regs, configured, attached>>

Init ==
    /\ main = "boot"
    /\ usb = "stop" /\ resumed = "stop" /\ open = FALSE
    /\ shell = "none" /\ handle = FALSE /\ broken = FALSE
    /\ divider = 0 /\ capturing = FALSE /\ cpu = "running"
    /\ LogInit /\ HubInit

-----------------------------------------------------------------------------
(* main *)

\* usb_hub_init pulls LINE_HUB_RST: the chip forgets what it had.
ResetHub ==
    /\ regs' = [a \in DOMAIN regs |-> Zero]
    /\ configured' = FALSE /\ attached' = FALSE

StartHub ==
    /\ main = "boot"
    /\ ResetHub
    /\ pending' = Transfers
    /\ main' = "hub"
    /\ UNCHANGED <<usbVars, shellVars, inputVars, cpu, logVars, len>>

\* The transfers to the hub.
HubStep ==
    /\ main = "hub" /\ Transmit
    /\ UNCHANGED <<main, usbVars, shellVars, inputVars, cpu, logVars>>

\* Bound: the strings with the lengths they have in usb_hub.c go on from here.
RealLengths == len["manufacturer"] = 11 /\ len["product"] = 23 /\ len["serial"] = 8

\* The end of usb_hub_init, whatever became of it, and usb_thread_start.
StartUsbThread ==
    /\ main = "hub" /\ pending = <<>> /\ RealLengths
    /\ main' = "poll"
    /\ UNCHANGED <<usbVars, shellVars, inputVars, cpu, logVars, hubVars>>

\* usb_thread_poll, its first half.
Poll ==
    /\ main = "poll"
    /\ IF usb = "active" /\ ~handle
       THEN shell' = "start" /\ handle' = TRUE /\ broken' = FALSE
       ELSE UNCHANGED shellVars
    /\ main' = "release"
    /\ UNCHANGED <<usbVars, inputVars, cpu, logVars, hubVars>>

\* (Mutant: a thread that has ended is only released while USB is active.)
ReleasableActive == handle /\ shell = "ended" /\ usb = "active"

\* (Mutant: ... only while it is not.)
ReleasableInactive == handle /\ shell = "ended" /\ usb # "active"

\* chThdTerminatedX
Releasable == handle /\ shell = "ended"

\* Its second half.
Release ==
    /\ main = "release"
    /\ IF Releasable
       THEN shell' = "none" /\ handle' = FALSE /\ UNCHANGED broken
       ELSE UNCHANGED shellVars
    /\ main' = "poll"
    /\ UNCHANGED <<usbVars, inputVars, cpu, logVars, hubVars>>

Main == Running /\ (StartHub \/ HubStep \/ StartUsbThread \/ Poll \/ Release)

-----------------------------------------------------------------------------
(* The USB driver.  Its thread starts it; from then on the host, which sees *)
(* the device once the hub is attached, makes it go from state to state,   *)
(* and usb_event opens and closes the port.                                *)

\* The first steps of usb_thread: sduStart and usbStart.
StartUsb ==
    /\ Running /\ main \in {"poll", "release"} /\ usb = "stop"
    /\ usb' = "ready"
    /\ UNCHANGED <<main, resumed, open, shellVars, inputVars, cpu, logVars, hubVars>>

\* A thread that waits for the port is woken without data.
Disturb == broken' = (broken \/ shell \in {"read", "dmesg"})

\* What usb_event does with an event in the state the driver has gone to.
UsbEvent(event, state) ==
    CASE event = "configured" /\ state = "active"   -> open' = TRUE /\ Disturb
      [] event = "configured" /\ state = "selected" -> UNCHANGED <<open, broken>>
      [] event \in {"reset", "unconfigured", "suspend"} -> open' = FALSE /\ Disturb
      [] event = "wakeup" -> open' = TRUE /\ UNCHANGED broken

\* The driver goes to a state and reports an event.
GoTo(state, event) ==
    /\ usb' = state
    /\ UsbEvent(event, state)
    /\ UNCHANGED <<main, resumed, shell, handle, inputVars, cpu, logVars, hubVars>>

HostResets      == usb # "stop" /\ GoTo("ready", "reset")
HostAddresses   == /\ usb = "ready" /\ usb' = "selected"
                   /\ UNCHANGED <<main, resumed, open, shellVars, inputVars, cpu,
                                  logVars, hubVars>>
HostConfigures  == usb = "selected" /\ GoTo("active", "configured")
HostUnconfigures == /\ usb = "active"
                    /\ \E event \in {"configured", "unconfigured"} : GoTo("selected", event)

HostSuspends ==
    /\ usb \in {"ready", "selected", "active"}
    /\ usb' = "suspended" /\ resumed' = usb
    /\ UsbEvent("suspend", "suspended")
    /\ UNCHANGED <<main, shell, handle, inputVars, cpu, logVars, hubVars>>

HostWakes == usb = "suspended" /\ GoTo(resumed, "wakeup")

Host ==
    /\ Running /\ attached
    /\ HostResets \/ HostAddresses \/ HostConfigures \/ HostUnconfigures
       \/ HostSuspends \/ HostWakes

-----------------------------------------------------------------------------
(* The shell thread, shellThread of ChibiOS with the commands of           *)
(* shell_cmds.c.                                                           *)

ShellReads ==
    /\ Running /\ shell = "start"
    /\ shell' = "read"
    /\ UNCHANGED <<main, usbVars, handle, broken, inputVars, cpu, logVars, hubVars>>

\* A read from a closed port returns nothing, and the thread ends; so it does
\* on the command exit.
ShellEnds ==
    /\ Running /\ shell = "read"
    /\ shell' = "ended"
    /\ UNCHANGED <<main, usbVars, handle, broken, inputVars, cpu, logVars, hubVars>>

PortFails == ShellEnds /\ (~open \/ broken)
CmdExit   == ShellEnds /\ open /\ ~broken

\* The host enters another command.
Command == Running /\ shell = "read" /\ open /\ ~broken

\* Integer division by zero gives zero on this processor.
Quotient(a, b) == IF b = 0 THEN 0 ELSE a \div b

\* (Mutant: odd dividers are used as they are.)
DividerOdd(rate) ==
    LET d == Quotient(BaseFreq, rate)
    IN  IF d < 1 THEN 1 ELSE IF d > 512 THEN 512 ELSE d

\* input_quadspi_config
Divider(rate) ==
    LET d == Quotient(BaseFreq, rate)
    IN  IF d < 1 THEN 1 ELSE IF d > 512 THEN 512 ELSE IF d > 1 THEN d - (d % 2) ELSE d

\* The pins are read first, and the assertion of input_quadspi_read fails
\* while a capture is running: the processor logs a message and stops.  With
\* arguments, a capture is started, whose own assertion holds when it is the
\* first since reset (PipelineProofs); without, nothing changes.
CmdInputQuadspi ==
    /\ Command
    /\ \/ /\ capturing
          /\ \E n \in Lengths : Dbg(n)
          /\ cpu' = "aborted"
          /\ UNCHANGED inputVars
       \/ /\ ~capturing
          /\ \E rate \in Rates : divider' = Divider(rate)
          /\ capturing' = TRUE
          /\ UNCHANGED <<cpu, logVars>>
    /\ UNCHANGED <<main, usbVars, shellVars, hubVars>>

CmdReboot == Command /\ Reset

CmdDmesg ==
    /\ Command /\ Dmesg
    /\ shell' = "dmesg"
    /\ UNCHANGED <<main, usbVars, handle, broken, inputVars, cpu, hubVars>>

\* A byte goes to the port if it is open; if it is not, or was closed while
\* the thread waited for room in its queue, the rest of the part is dropped.
DmesgStep ==
    /\ Running /\ shell = "dmesg"
    /\ \/ open /\ Write /\ UNCHANGED broken
       \/ (~open \/ broken) /\ DropPart /\ broken' = FALSE
    /\ UNCHANGED <<main, usbVars, shell, handle, inputVars, cpu, hubVars>>

\* The command returns, and what it printed is of no more interest.
DmesgReturns ==
    /\ Running /\ shell = "dmesg" /\ todo = <<>>
    /\ shell' = "read" /\ broken' = FALSE
    /\ printed' = <<>> /\ snapshot' = 0
    /\ UNCHANGED <<main, usbVars, handle, inputVars, cpu, buffer, wrpos, logged, todo,
                   hubVars>>

Shell ==
    \/ ShellReads \/ PortFails \/ CmdExit
    \/ CmdInputQuadspi \/ CmdReboot \/ CmdDmesg
    \/ DmesgStep \/ DmesgReturns

\* Any thread or callback logs a message.
Log ==
    /\ Running /\ main \in {"poll", "release"}
    /\ \E n \in Lengths : Dbg(n)
    /\ UNCHANGED <<main, usbVars, shellVars, inputVars, cpu, hubVars>>

Next == Main \/ StartUsb \/ Host \/ Shell \/ Log

\* All threads are scheduled, and an open port takes what is written to it.
\* The host and its user may do nothing for ever.
Fairness ==
    /\ WF_vars(Main) /\ WF_vars(StartUsb)
    /\ WF_vars(ShellReads) /\ WF_vars(PortFails)
    /\ WF_vars(DmesgStep) /\ WF_vars(DmesgReturns)

Spec == Init /\ [][Next]_vars /\ Fairness

-----------------------------------------------------------------------------
\* While the device stays configured there is, again and again, a shell that
\* takes commands: an old one that ended or lost its port is released and a
\* new one started in the same memory.  Only the command input_quadspi given
\* while a capture is running ends that: the processor then stops for good.
ShellComesBack == <>[](usb = "active") => []<>Command \/ <>[](~Running /\ capturing)

\* When the port stays closed the shell does not: it ends and is released,
\* on a processor that has not stopped.
ShellReleased ==
    <>[](Running /\ main \in {"poll", "release"} /\ ~open) => <>[](~handle)

\* input_quadspi_start: both edges for a divider of 1, else a prescaler.
Prescaler == IF divider = 1 THEN 0 ELSE divider \div 2 - 1
SampleRate == ((IF divider = 1 THEN 2 ELSE 1) * KernelClock) \div (Prescaler + 1)

\* The rate in the header of every packet is the "Actual samplerate of this
\* channel" (decurrent.proto), for every rate asked for: the divider that
\* input_quadspi_config stores is one that the 8-bit prescaler, or double
\* data rate, gives exactly.
RateReported ==
    divider # 0 => /\ Prescaler \in 0..255
                   /\ SampleRate = BaseFreq \div divider
=============================================================================
