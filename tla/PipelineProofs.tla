--------------------------- MODULE PipelineProofs ---------------------------
(***************************************************************************)
(* Proofs about Pipeline for every pool, queue size and block size.        *)
(*                                                                         *)
(* TypeCorrect needs only that the threads' pointers match where they are  *)
(* (PointersOK).  The three safety properties are proved together, from    *)
(* one inductive invariant, under the assumption that the interrupt        *)
(* callback ends before the next block does.                               *)
(*                                                                         *)
(* Under the same assumption Pipeline implements SampleStream.  StreamInv  *)
(* is inductive relative to PipelineInv: that contents stay what they are  *)
(* is conservation of buffers, as the channel and the threads write only   *)
(* into their own.                                                         *)
(***************************************************************************)
EXTENDS Pipeline, Remainders, SequenceTheorems, FiniteSetTheorems, TLAPS

-----------------------------------------------------------------------------
(* The pool and the queues. *)

\* databuf_try_allocate returns a free buffer or NULL.
LEMMA TryAllocateResult ==
    ASSUME NEW pool, NEW domain, NEW b \in TryAllocate(pool, domain)
    PROVE  b \in pool \/ b = NULL
BY DEF TryAllocate

\* What a queue holds after a post.
LEMMA AppendHolds ==
    ASSUME NEW S, NEW q \in Seq(S), NEW e \in S
    PROVE  /\ Append(q, e) \in Seq(S)
           /\ ToSet(Append(q, e)) = ToSet(q) \cup {e}
<1>1. /\ Append(q, e) \in Seq(S) /\ Len(q) \in Nat
      /\ DOMAIN q = 1..Len(q) /\ DOMAIN Append(q, e) = 1..Len(q) + 1
  OBVIOUS
<1>2. \A i \in 1..Len(q) : Append(q, e)[i] = q[i]
  OBVIOUS
<1>3. Append(q, e)[Len(q) + 1] = e
  OBVIOUS
<1>4. ASSUME NEW x \in ToSet(Append(q, e))
      PROVE  x \in ToSet(q) \cup {e}
  BY <1>1, <1>2, <1>3 DEF ToSet
<1>5. ASSUME NEW x \in ToSet(q) \cup {e}
      PROVE  x \in ToSet(Append(q, e))
  <2>1. CASE x = e
    BY <2>1, <1>1, <1>3 DEF ToSet
  <2>2. CASE x \in ToSet(q)
    BY <2>2, <1>1, <1>2 DEF ToSet
  <2>. QED  BY <2>1, <2>2
<1>. QED  BY <1>1, <1>4, <1>5

\* What a queue holds after a fetch, when no buffer is in it twice.
LEMMA TailHolds ==
    ASSUME NEW S, NEW q \in Seq(S), q # <<>>,
           \A i, j \in DOMAIN q : q[i] = q[j] => i = j
    PROVE  /\ Head(q) \in S /\ Tail(q) \in Seq(S)
           /\ Head(q) \in ToSet(q)
           /\ ToSet(Tail(q)) = ToSet(q) \ {Head(q)}
           /\ \A i, j \in DOMAIN Tail(q) : Tail(q)[i] = Tail(q)[j] => i = j
<1>1. Head(q) = q[1] /\ Len(q) \in Nat \ {0} /\ DOMAIN q = 1..Len(q)
  OBVIOUS
<1>2. Tail(q) \in Seq(S) /\ Len(Tail(q)) = Len(q) - 1
  OBVIOUS
<1>3. \A i \in 1..Len(q) - 1 : Tail(q)[i] = q[i + 1]
  OBVIOUS
<1>4. /\ DOMAIN Tail(q) = 1..Len(q) - 1
      /\ \A i \in 2..Len(q) : i - 1 \in 1..Len(q) - 1
      /\ \A i \in 1..Len(q) - 1 : i + 1 \in 2..Len(q) /\ i + 1 \in 1..Len(q)
  BY <1>1, <1>2
<1>5. ASSUME NEW x \in ToSet(Tail(q))
      PROVE  x \in ToSet(q) /\ x # Head(q)
  <2>1. PICK i \in 1..Len(q) - 1 : x = q[i + 1]
    BY <1>3, <1>4 DEF ToSet
  <2>2. i + 1 \in DOMAIN q /\ i + 1 # 1 /\ 1 \in DOMAIN q
    BY <1>1, <1>4
  <2>. QED  BY <1>1, <2>1, <2>2 DEF ToSet
<1>6. ASSUME NEW x \in ToSet(q), x # Head(q)
      PROVE  x \in ToSet(Tail(q))
  <2>1. PICK i \in 2..Len(q) : x = q[i]
    BY <1>1, <1>6 DEF ToSet
  <2>2. i - 1 \in DOMAIN Tail(q) /\ Tail(q)[i - 1] = x
    BY <1>1, <1>3, <1>4, <2>1
  <2>. QED  BY <2>2 DEF ToSet
<1>7. ASSUME NEW i \in DOMAIN Tail(q), NEW j \in DOMAIN Tail(q),
             Tail(q)[i] = Tail(q)[j]
      PROVE  i = j
  <2>1. q[i + 1] = q[j + 1] /\ i + 1 \in DOMAIN q /\ j + 1 \in DOMAIN q
    BY <1>1, <1>3, <1>4, <1>7
  <2>2. i + 1 = j + 1
    BY <2>1
  <2>. QED  BY <1>1, <1>4, <2>2
<1>8. Head(q) \in S /\ Head(q) \in ToSet(q)
  BY <1>1 DEF ToSet
<1>. QED  BY <1>2, <1>5, <1>6, <1>7, <1>8

\* A queue that holds no buffer twice is no longer than the set of buffers.
LEMMA QueueLength ==
    ASSUME NEW S, IsFiniteSet(S), NEW q \in Seq(S),
           \A i, j \in DOMAIN q : q[i] = q[j] => i = j
    PROVE  Len(q) <= Cardinality(S)
<1>1. q \in [1..Len(q) -> S] /\ Len(q) \in Nat
  OBVIOUS
<1>2. q \in Injection(1..Len(q), S)
  BY <1>1 DEF Injection, IsInjective
<1>3. Cardinality(1..Len(q)) <= Cardinality(S)
  BY <1>2, FS_Injection, Zenon
<1>4. Cardinality(1..Len(q)) = Len(q)
  <2>1. 1 \in Int /\ Len(q) \in Int
    BY <1>1
  <2>2. Cardinality(1..Len(q)) = IF 1 > Len(q) THEN 0 ELSE Len(q) - 1 + 1
    BY <2>1, FS_Interval, Zenon
  <2>. QED  BY <1>1, <2>2
<1>. QED  BY <1>3, <1>4

-----------------------------------------------------------------------------
(* Type correctness. *)

LEMMA InitTypeInv == Init => TypeInv
<1>. SUFFICES ASSUME Init PROVE TypeInv
  OBVIOUS
<1>1. PoolTypeOK /\ CaptureTypeOK
  BY DEF Init, PoolInit, CaptureInit, PoolTypeOK, CaptureTypeOK, Pointer
<1>2. DigTypeOK /\ UsbTypeOK
  <2>1. 0 \in 0..BlockSize + Overread
    BY CaptureAssumption, PacketAssumption
  <2>. QED  BY <2>1 DEF Init, DigInit, UsbInit, DigTypeOK, UsbTypeOK, Pointer
<1>3. PointersOK /\ BeforeStart
  BY DEF Init, CaptureInit, DigInit, UsbInit, PointersOK, BeforeStart
<1>. QED  BY <1>1, <1>2, <1>3 DEF TypeInv, TypeOK

\* Actions of the capture side leave the threads' variables alone.
LEMMA ThreadsUnchanged ==
    ASSUME TypeInv, UNCHANGED <<digVars, usbVars>>
    PROVE  DigTypeOK' /\ UsbTypeOK' /\ PointersOK'
BY DEF TypeInv, TypeOK, DigTypeOK, UsbTypeOK, PointersOK, digVars, usbVars

LEMMA ReadTypeInv == TypeInv /\ Read => TypeInv'
<1>. SUFFICES ASSUME TypeInv, Read PROVE TypeInv'
  OBVIOUS
<1>1. PoolTypeOK' /\ CaptureTypeOK' /\ BeforeStart'
  BY DEF Read, ReadInput, AfterAssert, TypeInv, TypeOK, PoolTypeOK, CaptureTypeOK,
         BeforeStart, digVars
<1>. QED  BY <1>1, ThreadsUnchanged DEF Read, TypeInv, TypeOK

LEMMA StartTypeInv == TypeInv /\ Start => TypeInv'
<1>. SUFFICES ASSUME TypeInv, Start PROVE TypeInv'
  OBVIOUS
<1>1. PoolTypeOK' /\ CaptureTypeOK' /\ BeforeStart'
  BY TryAllocateResult
     DEF Start, StartCapture, ConfigNextBuffer, AfterAssert, TypeInv, TypeOK,
         PoolTypeOK, CaptureTypeOK, Pointer, BeforeStart
<1>2. DigTypeOK' /\ UsbTypeOK'
  BY DEF Start, DigCreate, usbVars, TypeInv, TypeOK, DigTypeOK, UsbTypeOK
<1>3. digPc = "none"
  BY DEF Start, StartCapture, ReadAsserts, TypeInv, TypeOK, CaptureTypeOK, BeforeStart
<1>4. PointersOK'
  BY <1>3 DEF Start, DigCreate, usbVars, TypeInv, PointersOK
<1>. QED  BY <1>1, <1>2, <1>4 DEF TypeInv, TypeOK

LEMMA HardwareTypeInv == TypeInv /\ (HardwareStep \/ QspiIrqStep) => TypeInv'
<1>. SUFFICES ASSUME TypeInv, HardwareStep \/ QspiIrqStep PROVE TypeInv'
  OBVIOUS
<1>1. UNCHANGED <<free, digVars, usbVars>>
  BY DEF HardwareStep, Hardware, BlockDone, BlockLost, TransferError, QspiDone,
     QspiIrqStep, QspiIrq
<1>2. CaptureTypeOK' /\ BeforeStart'
  <2>1. CASE BlockDone
    BY <1>1, <2>1 DEF BlockDone, TypeInv, TypeOK, CaptureTypeOK, BeforeStart, digVars
  <2>2. CASE TransferError
    BY <1>1, <2>2 DEF TransferError, TypeInv, TypeOK, CaptureTypeOK, Pointer,
       BeforeStart, digVars
  <2>3. CASE BlockLost
    BY <1>1, <2>3 DEF BlockLost, TypeInv, TypeOK, CaptureTypeOK, BeforeStart, digVars
  <2>4. CASE QspiDone \/ QspiIrq
    BY <1>1, <2>4 DEF QspiDone, QspiIrq, TypeInv, TypeOK, CaptureTypeOK,
       BeforeStart, digVars
  <2>. QED  BY <2>1, <2>2, <2>3, <2>4 DEF HardwareStep, Hardware, QspiIrqStep
<1>. QED  BY <1>1, <1>2, ThreadsUnchanged DEF TypeInv, TypeOK, PoolTypeOK

LEMMA IsrTypeInv == TypeInv /\ IsrStep => TypeInv'
<1>. SUFFICES ASSUME TypeInv, IsrStep PROVE TypeInv'
  OBVIOUS
<1>1. UNCHANGED <<digVars, usbVars>>
  BY DEF IsrStep
<1>2. PoolTypeOK' /\ CaptureTypeOK' /\ BeforeStart'
  <2>1. CASE IsrPost
    <3>1. inQueue' \in Seq(Pointer)
      BY <2>1, AppendHolds DEF IsrPost, TypeInv, TypeOK, CaptureTypeOK
    <3>. QED
      BY <1>1, <2>1, <3>1 DEF IsrPost, TypeInv, TypeOK, PoolTypeOK, CaptureTypeOK,
         BeforeStart, digVars
  <2>2. CASE IsrAdvance
    BY <1>1, <2>2, TryAllocateResult
       DEF IsrAdvance, ConfigNextBuffer, ZeroEntry, TypeInv, TypeOK, PoolTypeOK,
           CaptureTypeOK, Pointer, BeforeStart, digVars
  <2>3. CASE IsrError
    BY <1>1, <2>3 DEF IsrError, TypeInv, TypeOK, PoolTypeOK, CaptureTypeOK,
       BeforeStart, digVars
  <2>. QED  BY <2>1, <2>2, <2>3 DEF IsrStep, Isr
<1>. QED  BY <1>1, <1>2, ThreadsUnchanged DEF TypeInv, TypeOK

LEMMA DigTypeInv == TypeInv /\ DigStep => TypeInv'
<1>. SUFFICES ASSUME TypeInv, DigStep PROVE TypeInv'
  OBVIOUS
<1>. USE DEF TypeInv, TypeOK, DigAt, CaptureFrame
<1>1. UsbTypeOK' /\ (usbBuf # NULL <=> usbPc \in {"transmit", "release"})'
  BY DEF DigStep, usbVars, UsbTypeOK, PointersOK
<1>2. digPc # "none" /\ qspi # "off" /\ qspi' = qspi
  BY DEF DigStep, DigIn, DigFetch, DigAllocate, TakeOutput, DigCompress, DigRelease, DigRefill,
         DigSend, BeforeStart
<1>3. BeforeStart'
  BY <1>2 DEF BeforeStart
<1>4. CASE DigFetch
  <2>1. inQueue' \in Seq(Pointer) /\ inputBuf' \in Pointer
    BY <1>4 DEF DigFetch, CaptureTypeOK
  <2>2. 0 \in 0..BlockSize + Overread
    BY CaptureAssumption, PacketAssumption
  <2>. QED
    BY <1>1, <1>3, <1>4, <2>1, <2>2
       DEF DigFetch, AfterAssert, PoolTypeOK, CaptureTypeOK, DigTypeOK, PointersOK
<1>5. CASE DigAllocate
  BY <1>1, <1>3, <1>5, TryAllocateResult
     DEF DigAllocate, TakeOutput, PoolTypeOK, CaptureTypeOK, DigTypeOK, PointersOK, Pointer
<1>6. CASE DigCompress
  <2>1. PICK n \in 0..(BlockSize - inputIndex) + Overread :
            /\ sampleidx' = sampleidx + n
            /\ inputIndex' = inputIndex + n
            /\ digPc' = IF n >= BlockSize - inputIndex THEN "release" ELSE "send"
    BY <1>6 DEF DigCompress
  <2>2. sampleidx' \in Nat /\ inputIndex' \in 0..BlockSize + Overread
    BY <2>1, CaptureAssumption, PacketAssumption DEF DigTypeOK
  <2>3. UNCHANGED <<free, inQueue, usbQueue, inputBuf, outputBuf, cpu>>
    BY <1>6 DEF DigCompress
  <2>4. outputBuf # NULL
    BY <1>6 DEF DigCompress, PointersOK
  <2>5. CaptureFrame
    BY <1>6 DEF DigCompress
  <2>. QED
    BY <1>1, <1>3, <2>1, <2>2, <2>3, <2>4, <2>5
       DEF PoolTypeOK, CaptureTypeOK, DigTypeOK, PointersOK
<1>7. CASE DigRelease
  <2>1. 0 \in 0..BlockSize + Overread
    BY CaptureAssumption, PacketAssumption
  <2>. QED
    BY <1>1, <1>3, <1>7, <2>1
       DEF DigRelease, Released, PoolTypeOK, CaptureTypeOK, DigTypeOK, PointersOK, Pointer
<1>8. CASE DigRefill
  <2>1. inQueue' \in Seq(Pointer) /\ inputBuf' \in Pointer
    <3>1. inQueue \in Seq(Pointer) /\ inputBuf \in Pointer
      BY DEF CaptureTypeOK, DigTypeOK
    <3>2. \/ /\ inQueue # <<>>
             /\ inputBuf' = Head(inQueue) /\ inQueue' = Tail(inQueue)
          \/ UNCHANGED <<inQueue, inputBuf>>
      BY <1>8 DEF DigRefill
    <3>. QED  BY <3>1, <3>2
  <2>. QED
    BY <1>1, <1>3, <1>8, <2>1
       DEF DigRefill, PoolTypeOK, CaptureTypeOK, DigTypeOK, PointersOK
<1>9. CASE DigSend
  <2>1. outputBuf \in Buffers
    BY <1>9 DEF DigSend, DigTypeOK, PointersOK, Pointer
  <2>2. usbQueue' \in Seq(Buffers)
    BY <1>9, <2>1, AppendHolds DEF DigSend, DigTypeOK
  <2>. QED
    BY <1>1, <1>3, <1>9, <2>2
       DEF DigSend, PoolTypeOK, CaptureTypeOK, DigTypeOK, PointersOK, Pointer
<1>. QED  BY <1>4, <1>5, <1>6, <1>7, <1>8, <1>9 DEF DigStep, DigIn

LEMMA UsbTypeInv == TypeInv /\ UsbStep => TypeInv'
<1>. SUFFICES ASSUME TypeInv, UsbStep PROVE TypeInv'
  OBVIOUS
<1>. USE DEF TypeInv, TypeOK, UsbAt, OthersFrame, CaptureFrame
<1>1. CaptureTypeOK' /\ BeforeStart'
  BY DEF UsbStep, Usb, UsbFetch, UsbTransmit, UsbRelease, UsbIdle, UsbSendStatus,
         CaptureTypeOK, BeforeStart
<1>2. CASE UsbFetch
  <2>1. usbBuf' \in Buffers /\ usbQueue' \in Seq(Buffers)
    BY <1>2 DEF UsbFetch, DigTypeOK
  <2>. QED
    BY <1>1, <1>2, <2>1, BuffersAssumption
       DEF UsbFetch, PoolTypeOK, DigTypeOK, UsbTypeOK, PointersOK, Pointer
<1>3. CASE UsbRelease
  BY <1>1, <1>3
     DEF UsbRelease, Released, PoolTypeOK, DigTypeOK, UsbTypeOK, PointersOK, Pointer
<1>4. CASE UsbTransmit
  BY <1>1, <1>4 DEF UsbTransmit, PoolTypeOK, DigTypeOK, UsbTypeOK, PointersOK
<1>5. CASE UsbIdle \/ UsbSendStatus
  BY <1>1, <1>5 DEF UsbIdle, UsbSendStatus, PoolTypeOK, DigTypeOK, UsbTypeOK, PointersOK
<1>. QED  BY <1>2, <1>3, <1>4, <1>5 DEF UsbStep, Usb

LEMMA StutterTypeInv == TypeInv /\ UNCHANGED vars => TypeInv'
BY DEF TypeInv, TypeOK, PoolTypeOK, CaptureTypeOK, DigTypeOK, UsbTypeOK, PointersOK,
       BeforeStart, vars, captureVars, digVars, usbVars

LEMMA TypeInvariant == Spec => []TypeInv
<1>1. TypeInv /\ [Next]_vars => TypeInv'
  BY ReadTypeInv, StartTypeInv, HardwareTypeInv, IsrTypeInv, DigTypeInv, UsbTypeInv,
     StutterTypeInv DEF Next
<1>. QED  BY InitTypeInv, <1>1, PTL DEF Spec

(* In every reachable state each variable holds what its declaration says: *)
(* in particular no null pointer ever gets into the USB write queue, which *)
(* the USB thread would dereference.                                       *)
THEOREM TypeCorrect == Spec => []TypeOK
<1>1. TypeInv => TypeOK
  BY DEF TypeInv
<1>. QED  BY TypeInvariant, <1>1, PTL

-----------------------------------------------------------------------------
(* Conservation of buffers, exclusive DMA, and posts that never fail.      *)
(* The three depend on each other: a failed post would lose its buffer; it *)
(* cannot fail because a queue holds each buffer once and never the one to *)
(* be posted; and that the posted buffer is nowhere else depends on the    *)
(* callback keeping up with the channel.                                   *)

\* A queue in which no buffer is twice: the plain form the lemmas above use.
LEMMA QueuesInjective ==
    ASSUME PipelineInv
    PROVE  /\ inQueue \in Seq(Buffers) /\ usbQueue \in Seq(Buffers)
           /\ \A i, j \in DOMAIN inQueue : inQueue[i] = inQueue[j] => i = j
           /\ \A i, j \in DOMAIN usbQueue : usbQueue[i] = usbQueue[j] => i = j
<1>1. inQueue \in Seq(Pointer) /\ usbQueue \in Seq(Buffers)
  BY DEF PipelineInv, TypeInv, TypeOK, CaptureTypeOK, DigTypeOK
<1>2. \A i \in DOMAIN inQueue : inQueue[i] \in Buffers
  BY <1>1 DEF PipelineInv, ChannelOK, ToSet, Pointer
<1>3. inQueue \in Seq(Buffers)
  BY <1>1, <1>2
<1>4. \A i \in DOMAIN usbQueue : usbQueue[i] # NULL
  BY <1>1, BuffersAssumption
<1>. QED
  BY <1>1, <1>2, <1>3, <1>4, BuffersAssumption
     DEF PipelineInv, BuffersConserved, QueuedOnce

\* The buffer about to be posted is not in the queue, so there is room.
LEMMA RoomInQueue ==
    ASSUME NEW q \in Seq(Buffers), NEW x \in Buffers, x \notin ToSet(q),
           \A i, j \in DOMAIN q : q[i] = q[j] => i = j
    PROVE  Len(q) < QueueSize
<1>1. q \in Seq(Buffers \ {x})
  BY DEF ToSet
<1>2. IsFiniteSet(Buffers \ {x}) /\ IsFiniteSet(Buffers)
  BY BuffersAssumption, FS_RemoveElement
<1>3. Len(q) <= Cardinality(Buffers \ {x})
  BY <1>1, <1>2, QueueLength
<1>4. Cardinality(Buffers \ {x}) = Cardinality(Buffers) - 1
  BY <1>2, FS_RemoveElement
<1>5. Cardinality(Buffers) \in Nat /\ Cardinality(Buffers) <= QueueSize
  BY <1>2, FS_CardinalityType, QueueAssumption
<1>. QED  BY <1>3, <1>4, <1>5, CaptureAssumption

LEMMA PostsSucceed == PipelineInv => PostsNeverFail
<1>. SUFFICES ASSUME PipelineInv PROVE PostsNeverFail
  OBVIOUS
<1>1. ASSUME "BTIF" \in cisr PROVE Len(inQueue) < QueueSize
  <2>1. isrPc = "idle" /\ current \in Buffers
    BY <1>1 DEF PipelineInv, ChannelOK, TypeInv, TypeOK, CaptureTypeOK, Pointer
  <2>2. current \notin ToSet(inQueue)
    BY <2>1 DEF PipelineInv, BuffersConserved, IsAt
  <2>. QED  BY <2>1, <2>2, QueuesInjective, RoomInQueue
<1>2. ASSUME digPc = "send" PROVE Len(usbQueue) < QueueSize
  <2>1. outputBuf \in Buffers
    BY <1>2 DEF PipelineInv, TypeInv, TypeOK, DigTypeOK, PointersOK, Pointer
  <2>2. outputBuf \notin ToSet(usbQueue)
    BY <2>1 DEF PipelineInv, BuffersConserved, IsAt
  <2>. QED  BY <2>1, <2>2, QueuesInjective, RoomInQueue
<1>. QED  BY <1>1, <1>2 DEF PostsNeverFail

\* Steps that move no buffer.
LEMMA NothingMoves ==
    ASSUME BuffersConserved,
           UNCHANGED <<free, current, isrPc, next, inQueue, inputBuf, outputBuf,
                       usbQueue, usbBuf>>
    PROVE  BuffersConserved'
BY DEF BuffersConserved, QueuedOnce, IsAt

LEMMA InitSafeInv == Init => PipelineInv
<1>. SUFFICES ASSUME Init PROVE PipelineInv
  OBVIOUS
<1>1. ChannelOK
  BY DEF Init, CaptureInit, ChannelOK, BlockEnded, ToSet
<1>2. ASSUME NEW b \in Buffers PROVE IsAt(b, "pool")
  BY <1>2, BuffersAssumption
     DEF Init, PoolInit, CaptureInit, DigInit, UsbInit, IsAt, ToSet
<1>3. QueuedOnce(inQueue) /\ QueuedOnce(usbQueue)
  BY DEF Init, CaptureInit, DigInit, QueuedOnce
<1>. QED  BY <1>1, <1>2, <1>3, InitTypeInv DEF PipelineInv, BuffersConserved, Places

LEMMA ReadSafeInv == PipelineInv /\ Read => ChannelOK' /\ BuffersConserved'
BY NothingMoves DEF PipelineInv, Read, ReadInput, ChannelOK, BlockEnded, digVars, usbVars

LEMMA StartSafeInv == PipelineInv /\ Start => ChannelOK' /\ BuffersConserved'
<1>. SUFFICES ASSUME PipelineInv, Start PROVE ChannelOK' /\ BuffersConserved'
  OBVIOUS
<1>1. /\ current = NULL /\ next = NULL /\ inQueue = <<>> /\ isrPc = "idle"
      /\ inQueue' = <<>> /\ isrPc' = "idle" /\ cisr' = {}
      /\ UNCHANGED <<inputBuf, outputBuf, usbQueue, usbBuf>>
  BY DEF Start, StartCapture, DigCreate, ReadAsserts, usbVars, PipelineInv, TypeInv,
         TypeOK, CaptureTypeOK, BeforeStart
<1>2. \E first, second :
        /\ first \in free \cup {NULL}
        /\ second \in (free \ {first}) \cup {NULL}
        /\ free' = free \ {first, second}
        /\ current' = first /\ hwDest' = first
        /\ next' = second /\ entry' = second
  BY TryAllocateResult DEF Start, StartCapture, ConfigNextBuffer
<1>3. PICK first, second :
        /\ first \in free \cup {NULL}
        /\ second \in (free \ {first}) \cup {NULL}
        /\ free' = free \ {first, second}
        /\ current' = first /\ hwDest' = first
        /\ next' = second /\ entry' = second
  BY <1>2
<1>4. ChannelOK'
  BY <1>1, <1>3 DEF ChannelOK, BlockEnded, ToSet
<1>5. ASSUME NEW b \in Buffers PROVE \E p \in Places : IsAt(b, p)'
  <2>1. PICK p \in Places : IsAt(b, p)
    BY DEF PipelineInv, BuffersConserved
  <2>2. b # NULL
    BY BuffersAssumption
  <2>3. CASE b = first
    <3>1. IsAt(b, "filling")'
      BY <1>1, <1>3, <2>1, <2>2, <2>3 DEF IsAt
    <3>. QED  BY <3>1 DEF Places
  <2>4. CASE b = second
    <3>1. IsAt(b, "armed")'
      BY <1>1, <1>3, <2>1, <2>2, <2>4 DEF IsAt
    <3>. QED  BY <3>1 DEF Places
  <2>5. CASE b \notin {first, second}
    <3>1. IsAt(b, p)'
      BY <1>1, <1>3, <2>1, <2>2, <2>5 DEF IsAt
    <3>. QED  BY <3>1
  <2>. QED  BY <2>3, <2>4, <2>5
<1>6. QueuedOnce(inQueue)' /\ QueuedOnce(usbQueue)'
  BY <1>1 DEF PipelineInv, BuffersConserved, QueuedOnce
<1>. QED  BY <1>4, <1>5, <1>6 DEF BuffersConserved

\* The channel is using the link entry exactly while a block has ended that
\* the callback has not moved on from.
LEMMA ChannelAhead ==
    ASSUME PipelineInv, hwDest # NULL
    PROVE  /\ hwDest = entry <=> BlockEnded
           /\ isrPc = "idle" => (BlockEnded <=> "BTIF" \in cisr)
           /\ ~BlockEnded => "BTIF" \notin cisr /\ isrPc = "idle"
<1>1. isrPc \in {"idle", "advance"} /\ hwDest \in Buffers
  BY DEF PipelineInv, TypeInv, TypeOK, CaptureTypeOK, Pointer
<1>2. entry = next /\ hwDest = IF BlockEnded THEN next ELSE current
  BY DEF PipelineInv, ChannelOK
<1>3. ~BlockEnded => isrPc = "idle" /\ "BTIF" \notin cisr
  BY <1>1 DEF BlockEnded
<1>4. ~BlockEnded => hwDest # next
  <2>1. PICK p \in Places : IsAt(hwDest, p)
    BY <1>1 DEF PipelineInv, BuffersConserved
  <2>. QED  BY <1>2, <1>3, <2>1 DEF IsAt
<1>. QED  BY <1>2, <1>3, <1>4 DEF BlockEnded

LEMMA HardwareSafeInv ==
    ASSUME IsrShort, PipelineInv, HardwareStep \/ QspiIrqStep
    PROVE  ChannelOK' /\ BuffersConserved'
<1>1. BuffersConserved'
  BY NothingMoves DEF PipelineInv, HardwareStep, Hardware, BlockDone, BlockLost,
     TransferError, QspiDone, QspiIrqStep, QspiIrq, digVars, usbVars
<1>2. CASE BlockDone
  <2>1. "BTIF" \notin cisr /\ isrPc = "idle"
    BY <1>2, ChannelAhead DEF BlockDone
  <2>2. /\ current # NULL /\ hwDest' = next /\ "BTIF" \in cisr'
        /\ UNCHANGED <<current, next, entry, isrPc, inQueue>>
    BY <1>2, <2>1 DEF BlockDone, PipelineInv, ChannelOK, BlockEnded
  <2>. QED  BY <1>1, <2>1, <2>2 DEF PipelineInv, ChannelOK, BlockEnded
<1>3. CASE TransferError \/ QspiDone \/ QspiIrq
  <2>1. /\ hwDest' \in {hwDest, NULL}
        /\ "BTIF" \in cisr' <=> "BTIF" \in cisr
        /\ UNCHANGED <<current, next, entry, isrPc, inQueue>>
    BY <1>3 DEF TransferError, QspiDone, QspiIrq
  <2>. QED  BY <1>1, <2>1 DEF PipelineInv, ChannelOK, BlockEnded
<1>4. CASE BlockLost
  <2>1. isrPc = "idle" /\ "BTIF" \in cisr
    BY <1>4, ChannelAhead DEF BlockLost
  <2>2. UNCHANGED <<current, next, entry, hwDest, cisr, isrPc, inQueue>>
    BY <1>4, <2>1 DEF BlockLost
  <2>. QED  BY <1>1, <2>1, <2>2 DEF PipelineInv, ChannelOK, BlockEnded
<1>. QED  BY <1>2, <1>3, <1>4 DEF HardwareStep, Hardware, QspiIrqStep

LEMMA IsrSafeInv == PipelineInv /\ IsrStep => ChannelOK' /\ BuffersConserved'
<1>. SUFFICES ASSUME PipelineInv, IsrStep PROVE ChannelOK' /\ BuffersConserved'
  OBVIOUS
<1>1. UNCHANGED <<inputBuf, outputBuf, usbQueue, usbBuf>>
  BY DEF IsrStep, digVars, usbVars
<1>2. ASSUME NEW b \in Buffers PROVE b # NULL
  BY BuffersAssumption
<1>3. CASE IsrPost
  <2>1. current \in Buffers /\ isrPc = "idle" /\ isrPc' = "advance"
    BY <1>3 DEF IsrPost, PipelineInv, ChannelOK, TypeInv, TypeOK, CaptureTypeOK, Pointer
  <2>2. /\ inQueue' = Append(inQueue, current)
        /\ UNCHANGED <<free, current, next, entry, hwDest>>
        /\ "BTIF" \notin cisr'
    BY <1>3, PostsSucceed DEF IsrPost, PostsNeverFail
  <2>3. ToSet(inQueue') = ToSet(inQueue) \cup {current}
    BY <2>1, <2>2, QueuesInjective, AppendHolds
  <2>4. current \notin ToSet(inQueue)
    BY <2>1 DEF PipelineInv, BuffersConserved, IsAt
  <2>5. ChannelOK'
    BY <1>2, <1>3, <2>1, <2>2, <2>3 DEF IsrPost, PipelineInv, ChannelOK, BlockEnded
  <2>6. ASSUME NEW b \in Buffers PROVE \E p \in Places : IsAt(b, p)'
    <3>1. PICK p \in Places : IsAt(b, p)
      BY DEF PipelineInv, BuffersConserved
    <3>2. IsAt(b, IF b = current THEN "input" ELSE p)'
      BY <1>1, <2>1, <2>2, <2>3, <3>1 DEF IsAt
    <3>. QED  BY <3>1, <3>2 DEF Places
  <2>7. \A i, j \in DOMAIN inQueue' : inQueue'[i] = inQueue'[j] => i = j
    <3>1. /\ Len(inQueue) \in Nat /\ DOMAIN inQueue = 1..Len(inQueue)
          /\ DOMAIN inQueue' = 1..Len(inQueue) + 1
          /\ \A i \in 1..Len(inQueue) : inQueue'[i] = inQueue[i]
          /\ inQueue'[Len(inQueue) + 1] = current
      BY <2>1, <2>2, QueuesInjective
    <3>2. \A i \in 1..Len(inQueue) : inQueue[i] # current
      BY <2>4, <3>1 DEF ToSet
    <3>. QED  BY <3>1, <3>2, QueuesInjective
  <2>8. QueuedOnce(inQueue)' /\ QueuedOnce(usbQueue)'
    BY <1>1, <2>7 DEF PipelineInv, BuffersConserved, QueuedOnce
  <2>. QED  BY <2>5, <2>6, <2>8 DEF BuffersConserved
<1>4. CASE IsrAdvance
  <2>1. PICK x \in free \cup {NULL} :
            /\ current' = next /\ next' = x /\ entry' = x /\ free' = free \ {x}
            /\ isrPc = "advance" /\ isrPc' = "idle"
            /\ UNCHANGED <<inQueue, hwDest, cisr>>
    BY <1>4, TryAllocateResult DEF IsrAdvance, ConfigNextBuffer, ZeroEntry
  <2>2. ChannelOK'
    BY <2>1 DEF PipelineInv, ChannelOK, BlockEnded
  <2>3. ASSUME NEW b \in Buffers PROVE \E p \in Places : IsAt(b, p)'
    <3>1. PICK p \in Places : IsAt(b, p)
      BY DEF PipelineInv, BuffersConserved
    <3>2. CASE b = x
      <4>1. IsAt(b, "armed")'
        BY <1>1, <1>2, <2>1, <3>1, <3>2 DEF IsAt
      <4>. QED  BY <4>1 DEF Places
    <3>3. CASE b # x /\ b = next
      <4>1. IsAt(b, "filling")'
        BY <1>1, <1>2, <2>1, <3>1, <3>3 DEF IsAt
      <4>. QED  BY <4>1 DEF Places
    <3>4. CASE b # x /\ b # next
      <4>1. IsAt(b, p)'
        BY <1>1, <1>2, <2>1, <3>1, <3>4 DEF IsAt
      <4>. QED  BY <4>1, <3>1
    <3>. QED  BY <3>2, <3>3, <3>4
  <2>4. QueuedOnce(inQueue)' /\ QueuedOnce(usbQueue)'
    BY <1>1, <2>1 DEF PipelineInv, BuffersConserved, QueuedOnce
  <2>. QED  BY <2>2, <2>3, <2>4 DEF BuffersConserved
<1>5. CASE IsrError
  <2>1. BuffersConserved'
    BY <1>1, <1>5, NothingMoves DEF IsrError, PipelineInv
  <2>. QED  BY <1>5, <2>1 DEF IsrError, PipelineInv, ChannelOK, BlockEnded
<1>. QED  BY <1>3, <1>4, <1>5 DEF IsrStep, Isr

\* The threads leave the channel and the callback alone.
LEMMA ThreadsChannelOK ==
    ASSUME PipelineInv, DigStep \/ UsbStep
    PROVE  /\ ChannelOK' /\ QueuedOnce(inQueue)'
           /\ UNCHANGED <<current, next, isrPc>>
<1>1. UNCHANGED <<current, next, entry, hwDest, cisr, isrPc>>
  BY DEF DigStep, DigIn, DigFetch, DigAllocate, TakeOutput, DigCompress, DigRelease, DigRefill,
         DigSend, UsbStep, Usb, UsbFetch, UsbTransmit, UsbRelease, UsbIdle,
         UsbSendStatus, OthersFrame, CaptureFrame
<1>2. \/ inQueue' = inQueue
      \/ inQueue # <<>> /\ inQueue' = Tail(inQueue)
  BY DEF DigStep, DigIn, DigFetch, DigAllocate, TakeOutput, DigCompress, DigRelease, DigRefill,
         DigSend, UsbStep, Usb, UsbFetch, UsbTransmit, UsbRelease, UsbIdle,
         UsbSendStatus, OthersFrame
<1>3. /\ ToSet(inQueue') \subseteq ToSet(inQueue)
      /\ \A i, j \in DOMAIN inQueue' : inQueue'[i] = inQueue'[j] => i = j
  BY <1>2, QueuesInjective, TailHolds
<1>4. ChannelOK'
  BY <1>1, <1>3 DEF PipelineInv, ChannelOK, BlockEnded
<1>5. QueuedOnce(inQueue)'
  BY <1>3 DEF QueuedOnce
<1>. QED  BY <1>1, <1>4, <1>5

\* A fetch: the oldest buffer of a queue moves to the thread, the others stay.
LEMMA FetchMoves ==
    ASSUME PipelineInv, NEW b \in Buffers, inQueue # <<>>, inQueue' = Tail(inQueue)
    PROVE  /\ Head(inQueue) \in Buffers
           /\ b \in ToSet(inQueue') <=> b \in ToSet(inQueue) /\ b # Head(inQueue)
           /\ b = Head(inQueue) => b \in ToSet(inQueue)
BY QueuesInjective, TailHolds

LEMMA DigSafeInv == PipelineInv /\ DigStep => ChannelOK' /\ BuffersConserved'
<1>. SUFFICES ASSUME PipelineInv, DigStep PROVE BuffersConserved'
  BY ThreadsChannelOK
<1>1. UNCHANGED <<current, next, isrPc, usbBuf>> /\ QueuedOnce(inQueue)'
  BY ThreadsChannelOK DEF DigStep, usbVars
<1>2. ASSUME NEW b \in Buffers
      PROVE  b # NULL /\ \E p \in Places : IsAt(b, p)
  BY BuffersAssumption DEF PipelineInv, BuffersConserved
<1>3. CASE DigFetch \/ (DigRefill /\ inQueue # <<>>)
  <2>1. /\ inputBuf = NULL /\ inQueue # <<>>
        /\ inputBuf' = Head(inQueue) /\ inQueue' = Tail(inQueue)
        /\ UNCHANGED <<free, usbQueue, outputBuf>>
    BY <1>3 DEF DigFetch, DigRefill, DigAt, PipelineInv, TypeInv, PointersOK
  <2>2. ASSUME NEW b \in Buffers PROVE \E p \in Places : IsAt(b, p)'
    <3>1. PICK p \in Places : IsAt(b, p)
      BY <1>2
    <3>2. CASE b = Head(inQueue)
      <4>1. IsAt(b, "reading")'
        BY <1>1, <1>2, <2>1, <3>1, <3>2, FetchMoves DEF IsAt
      <4>. QED  BY <4>1 DEF Places
    <3>3. CASE b # Head(inQueue)
      <4>1. IsAt(b, p)'
        BY <1>1, <1>2, <2>1, <3>1, <3>3, FetchMoves DEF IsAt
      <4>. QED  BY <3>1, <4>1
    <3>. QED  BY <3>2, <3>3
  <2>. QED  BY <1>1, <2>1, <2>2 DEF PipelineInv, BuffersConserved, QueuedOnce
<1>4. CASE DigCompress \/ (DigRefill /\ inQueue = <<>>)
  <2>1. UNCHANGED <<free, inQueue, inputBuf, outputBuf, usbQueue>>
    BY <1>4 DEF DigCompress, DigRefill
  <2>. QED  BY <1>1, <2>1, NothingMoves DEF PipelineInv
<1>5. CASE DigAllocate
  <2>1. outputBuf = NULL /\ UNCHANGED <<inQueue, usbQueue, inputBuf>>
    BY <1>5 DEF DigAllocate, TakeOutput, DigAt, PipelineInv, TypeInv, PointersOK
  <2>2. PICK x \in free \cup {NULL} :
            \/ x = NULL /\ UNCHANGED <<free, outputBuf>>
            \/ x # NULL /\ outputBuf' = x /\ free' = free \ {x}
    BY <1>5, TryAllocateResult DEF DigAllocate, TakeOutput
  <2>3. ASSUME NEW b \in Buffers PROVE \E p \in Places : IsAt(b, p)'
    <3>1. PICK p \in Places : IsAt(b, p)
      BY <1>2
    <3>2. CASE b = x
      <4>1. IsAt(b, "writing")'
        BY <1>1, <1>2, <2>1, <2>2, <3>1, <3>2 DEF IsAt
      <4>. QED  BY <4>1 DEF Places
    <3>3. CASE b # x
      <4>1. IsAt(b, p)'
        BY <1>1, <1>2, <2>1, <2>2, <3>1, <3>3 DEF IsAt
      <4>. QED  BY <3>1, <4>1
    <3>. QED  BY <3>2, <3>3
  <2>. QED  BY <1>1, <2>1, <2>3 DEF PipelineInv, BuffersConserved, QueuedOnce
<1>6. CASE DigRelease
  <2>1. /\ inputBuf \in Pointer
        /\ free' = (IF inputBuf = NULL THEN free ELSE free \cup {inputBuf})
        /\ inputBuf' = NULL /\ UNCHANGED <<inQueue, usbQueue, outputBuf>>
    BY <1>6 DEF DigRelease, Released, PipelineInv, TypeInv, TypeOK, DigTypeOK
  <2>2. ASSUME NEW b \in Buffers PROVE \E p \in Places : IsAt(b, p)'
    <3>1. PICK p \in Places : IsAt(b, p)
      BY <1>2
    <3>2. CASE b = inputBuf
      <4>1. IsAt(b, "pool")'
        BY <1>1, <1>2, <2>1, <3>1, <3>2 DEF IsAt
      <4>. QED  BY <4>1 DEF Places
    <3>3. CASE b # inputBuf
      <4>1. IsAt(b, p)'
        BY <1>1, <1>2, <2>1, <3>1, <3>3 DEF IsAt
      <4>. QED  BY <3>1, <4>1
    <3>. QED  BY <3>2, <3>3
  <2>. QED  BY <1>1, <2>1, <2>2 DEF PipelineInv, BuffersConserved, QueuedOnce
<1>7. CASE DigSend
  <2>1. /\ outputBuf \in Buffers /\ outputBuf' = NULL
        /\ usbQueue' = Append(usbQueue, outputBuf)
        /\ UNCHANGED <<free, inQueue, inputBuf>>
    BY <1>7 DEF DigSend, DigAt, PipelineInv, TypeInv, TypeOK, DigTypeOK, PointersOK, Pointer
  <2>2. ToSet(usbQueue') = ToSet(usbQueue) \cup {outputBuf}
    BY <2>1, QueuesInjective, AppendHolds
  <2>3. outputBuf \notin ToSet(usbQueue)
    BY <1>2, <2>1 DEF IsAt
  <2>4. ASSUME NEW b \in Buffers PROVE \E p \in Places : IsAt(b, p)'
    <3>1. PICK p \in Places : IsAt(b, p)
      BY <1>2
    <3>2. CASE b = outputBuf
      <4>1. IsAt(b, "output")'
        BY <1>1, <1>2, <2>1, <2>2, <3>1, <3>2 DEF IsAt
      <4>. QED  BY <4>1 DEF Places
    <3>3. CASE b # outputBuf
      <4>1. IsAt(b, p)'
        BY <1>1, <1>2, <2>1, <2>2, <3>1, <3>3 DEF IsAt
      <4>. QED  BY <3>1, <4>1
    <3>. QED  BY <3>2, <3>3
  <2>5. \A i, j \in DOMAIN usbQueue' : usbQueue'[i] = usbQueue'[j] => i = j
    <3>1. /\ Len(usbQueue) \in Nat /\ DOMAIN usbQueue = 1..Len(usbQueue)
          /\ DOMAIN usbQueue' = 1..Len(usbQueue) + 1
          /\ \A i \in 1..Len(usbQueue) : usbQueue'[i] = usbQueue[i]
          /\ usbQueue'[Len(usbQueue) + 1] = outputBuf
      BY <2>1, QueuesInjective
    <3>2. \A i \in 1..Len(usbQueue) : usbQueue[i] # outputBuf
      BY <2>3, <3>1 DEF ToSet
    <3>. QED  BY <3>1, <3>2, QueuesInjective
  <2>. QED  BY <1>1, <2>4, <2>5 DEF BuffersConserved, QueuedOnce
<1>. QED  BY <1>3, <1>4, <1>5, <1>6, <1>7 DEF DigStep, DigIn

LEMMA UsbSafeInv == PipelineInv /\ UsbStep => ChannelOK' /\ BuffersConserved'
<1>. SUFFICES ASSUME PipelineInv, UsbStep PROVE BuffersConserved'
  BY ThreadsChannelOK
<1>1. /\ UNCHANGED <<current, next, isrPc, inQueue, inputBuf, outputBuf>>
      /\ QueuedOnce(inQueue)'
  BY ThreadsChannelOK DEF UsbStep, Usb, UsbFetch, UsbTransmit, UsbRelease, UsbIdle,
     UsbSendStatus, OthersFrame
<1>2. ASSUME NEW b \in Buffers
      PROVE  b # NULL /\ \E p \in Places : IsAt(b, p)
  BY BuffersAssumption DEF PipelineInv, BuffersConserved
<1>3. CASE UsbFetch
  <2>1. /\ usbBuf = NULL /\ usbQueue # <<>> /\ free' = free
        /\ usbBuf' = Head(usbQueue) /\ usbQueue' = Tail(usbQueue)
    BY <1>3 DEF UsbFetch, UsbAt, PipelineInv, TypeInv, PointersOK
  <2>2. /\ Head(usbQueue) \in Buffers /\ Head(usbQueue) \in ToSet(usbQueue)
        /\ ToSet(usbQueue') = ToSet(usbQueue) \ {Head(usbQueue)}
        /\ \A i, j \in DOMAIN usbQueue' : usbQueue'[i] = usbQueue'[j] => i = j
    BY <2>1, QueuesInjective, TailHolds
  <2>3. ASSUME NEW b \in Buffers PROVE \E p \in Places : IsAt(b, p)'
    <3>1. PICK p \in Places : IsAt(b, p)
      BY <1>2
    <3>2. CASE b = Head(usbQueue)
      <4>1. IsAt(b, "sending")'
        BY <1>1, <1>2, <2>1, <2>2, <3>1, <3>2 DEF IsAt
      <4>. QED  BY <4>1 DEF Places
    <3>3. CASE b # Head(usbQueue)
      <4>1. IsAt(b, p)'
        BY <1>1, <1>2, <2>1, <2>2, <3>1, <3>3 DEF IsAt
      <4>. QED  BY <3>1, <4>1
    <3>. QED  BY <3>2, <3>3
  <2>. QED  BY <1>1, <2>2, <2>3 DEF BuffersConserved, QueuedOnce
<1>4. CASE UsbRelease
  <2>1. /\ usbBuf \in Buffers /\ free' = free \cup {usbBuf}
        /\ usbBuf' = NULL /\ usbQueue' = usbQueue
    BY <1>4 DEF UsbRelease, UsbAt, Released, PipelineInv, TypeInv, TypeOK, UsbTypeOK,
       PointersOK, Pointer
  <2>2. ASSUME NEW b \in Buffers PROVE \E p \in Places : IsAt(b, p)'
    <3>1. PICK p \in Places : IsAt(b, p)
      BY <1>2
    <3>2. CASE b = usbBuf
      <4>1. IsAt(b, "pool")'
        BY <1>1, <1>2, <2>1, <3>1, <3>2 DEF IsAt
      <4>. QED  BY <4>1 DEF Places
    <3>3. CASE b # usbBuf
      <4>1. IsAt(b, p)'
        BY <1>1, <1>2, <2>1, <3>1, <3>3 DEF IsAt
      <4>. QED  BY <3>1, <4>1
    <3>. QED  BY <3>2, <3>3
  <2>. QED  BY <1>1, <2>1, <2>2 DEF PipelineInv, BuffersConserved, QueuedOnce
<1>5. CASE UsbTransmit \/ UsbIdle \/ UsbSendStatus
  <2>1. UNCHANGED <<free, usbQueue, usbBuf>>
    BY <1>5 DEF UsbTransmit, UsbIdle, UsbSendStatus
  <2>. QED  BY <1>1, <2>1, NothingMoves DEF PipelineInv
<1>. QED  BY <1>3, <1>4, <1>5 DEF UsbStep, Usb

LEMMA StutterSafeInv == PipelineInv /\ UNCHANGED vars => ChannelOK' /\ BuffersConserved'
BY NothingMoves DEF PipelineInv, ChannelOK, BlockEnded, vars, captureVars, digVars, usbVars

(* The invariant that the results below follow from: each buffer is with   *)
(* the holder that the channel, the callback and the threads take it for.  *)
THEOREM PipelineInvariant == ASSUME IsrShort PROVE Spec => []PipelineInv
<1>1. ASSUME PipelineInv, [Next]_vars PROVE PipelineInv'
  <2>1. TypeInv'
    BY <1>1, ReadTypeInv, StartTypeInv, HardwareTypeInv, IsrTypeInv, DigTypeInv,
       UsbTypeInv, StutterTypeInv DEF Next, PipelineInv
  <2>2. ChannelOK' /\ BuffersConserved'
    BY <1>1, ReadSafeInv, StartSafeInv, HardwareSafeInv, IsrSafeInv, DigSafeInv,
       UsbSafeInv, StutterSafeInv DEF Next
  <2>. QED  BY <2>1, <2>2 DEF PipelineInv
<1>. QED  BY InitSafeInv, <1>1, PTL DEF Spec

-----------------------------------------------------------------------------
(* The results. *)

(* However the callback, the threads and the shell interleave, no buffer   *)
(* is lost, freed twice, or held by two of them (databuf.c and its users). *)
THEOREM Conservation == ASSUME IsrShort PROVE Spec => []BuffersConserved
<1>1. PipelineInv => BuffersConserved
  BY DEF PipelineInv
<1>. QED  BY PipelineInvariant, <1>1, PTL

(* The channel never writes into a buffer the threads can reach: posting a *)
(* block in input_quadspi_mdma_callback really hands it over.              *)
THEOREM ExclusiveDma == ASSUME IsrShort PROVE Spec => []DmaExclusive
<1>1. ASSUME PipelineInv, hwDest # NULL
      PROVE  hwDest \notin free \cup ToSet(inQueue) \cup ToSet(usbQueue)
                               \cup {inputBuf, outputBuf, usbBuf}
  <2>1. hwDest \in Buffers /\ hwDest = IF BlockEnded THEN next ELSE current
    BY <1>1 DEF PipelineInv, ChannelOK, TypeInv, TypeOK, CaptureTypeOK, Pointer
  <2>2. PICK p \in Places : IsAt(hwDest, p)
    BY <1>1, <2>1 DEF PipelineInv, BuffersConserved
  <2>3. isrPc = "idle" \/ BlockEnded
    BY <1>1 DEF PipelineInv, TypeInv, TypeOK, CaptureTypeOK, BlockEnded
  <2>4. p \in {"filling", "armed"}
    BY <2>1, <2>2, <2>3 DEF IsAt
  <2>. QED  BY <2>2, <2>4 DEF IsAt
<1>2. PipelineInv => DmaExclusive
  BY <1>1 DEF DmaExclusive
<1>. QED  BY PipelineInvariant, <1>2, PTL

(* chMBPostI in the callback, whose result is ignored, always succeeds,    *)
(* and usb_thread_write never blocks, because the mailboxes have at least  *)
(* as many slots as there are buffers.                                     *)
THEOREM QueuesNeverFull == ASSUME IsrShort PROVE Spec => []PostsNeverFail
BY PipelineInvariant, PostsSucceed, PTL

-----------------------------------------------------------------------------
(* No assertion fails while the shell has run no second command.           *)

\* Allocation for the CPU, whose search tries all four pools, fails only when
\* all are empty.
LEMMA AllocateForCpu ==
    ASSUME NEW pool \in SUBSET Buffers, NEW x \in pool, NEW b \in TryAllocate(pool, "CPU")
    PROVE  b \in pool
<1>. DEFINE usable == {c \in pool : SearchRank("CPU", DomainOf[c]) < 4}
<1>1. ASSUME NEW d \in Domains PROVE SearchRank("CPU", d) < 4
  BY DEF Domains, SearchRank
<1>2. \A c \in pool : DomainOf[c] \in Domains
  BY BuffersAssumption
<1>3. usable # {}
  BY <1>1, <1>2
<1>. QED  BY <1>3 DEF TryAllocate

\* Before the first start all buffers are in the pool, and only a command
\* starts; the system has not failed unless a second command was run.
StartUpInv ==
    /\ qspi = "off" => free = Buffers
    /\ qspi # "off" => commands >= 1
    /\ commands <= 1 => NoAssertFailure

LEMMA StartUpInvHolds ==
    ASSUME \E a, b \in Buffers : a # b, PipelineInv, StartUpInv, [Next]_vars
    PROVE  StartUpInv'
<1>1. /\ free \subseteq Buffers /\ commands \in Nat /\ usbBuf \in Pointer
      /\ qspi \in {"off", "busy", "done"}
      /\ qspi = "off" => "BTIF" \notin cisr /\ isrPc = "idle" /\ digPc = "none"
  BY DEF PipelineInv, TypeInv, TypeOK, PoolTypeOK, CaptureTypeOK, UsbTypeOK, BeforeStart
<1>2. CASE Read
  BY <1>1, <1>2 DEF Read, ReadInput, ReadAsserts, AfterAssert, StartUpInv, NoAssertFailure
<1>3. CASE Start
  <2>1. free = Buffers /\ qspi' = "busy" /\ commands' = commands + 1
    BY <1>1, <1>3 DEF Start, StartCapture, ReadAsserts, StartUpInv
  <2>2. PICK first \in TryAllocate(free, "CPU") :
            \E second \in TryAllocate(free \ {first}, "CPU") :
                cpu' = AfterAssert(NULL \notin {first, second})
    BY <1>3 DEF Start, StartCapture
  <2>. PICK second \in TryAllocate(free \ {first}, "CPU") :
            cpu' = AfterAssert(NULL \notin {first, second})
    BY <2>2
  <2>3. first \in Buffers
    BY <2>1, <2>2, AllocateForCpu
  <2>4. second \in Buffers
    <3>1. PICK x : x \in free \ {first}
      BY <2>1
    <3>2. free \ {first} \in SUBSET Buffers
      BY <2>1
    <3>. QED  BY <3>1, <3>2, AllocateForCpu
  <2>5. NULL \notin {first, second}
    BY <2>3, <2>4, BuffersAssumption
  <2>. QED  BY <1>1, <2>1, <2>5 DEF AfterAssert, StartUpInv, NoAssertFailure
<1>4. CASE HardwareStep \/ QspiIrqStep
  BY <1>4 DEF HardwareStep, Hardware, BlockDone, BlockLost, TransferError, QspiDone,
     QspiIrqStep, QspiIrq, StartUpInv, NoAssertFailure
<1>5. CASE IsrStep
  BY <1>1, <1>5 DEF IsrStep, Isr, IsrPost, IsrAdvance, IsrError, StartUpInv, NoAssertFailure
<1>6. CASE DigStep
  <2>1. qspi # "off" /\ UNCHANGED <<qspi, commands>>
    BY <1>1, <1>6 DEF DigStep, DigIn, DigFetch, DigAllocate, DigCompress, DigRelease,
       DigRefill, DigSend, DigAt, CaptureFrame
  <2>2. cpu' = cpu
    <3>1. CASE DigFetch
      <4>1. inQueue # <<>> /\ inputBuf' = Head(inQueue)
            /\ cpu = "running" /\ cpu' = AfterAssert(HasDomain(inputBuf'))
        BY <3>1 DEF DigFetch, DigAt, ThreadsRun
      <4>2. Head(inQueue) \in Buffers
        BY <4>1, QueuesInjective
      <4>. QED  BY <4>1, <4>2, BuffersAssumption DEF AfterAssert, HasDomain
    <3>2. CASE DigIn /\ ~DigFetch
      BY <3>2 DEF DigIn, DigAllocate, DigCompress, DigRelease, DigRefill, DigSend
    <3>. QED  BY <1>6, <3>1, <3>2 DEF DigStep
  <2>. QED  BY <2>1, <2>2 DEF StartUpInv, NoAssertFailure
<1>7. CASE UsbStep
  <2>1. UNCHANGED <<qspi, commands, cpu>>
    BY <1>7 DEF UsbStep, Usb, UsbFetch, UsbTransmit, UsbRelease, UsbIdle, UsbSendStatus,
       OthersFrame, CaptureFrame
  <2>2. free' = free \/ free' = Released(free, usbBuf)
    BY <1>7 DEF UsbStep, Usb, UsbFetch, UsbTransmit, UsbRelease, UsbIdle, UsbSendStatus
  <2>. QED  BY <1>1, <2>1, <2>2 DEF Released, Pointer, StartUpInv, NoAssertFailure
<1>8. CASE UNCHANGED vars
  BY <1>8 DEF vars, captureVars, StartUpInv, NoAssertFailure
<1>. QED  BY <1>2, <1>3, <1>4, <1>5, <1>6, <1>7, <1>8 DEF Next

(* Given two buffers to start with, none of the assertions of              *)
(* input_quadspi_read, input_quadspi_start and databuf_get_domain fails as *)
(* long as the shell has run one input_quadspi command at most: a second   *)
(* one is the only way to abort().                                         *)
THEOREM AssertionsHold ==
    ASSUME IsrShort, \E a, b \in Buffers : a # b
    PROVE  Spec => [](commands <= 1 => NoAssertFailure)
<1>1. Init => StartUpInv
  BY DEF Init, PoolInit, CaptureInit, StartUpInv, NoAssertFailure
<1>2. PipelineInv /\ StartUpInv /\ [Next]_vars => StartUpInv'
  BY StartUpInvHolds
<1>3. StartUpInv => (commands <= 1 => NoAssertFailure)
  BY DEF StartUpInv
<1>. QED  BY <1>1, <1>2, <1>3, PipelineInvariant, PTL DEF Spec

-----------------------------------------------------------------------------
(* Blocks, packets and the contents of queues.                             *)

\* The last sample of a block is where a block ends.
LEMMA BlockEndsBlock ==
    ASSUME NEW n \in Int, NEW s \in Int, s + 1 = n * BlockSize
    PROVE  Stream!EndsBlock(s)
<1>1. BlockSize \in Positive /\ n * BlockSize \in Int /\ s + 1 = BlockSize * n + 0
  BY CaptureAssumption DEF Positive
<1>2. (s + 1) % BlockSize = 0
  <2>1. 0 \in Int /\ 0 <= 0 /\ 0 < BlockSize /\ s + 1 \in Int
    BY CaptureAssumption
  <2>. DEFINE a == s + 1
  <2>2. a \in Int /\ a = BlockSize * n + 0
    BY <1>1, <2>1
  <2>. HIDE DEF a
  <2>3. a % BlockSize = 0
    BY <1>1, <2>1, <2>2, RemainderIs
  <2>. QED  BY <2>3 DEF a
<1>. QED  BY <1>2 DEF Stream!EndsBlock

\* A packet without words carries no sample.
LEMMA CarriesNothing == ASSUME NEW n \in Int PROVE Stream!Carries(<<>>, n, n)
BY DEF Stream!Carries

\* What a call of snappy_compress appends: what is left of a block, or some of
\* it, and behind it words that are no samples.
Part(to, left, n) == [i \in 1..n |-> IF i <= left THEN to + i - 1 ELSE Stray]

\* Carries, with the two names of the stray word made one.
LEMMA CarriesIs ==
    ASSUME NEW data, NEW from, NEW upto,
           \A s \in from..upto - 1 : \E i \in DOMAIN data : data[i] = s,
           \A i, j \in DOMAIN data : i < j /\ data[j] # Stray => data[i] < data[j],
           \A i \in DOMAIN data :
              \/ data[i] \in from..upto - 1
              \/ /\ data[i] = Stray
                 /\ \E d \in 1..Overread : /\ d < i
                                           /\ data[i - d] # Stray
                                           /\ Stream!EndsBlock(data[i - d])
    PROVE  Stream!Carries(data, from, upto)
<1>1. Stream!Stray = Stray
  BY DEF Stream!Stray, Stray
<1>2. \A i, j \in DOMAIN data : i < j /\ data[j] # Stream!Stray => data[i] < data[j]
  BY <1>1
<1>3. \A i \in DOMAIN data :
              \/ data[i] \in from..upto - 1
              \/ /\ data[i] = Stream!Stray
                 /\ \E d \in 1..Overread : /\ d < i
                                           /\ data[i - d] # Stream!Stray
                                           /\ Stream!EndsBlock(data[i - d])
  BY <1>1
<1>. QED  BY <1>2, <1>3 DEF Stream!Carries

\* A packet extended by such a part carries the samples of the part, too.
LEMMA CarriesMore ==
    ASSUME NEW data \in Seq(Int), NEW from \in Nat, NEW to \in Nat, from <= to,
           Stream!Carries(data, from, to),
           NEW left \in Nat \ {0}, NEW n \in 0..left + Overread,
           Stream!EndsBlock(to + left - 1)
    PROVE  LET more == data \o Part(to, left, n)
               m    == IF n >= left THEN left ELSE n
           IN  /\ more \in Seq(Int) /\ Len(more) = Len(data) + n
               /\ data # <<>> => more # <<>> /\ more[1] = data[1]
               /\ data = <<>> /\ n > 0 => more # <<>> /\ more[1] = to
               /\ Stream!Carries(more, from, to + m)
<1>. DEFINE part == Part(to, left, n)
            more == data \o part
            m    == IF n >= left THEN left ELSE n
            upto == to + m
            k    == Len(data)
<1>1. /\ n \in Nat /\ k \in Nat /\ m \in 0..n /\ m <= left /\ left \in Nat
      /\ DOMAIN data = 1..k /\ Overread \in Nat
      /\ from \in Int /\ to \in Int
  BY PacketAssumption
<1>2. /\ part \in Seq(Int) /\ Len(part) = n
      /\ \A i \in 1..n : part[i] = IF i <= left THEN to + i - 1 ELSE Stray
  <2>1. part \in [1..n -> Int]
    BY <1>1 DEF Part, Stray
  <2>. QED  BY <1>1, <2>1 DEF Part
<1>. HIDE DEF part
<1>3. /\ more \in Seq(Int) /\ Len(more) = k + n /\ DOMAIN more = 1..k + n
      /\ \A i \in 1..k + n : more[i] = IF i <= k THEN data[i] ELSE part[i - k]
  <2>1. /\ more \in Seq(Int) /\ Len(more) = k + n
        /\ \A i \in 1..k + n : more[i] = IF i <= k THEN data[i] ELSE part[i - k]
    BY <1>2, ConcatProperties
  <2>. QED  BY <1>1, <2>1
<1>. HIDE DEF more
<1>4. /\ \A i \in 1..k : i \in 1..k + n /\ more[i] = data[i]
      /\ \A i \in k + 1 .. k + n :
            /\ i - k \in 1..n
            /\ more[i] = IF i - k <= left THEN to + (i - k) - 1 ELSE Stray
  <2>1. ASSUME NEW i \in 1..k PROVE i \in 1..k + n /\ more[i] = data[i]
    BY <1>1, <1>3
  <2>2. ASSUME NEW i \in k + 1 .. k + n
        PROVE  /\ i - k \in 1..n
               /\ more[i] = IF i - k <= left THEN to + (i - k) - 1 ELSE Stray
    <3>1. i - k \in 1..n /\ i \in 1..k + n /\ ~(i <= k)
      BY <1>1
    <3>. QED  BY <1>2, <1>3, <3>1
  <2>. QED  BY <2>1, <2>2
<1>5. \A i \in 1..k + n : i \in 1..k \/ i \in k + 1 .. k + n
  BY <1>1
<1>. HIDE DEF k, m
<1>13. upto \in Nat /\ upto = to + m
  BY <1>1
<1>. HIDE DEF upto
<1>6. ASSUME NEW s \in from..upto - 1 PROVE \E i \in DOMAIN more : more[i] = s
  <2>1. CASE s < to
    <3>1. s \in from..to - 1
      BY <1>1, <2>1
    <3>2. PICK i \in 1..k : data[i] = s
      BY <1>1, <3>1 DEF Stream!Carries
    <3>. QED  BY <1>3, <1>4, <3>2
  <2>2. CASE s >= to
    <3>. DEFINE i == k + (s - to) + 1
    <3>1. /\ i \in k + 1 .. k + n /\ i - k <= left /\ to + (i - k) - 1 = s
          /\ i \in 1..k + n
      BY <1>1, <1>13, <2>2
    <3>. HIDE DEF i
    <3>. QED  BY <1>3, <1>4, <3>1
  <2>. QED  BY <1>1, <2>1, <2>2
<1>7. ASSUME NEW i \in 1..k PROVE data[i] \in from..to - 1 \/ data[i] = Stray
  BY <1>1, <1>7 DEF Stream!Carries, Stream!Stray, Stray
<1>8. ASSUME NEW i \in DOMAIN more, NEW j \in DOMAIN more, i < j, more[j] # Stray
      PROVE  more[i] < more[j]
  <2>1. CASE j \in 1..k
    <3>1. i \in 1..k
      BY <1>1, <1>3, <1>8, <2>1
    <3>. QED  BY <1>1, <1>4, <1>8, <2>1, <3>1 DEF Stream!Carries, Stream!Stray, Stray
  <2>2. CASE j \in k + 1 .. k + n /\ i \in 1..k
    <3>1. more[j] \in Int /\ more[j] >= to
      BY <1>1, <1>4, <1>8, <2>2
    <3>2. more[i] \in Int /\ more[i] < to
      BY <1>1, <1>4, <1>7, <2>2 DEF Stray
    <3>. QED  BY <1>1, <3>1, <3>2
  <2>3. CASE j \in k + 1 .. k + n /\ i \in k + 1 .. k + n
    <3>1. more[j] = to + (j - k) - 1 /\ j - k <= left
      BY <1>4, <1>8, <2>3
    <3>2. more[i] = to + (i - k) - 1
      BY <1>1, <1>4, <1>8, <2>3, <3>1
    <3>. QED  BY <1>1, <1>8, <2>3, <3>1, <3>2
  <2>. QED  BY <1>3, <1>5, <1>8, <2>1, <2>2, <2>3
<1>9. ASSUME NEW i \in DOMAIN more
      PROVE  \/ more[i] \in from..upto - 1
             \/ /\ more[i] = Stray
                /\ \E d \in 1..Overread : /\ d < i
                                          /\ more[i - d] # Stray
                                          /\ Stream!EndsBlock(more[i - d])
  <2>1. CASE i \in 1..k
    <3>1. CASE data[i] \in from..to - 1
      BY <1>1, <1>4, <1>13, <2>1, <3>1
    <3>2. CASE data[i] \notin from..to - 1
      <4>1. PICK d \in 1..Overread : /\ data[i] = Stray /\ d < i
                                     /\ data[i - d] # Stray
                                     /\ Stream!EndsBlock(data[i - d])
        BY <1>1, <2>1, <3>2 DEF Stream!Carries, Stream!Stray, Stray
      <4>2. i - d \in 1..k
        BY <1>1, <2>1, <4>1
      <4>. QED  BY <1>4, <2>1, <4>1, <4>2
    <3>. QED  BY <3>1, <3>2
  <2>2. CASE i \in k + 1 .. k + n
    <3>1. CASE i - k <= left
      <4>1. more[i] = to + (i - k) - 1
        BY <1>4, <2>2, <3>1
      <4>. QED  BY <1>1, <1>13, <2>2, <3>1, <4>1 DEF m
    <3>2. CASE ~(i - k <= left)
      <4>. DEFINE d == i - k - left
      <4>1. /\ d \in 1..Overread /\ d < i /\ i - d = k + left
            /\ i - d \in k + 1 .. k + n /\ (i - d) - k = left
        BY <1>1, <2>2, <3>2
      <4>. HIDE DEF d
      <4>2. more[i - d] = to + left - 1
        BY <1>1, <1>4, <4>1
      <4>3. more[i] = Stray /\ to + left - 1 # Stray
        BY <1>1, <1>4, <2>2, <3>2 DEF Stray
      <4>. QED  BY <4>1, <4>2, <4>3
    <3>. QED  BY <3>1, <3>2
  <2>. QED  BY <1>3, <1>5, <2>1, <2>2
<1>10. Stream!Carries(more, from, upto)
  <2>1. \A s \in from..upto - 1 : \E i \in DOMAIN more : more[i] = s
    BY <1>6
  <2>2. \A i, j \in DOMAIN more : i < j /\ more[j] # Stray => more[i] < more[j]
    BY <1>8
  <2>3. \A i \in DOMAIN more :
          \/ more[i] \in from..upto - 1
          \/ /\ more[i] = Stray
             /\ \E d \in 1..Overread : /\ d < i
                                       /\ more[i - d] # Stray
                                       /\ Stream!EndsBlock(more[i - d])
    BY <1>9
  <2>. QED  BY <2>1, <2>2, <2>3, CarriesIs, Zenon
<1>11. ASSUME data # <<>> PROVE more # <<>> /\ more[1] = data[1]
  <2>1. 1 \in 1..k
    BY <1>11 DEF k
  <2>. QED  BY <1>3, <1>4, <2>1
<1>12. ASSUME data = <<>>, n > 0 PROVE more # <<>> /\ more[1] = to
  <2>1. k = 0 /\ 1 \in k + 1 .. k + n
    BY <1>1, <1>12 DEF k
  <2>2. more[1] = to
    BY <1>1, <1>4, <2>1
  <2>. QED  BY <1>1, <1>3, <1>12, <2>1, <2>2
<1>. QED  BY <1>3, <1>10, <1>11, <1>12 DEF more, part, m, k, upto

\* The products that number blocks: the next block begins where one ends.
LEMMA NextBlock ==
    ASSUME NEW n \in Int
    PROVE  /\ n * BlockSize \in Int
           /\ (n + 1) * BlockSize = n * BlockSize + BlockSize
<1>1. BlockSize \in Int
  BY CaptureAssumption
<1>. QED  BY <1>1

\* A packet that is not empty begins with a sample.
LEMMA CarriesFirst ==
    ASSUME NEW data \in Seq(Int), data # <<>>, NEW from \in Int, NEW to \in Int,
           Stream!Carries(data, from, to)
    PROVE  data[1] \in from..to - 1
<1>1. 1 \in DOMAIN data
  OBVIOUS
<1>2. ~ \E k \in 1..Overread : k < 1
  BY PacketAssumption
<1>. QED  BY <1>1, <1>2 DEF Stream!Carries

-----------------------------------------------------------------------------
(* StreamInv is an invariant. *)

\* Types, in the form the steps below use.
LEMMA Numbers ==
    ASSUME PipelineInv
    PROVE  /\ BlockSize \in Nat \ {0} /\ Overread \in Nat
           /\ inputIndex \in 0..BlockSize + Overread
           /\ sampleidx \in Nat /\ captured \in Nat /\ lost \in Nat
           /\ times \in Seq(Nat)
           /\ inQueue \in Seq(Buffers) /\ Len(inQueue) \in Nat
           /\ DOMAIN inQueue = 1..Len(inQueue)
           /\ Posted \in Int /\ Fetched \in Int /\ Finished \in Int /\ Consumed \in Int
<1>1. /\ BlockSize \in Nat \ {0} /\ Overread \in Nat
      /\ inputIndex \in 0..BlockSize + Overread
      /\ sampleidx \in Nat /\ captured \in Nat /\ lost \in Nat /\ times \in Seq(Nat)
  BY CaptureAssumption, PacketAssumption
     DEF PipelineInv, TypeInv, TypeOK, CaptureTypeOK, DigTypeOK
<1>2. inQueue \in Seq(Buffers)
  BY QueuesInjective
<1>3. Len(inQueue) \in Nat /\ DOMAIN inQueue = 1..Len(inQueue)
  BY <1>2
<1>4. Posted \in Int /\ Fetched \in Int /\ Finished \in Int
  BY <1>1, <1>3 DEF Posted, Fetched, Finished
<1>5. Consumed \in Int
  <2>1. Finished * BlockSize \in Int
    BY <1>4, NextBlock
  <2>2. (IF Partly THEN inputIndex ELSE 0) \in Int
    BY <1>1
  <2>. QED  BY <2>1, <2>2 DEF Consumed
<1>. QED  BY <1>1, <1>2, <1>3, <1>4, <1>5

LEMMA ConsumedNat == ASSUME PipelineInv, StreamInv PROVE Consumed \in Nat
<1>1. Finished \in Nat /\ BlockSize \in Nat
  BY Numbers DEF StreamInv, ReadingOK
<1>2. Finished * BlockSize \in Nat
  BY <1>1
<1>. QED  BY <1>2, Numbers DEF Consumed

\* A buffer that its holder writes into is not in anybody else's hands.
LEMMA OneHolder ==
    ASSUME PipelineInv, NEW b \in Buffers,
           \/ b \in free \/ b = outputBuf \/ b = next
           \/ b = current /\ isrPc = "idle"
    PROVE  /\ b \notin ToSet(inQueue) /\ b \notin ToSet(usbQueue)
           /\ b # inputBuf /\ b # usbBuf
           /\ b = outputBuf => b # next /\ b \notin free
           /\ b = current /\ isrPc = "idle" => b # outputBuf /\ b # next /\ b \notin free
BY DEF PipelineInv, BuffersConserved, IsAt

\* What the host is told does not change.
HostSame == Packed' = Packed /\ Counted' = Counted

\* The packet being written is left alone.
LEMMA WritingKept ==
    ASSUME WritingOK, UNCHANGED <<outputBuf, sampleidx>>, Consumed' = Consumed,
           outputBuf # NULL => memory'[outputBuf] = memory[outputBuf],
           outputBuf # NULL /\ digPc' \in {"release", "refill", "send"}
               => digPc \in {"release", "refill", "send"}
    PROVE  WritingOK' /\ HostSame
<1>1. Begun' = Begun
  BY DEF Begun
<1>2. Packed' = Packed /\ Counted' = Counted
  BY <1>1 DEF Packed, Counted, Begun
<1>3. CASE outputBuf = NULL
  BY <1>2, <1>3 DEF WritingOK, HostSame
<1>4. CASE outputBuf # NULL
  <2>1. Stream!Carries(memory[outputBuf].data, Packed, Consumed)'
    BY <1>2, <1>4 DEF WritingOK
  <2>. QED  BY <1>2, <1>4, <2>1 DEF WritingOK, HostSame
<1>. QED  BY <1>3, <1>4

\* Steps that touch nothing StreamInv speaks of.
LEMMA NothingRead ==
    ASSUME StreamInv, "BTIF" \in cisr' <=> "BTIF" \in cisr,
           "BTIF" \in cisr => current' = current,
           UNCHANGED <<memory, inQueue, captured, lost, times, digPc, inputBuf,
                       inputIndex, outputBuf, sampleidx>>
    PROVE  StreamInv' /\ HostSame
<1>1. Posted' = Posted /\ Fetched' = Fetched /\ Partly' = Partly
  BY DEF Posted, Fetched, Partly
<1>2. Finished' = Finished /\ Consumed' = Consumed
  BY <1>1 DEF Finished, Consumed
<1>3. InputsOK'
  BY <1>1 DEF StreamInv, InputsOK
<1>4. ReadingOK'
  BY <1>1, <1>2 DEF StreamInv, ReadingOK
<1>5. WritingOK' /\ HostSame
  BY <1>2, WritingKept DEF StreamInv
<1>6. TimesOK'
  BY DEF StreamInv, TimesOK
<1>. QED  BY <1>3, <1>4, <1>5, <1>6 DEF StreamInv

LEMMA InitStreamInv == Init => StreamInv
<1>. SUFFICES ASSUME Init PROVE StreamInv
  OBVIOUS
<1>1. /\ DOMAIN memory = Buffers /\ inQueue = <<>> /\ cisr = {} /\ captured = 0
      /\ inputBuf = NULL /\ outputBuf = NULL /\ sampleidx = 0 /\ digPc = "none"
      /\ times = <<>>
  BY DEF Init, CaptureInit, DigInit
<1>2. Posted = 0 /\ Fetched = 0 /\ Finished = 0
  BY <1>1 DEF Fetched, Posted, Finished, Partly
<1>3. 0 * BlockSize = 0 /\ 0 * Overread = 0
  BY CaptureAssumption, PacketAssumption
<1>4. Consumed = 0
  BY <1>1, <1>2, <1>3 DEF Consumed, Partly
<1>5. ReadingOK
  BY <1>1, <1>2, <1>3, <1>4 DEF ReadingOK
<1>. QED
  BY <1>1, <1>5 DEF StreamInv, InputsOK, WritingOK, TimesOK

LEMMA StartStreamInv == PipelineInv /\ StreamInv /\ Start => StreamInv' /\ HostSame
<1>. SUFFICES ASSUME PipelineInv, StreamInv, Start PROVE StreamInv' /\ HostSame
  OBVIOUS
<1>1. /\ inQueue = <<>> /\ "BTIF" \notin cisr /\ digPc = "none"
      /\ inputBuf = NULL /\ outputBuf = NULL
  BY DEF Start, StartCapture, ReadAsserts, PipelineInv, TypeInv, TypeOK, CaptureTypeOK,
         BeforeStart, PointersOK
<1>2. /\ inQueue' = <<>> /\ cisr' = {} /\ digPc' = "fetch"
      /\ UNCHANGED <<memory, captured, lost, times, inputBuf, inputIndex, outputBuf, sampleidx>>
  BY DEF Start, StartCapture, DigCreate
<1>3. Fetched' = Fetched
  BY <1>1, <1>2 DEF Fetched, Posted
<1>4. Finished' = Finished /\ Consumed' = Consumed /\ Partly' = Partly
  BY <1>2, <1>3 DEF Finished, Consumed, Partly
<1>5. InputsOK' /\ ReadingOK' /\ TimesOK'
  BY <1>1, <1>2, <1>3, <1>4 DEF StreamInv, InputsOK, ReadingOK, TimesOK
<1>6. WritingOK' /\ HostSame
  BY <1>1, <1>2, <1>4, WritingKept DEF StreamInv
<1>. QED  BY <1>2, <1>5, <1>6 DEF StreamInv

\* The block just ended is numbered like the next block to be queued, and
\* the channel has written into no buffer that anybody reads.
LEMMA BlockDoneStreamInv ==
    ASSUME IsrShort, PipelineInv, StreamInv, HardwareStep, BlockDone
    PROVE  StreamInv' /\ HostSame
<1>1. /\ "BTIF" \notin cisr /\ isrPc = "idle" /\ hwDest # NULL
      /\ memory' = [b \in Buffers |-> CASE b = entry  -> Torn
                                        [] b = hwDest -> Block(captured)
                                        [] OTHER      -> memory[b]]
      /\ captured' = captured + 1 /\ cisr' = cisr \cup {"BTIF"}
      /\ times' = Append(times, captured + lost)
      /\ UNCHANGED <<inQueue, current, lost>>
  BY ChannelAhead DEF BlockDone
<1>2. UNCHANGED <<digPc, inputBuf, inputIndex, outputBuf, sampleidx>>
  BY DEF HardwareStep, digVars
<1>3. hwDest = current /\ entry = next /\ current \in Buffers
  BY <1>1 DEF PipelineInv, ChannelOK, BlockEnded, TypeInv, TypeOK, CaptureTypeOK, Pointer
<1>4. current # next
  BY <1>1, <1>3, OneHolder
<1>5. memory'[current] = Block(captured)
  BY <1>1, <1>3, <1>4
<1>6. ASSUME NEW b \in Buffers, b \in ToSet(inQueue) \/ b = inputBuf \/ b = outputBuf
      PROVE  memory'[b] = memory[b]
  <2>1. b # next /\ b # current
    BY <1>1, <1>6, OneHolder
  <2>. QED  BY <1>1, <1>3, <2>1
<1>7. Posted' = Posted /\ Fetched' = Fetched /\ Posted' = captured
  <2>1. captured \in Nat
    BY Numbers
  <2>2. "BTIF" \notin cisr /\ "BTIF" \in cisr' /\ captured' = captured + 1
    BY <1>1
  <2>3. Posted = captured /\ Posted' = captured
    BY <2>1, <2>2 DEF Posted
  <2>. QED  BY <1>1, <2>3 DEF Fetched
<1>8. Finished' = Finished /\ Consumed' = Consumed /\ Partly' = Partly
  BY <1>2, <1>7 DEF Finished, Consumed, Partly
<1>9. InputsOK'
  <2>1. ASSUME NEW i \in DOMAIN inQueue
        PROVE  memory'[inQueue[i]] = Block(Fetched + i - 1)
    <3>1. inQueue[i] \in Buffers /\ inQueue[i] \in ToSet(inQueue)
      BY Numbers DEF ToSet
    <3>. QED  BY <1>6, <3>1 DEF StreamInv, InputsOK
  <2>2. inputBuf # NULL => memory'[inputBuf] = Block(Fetched - 1)
    BY <1>6 DEF StreamInv, InputsOK, PipelineInv, TypeInv, TypeOK, DigTypeOK, Pointer
  <2>. QED  BY <1>1, <1>2, <1>5, <1>7, <2>1, <2>2 DEF InputsOK
<1>10. ReadingOK'
  BY <1>2, <1>7, <1>8 DEF StreamInv, ReadingOK
<1>11. WritingOK' /\ HostSame
  <2>1. outputBuf # NULL => memory'[outputBuf] = memory[outputBuf]
    BY <1>6 DEF PipelineInv, TypeInv, TypeOK, DigTypeOK, Pointer
  <2>. QED  BY <1>2, <1>8, <2>1, WritingKept DEF StreamInv
<1>12. TimesOK'
  <2>1. /\ times \in Seq(Nat) /\ captured + lost \in Nat /\ Len(times) = captured
        /\ \A i \in 1..Len(times) : times[i] < captured + lost
    <3>1. captured \in Nat /\ lost \in Nat /\ times \in Seq(Nat)
      BY Numbers
    <3>. QED  BY <3>1 DEF StreamInv, TimesOK
  <2>2. /\ Len(times') = Len(times) + 1 /\ DOMAIN times' = 1..Len(times) + 1
        /\ \A i \in 1..Len(times) : times'[i] = times[i]
        /\ times'[Len(times) + 1] = captured + lost
    BY <1>1, <2>1
  <2>3. ASSUME NEW i \in DOMAIN times' PROVE times'[i] < captured + 1 + lost
    <3>1. CASE i \in 1..Len(times)
      <4>1. times[i] \in Nat
        BY <2>1, <3>1
      <4>. QED  BY <2>1, <2>2, <3>1, <4>1, Numbers
    <3>2. CASE i = Len(times) + 1
      BY <2>2, <3>2, Numbers
    <3>. QED  BY <2>1, <2>2, <3>1, <3>2
  <2>. QED  BY <1>1, <2>1, <2>2, <2>3 DEF TimesOK
<1>. QED  BY <1>1, <1>9, <1>10, <1>11, <1>12 DEF StreamInv

\* A block captured over another changes only the buffer the channel is in.
LEMMA BlockLostKeeps ==
    ASSUME IsrShort, PipelineInv, StreamInv, HardwareStep, BlockLost
    PROVE  /\ UNCHANGED <<inQueue, current, next, cisr, isrPc, captured, times, digPc,
                          inputBuf, inputIndex, outputBuf, sampleidx, usbQueue, usbBuf,
                          usbPc, wire>>
           /\ lost' \in {lost, lost + 1}
           /\ DOMAIN memory' = Buffers
           /\ \A b \in Buffers : b # next => memory'[b] = memory[b]
<1>1. isrPc = "idle" /\ "BTIF" \in cisr /\ hwDest = next
  BY ChannelAhead DEF BlockLost, PipelineInv, ChannelOK
<1>. QED  BY <1>1 DEF BlockLost, HardwareStep, digVars, usbVars, StreamInv

LEMMA BlockLostStreamInv ==
    ASSUME IsrShort, PipelineInv, StreamInv, HardwareStep, BlockLost
    PROVE  StreamInv' /\ HostSame
<1>1. /\ UNCHANGED <<inQueue, current, next, cisr, isrPc, captured, times, digPc, inputBuf,
                     inputIndex, outputBuf, sampleidx>>
      /\ lost' \in {lost, lost + 1}
      /\ DOMAIN memory' = Buffers
      /\ \A b \in Buffers : b # next => memory'[b] = memory[b]
  BY BlockLostKeeps
<1>2. ASSUME NEW b \in Buffers,
             \/ b \in ToSet(inQueue) \/ b = inputBuf \/ b = outputBuf
             \/ b = current /\ "BTIF" \in cisr
      PROVE  memory'[b] = memory[b]
  <2>1. "BTIF" \in cisr => isrPc = "idle"
    BY DEF PipelineInv, ChannelOK
  <2>2. b # next
    BY <1>2, <2>1, OneHolder
  <2>. QED  BY <1>1, <2>2
<1>3. Posted' = Posted /\ Fetched' = Fetched /\ Partly' = Partly
  BY <1>1 DEF Posted, Fetched, Partly
<1>4. Finished' = Finished /\ Consumed' = Consumed
  BY <1>1, <1>3 DEF Finished, Consumed
<1>5. InputsOK'
  <2>1. ASSUME NEW i \in DOMAIN inQueue
        PROVE  memory'[inQueue[i]] = Block(Fetched + i - 1)
    <3>1. inQueue[i] \in Buffers /\ inQueue[i] \in ToSet(inQueue)
      BY Numbers DEF ToSet
    <3>. QED  BY <1>2, <3>1 DEF StreamInv, InputsOK
  <2>2. inputBuf # NULL => memory'[inputBuf] = Block(Fetched - 1)
    BY <1>2 DEF StreamInv, InputsOK, PipelineInv, TypeInv, TypeOK, DigTypeOK, Pointer
  <2>3. "BTIF" \in cisr => memory'[current] = Block(Posted)
    BY <1>2 DEF StreamInv, InputsOK, PipelineInv, ChannelOK, TypeInv, TypeOK,
       CaptureTypeOK, Pointer
  <2>. QED  BY <1>1, <1>3, <2>1, <2>2, <2>3 DEF InputsOK
<1>6. ReadingOK'
  BY <1>1, <1>3, <1>4 DEF StreamInv, ReadingOK
<1>7. WritingOK' /\ HostSame
  <2>1. outputBuf # NULL => memory'[outputBuf] = memory[outputBuf]
    BY <1>2 DEF PipelineInv, TypeInv, TypeOK, DigTypeOK, Pointer
  <2>. QED  BY <1>1, <1>4, <2>1, WritingKept DEF StreamInv
<1>8. TimesOK'
  <2>1. \A i \in DOMAIN times : times[i] \in Nat /\ times[i] < captured + lost
    BY Numbers DEF StreamInv, TimesOK
  <2>. QED  BY <1>1, <2>1, Numbers DEF StreamInv, TimesOK
<1>. QED  BY <1>1, <1>5, <1>6, <1>7, <1>8 DEF StreamInv

LEMMA IsrStreamInv == PipelineInv /\ StreamInv /\ IsrStep => StreamInv' /\ HostSame
<1>. SUFFICES ASSUME PipelineInv, StreamInv, IsrStep PROVE StreamInv' /\ HostSame
  OBVIOUS
<1>1. UNCHANGED <<digPc, inputBuf, inputIndex, outputBuf, sampleidx>>
  BY DEF IsrStep, digVars
<1>2. CASE IsrPost
  <2>1. /\ "BTIF" \in cisr /\ "BTIF" \notin cisr'
        /\ current \in Buffers /\ inQueue' = Append(inQueue, current)
        /\ UNCHANGED <<memory, captured, lost, times>>
    BY <1>2, PostsSucceed
       DEF IsrPost, PostsNeverFail, PipelineInv, ChannelOK, TypeInv, TypeOK,
           CaptureTypeOK, Pointer
  <2>2. /\ DOMAIN inQueue' = 1..Len(inQueue) + 1 /\ Len(inQueue') = Len(inQueue) + 1
        /\ \A i \in 1..Len(inQueue) : inQueue'[i] = inQueue[i]
        /\ inQueue'[Len(inQueue) + 1] = current
    BY <2>1, Numbers
  <2>3. Fetched' = Fetched
    BY <2>1, <2>2, Numbers DEF Fetched, Posted
  <2>4. Posted = Fetched + (Len(inQueue) + 1) - 1
    BY Numbers DEF Fetched
  <2>5. ASSUME NEW i \in DOMAIN inQueue'
        PROVE  memory[inQueue'[i]] = Block(Fetched + i - 1)
    <3>1. CASE i = Len(inQueue) + 1
      BY <2>1, <2>2, <2>4, <3>1 DEF StreamInv, InputsOK
    <3>2. CASE i \in 1..Len(inQueue)
      BY <2>2, <3>2, Numbers DEF StreamInv, InputsOK
    <3>. QED  BY <2>2, <3>1, <3>2, Numbers
  <2>6. Finished' = Finished /\ Consumed' = Consumed /\ Partly' = Partly
    BY <1>1, <2>3 DEF Finished, Consumed, Partly
  <2>7. InputsOK' /\ ReadingOK' /\ TimesOK'
    BY <1>1, <2>1, <2>3, <2>5, <2>6 DEF StreamInv, InputsOK, ReadingOK, TimesOK
  <2>8. WritingOK' /\ HostSame
    BY <1>1, <2>1, <2>6, WritingKept DEF StreamInv
  <2>. QED  BY <2>1, <2>7, <2>8 DEF StreamInv
<1>3. CASE IsrAdvance \/ IsrError
  <2>1. /\ "BTIF" \in cisr' <=> "BTIF" \in cisr
        /\ "BTIF" \in cisr => current' = current
        /\ UNCHANGED <<memory, inQueue, captured, lost, times>>
    BY <1>3 DEF IsrAdvance, IsrError, PipelineInv, ChannelOK
  <2>. QED  BY <1>1, <2>1, NothingRead
<1>. QED  BY <1>2, <1>3 DEF IsrStep, Isr

\* The oldest block of the queue goes to the thread.
LEMMA FetchStreamInv ==
    ASSUME PipelineInv, StreamInv, DigFetch \/ (DigRefill /\ inQueue # <<>>)
    PROVE  StreamInv' /\ HostSame
<1>1. /\ inQueue # <<>> /\ inputBuf' = Head(inQueue) /\ inQueue' = Tail(inQueue)
      /\ inputBuf = NULL /\ inputIndex' = 0
      /\ UNCHANGED <<memory, outputBuf, sampleidx, current, cisr, captured, lost, times>>
      /\ \/ digPc = "fetch" /\ digPc' = "allocate"
         \/ digPc = "refill" /\ digPc' = IF inputBuf' = NULL THEN "send" ELSE "compress"
  BY DEF DigFetch, DigRefill, DigAt, CaptureFrame, PipelineInv, TypeInv, PointersOK,
         StreamInv, ReadingOK
<1>2. /\ inQueue[1] = Head(inQueue) /\ 1 \in DOMAIN inQueue
      /\ Len(inQueue') = Len(inQueue) - 1
      /\ DOMAIN inQueue' = 1..Len(inQueue) - 1
      /\ \A i \in 1..Len(inQueue) - 1 : inQueue'[i] = inQueue[i + 1]
  BY <1>1, Numbers
<1>3. inputBuf' \in Buffers /\ inputBuf' # NULL
  BY <1>1, <1>2, Numbers, BuffersAssumption
<1>4. Posted' = Posted /\ Fetched' = Fetched + 1
  BY <1>1, <1>2, Numbers DEF Fetched, Posted
<1>5. InputsOK'
  <2>1. memory'[inputBuf'] = Block(Fetched' - 1)
    <3>1. memory[inQueue[1]] = Block(Fetched + 1 - 1)
      BY <1>2 DEF StreamInv, InputsOK
    <3>2. Fetched' - 1 = Fetched + 1 - 1
      BY <1>4, Numbers
    <3>. QED  BY <1>1, <1>2, <3>1, <3>2
  <2>2. ASSUME NEW i \in DOMAIN inQueue'
        PROVE  memory'[inQueue'[i]] = Block(Fetched' + i - 1)
    <3>1. i \in Int /\ i + 1 \in DOMAIN inQueue
      BY <1>2, Numbers
    <3>2. Fetched + (i + 1) - 1 = Fetched' + i - 1
      BY <1>4, <3>1, Numbers
    <3>3. memory[inQueue[i + 1]] = Block(Fetched + (i + 1) - 1)
      BY <3>1 DEF StreamInv, InputsOK
    <3>. QED  BY <1>1, <1>2, <3>2, <3>3
  <2>3. "BTIF" \in cisr' => memory'[current'] = Block(Posted')
    BY <1>1, <1>4 DEF StreamInv, InputsOK
  <2>. QED  BY <2>1, <2>2, <2>3 DEF InputsOK
<1>6. ~Partly /\ Partly' /\ Finished' = Finished /\ Consumed' = Consumed
  <2>1. ~Partly /\ Partly'
    BY <1>1, <1>3, Numbers DEF Partly
  <2>2. Finished = Fetched /\ Finished' = Fetched
    BY <1>4, <2>1, Numbers DEF Finished
  <2>. QED  BY <1>1, <2>1, <2>2 DEF Consumed
<1>7. ReadingOK'
  BY <1>1, <1>3, <1>6 DEF StreamInv, ReadingOK
<1>8. WritingOK' /\ HostSame
  BY <1>1, <1>3, <1>6, WritingKept DEF StreamInv, PipelineInv, TypeInv, PointersOK
<1>9. TimesOK'
  BY <1>1 DEF StreamInv, TimesOK
<1>. QED  BY <1>1, <1>5, <1>7, <1>8, <1>9 DEF StreamInv

\* A buffer from the pool gets the header of an empty packet.
LEMMA AllocateStreamInv ==
    ASSUME PipelineInv, StreamInv, DigAllocate
    PROVE  StreamInv' /\ HostSame
<1>1. /\ outputBuf = NULL /\ digPc \in {"allocate", "wait"} /\ inputBuf # NULL
      /\ UNCHANGED <<inQueue, inputBuf, inputIndex, sampleidx, current, cisr, captured,
                     lost, times>>
  BY DEF DigAllocate, DigAt, CaptureFrame, PipelineInv, TypeInv, PointersOK,
         StreamInv, ReadingOK
<1>2. PICK b \in TryAllocate(free, "D1") :
        IF b = NULL
        THEN digPc' = "wait" /\ UNCHANGED <<memory, outputBuf>>
        ELSE TakeOutput(b)
  BY DEF DigAllocate
<1>3. Posted' = Posted /\ Fetched' = Fetched /\ Partly' = Partly
  BY <1>1 DEF Posted, Fetched, Partly
<1>4. Finished' = Finished /\ Consumed' = Consumed
  BY <1>1, <1>3 DEF Finished, Consumed
<1>5. TimesOK'
  BY <1>1 DEF StreamInv, TimesOK
<1>6. CASE b = NULL
  <2>1. InputsOK' /\ ReadingOK'
    BY <1>1, <1>2, <1>3, <1>4, <1>6 DEF StreamInv, InputsOK, ReadingOK
  <2>2. WritingOK' /\ HostSame
    BY <1>1, <1>2, <1>4, <1>6, WritingKept DEF StreamInv
  <2>. QED  BY <1>2, <1>5, <1>6, <2>1, <2>2 DEF StreamInv
<1>7. CASE b # NULL
  <2>1. b \in free /\ b \in Buffers
    BY <1>7, TryAllocateResult DEF PipelineInv, TypeInv, TypeOK, PoolTypeOK
  <2>2. /\ outputBuf' = b /\ digPc' = "compress"
        /\ memory' = [memory EXCEPT ![b] = [first |-> sampleidx, data |-> <<>>]]
    BY <1>2, <1>7 DEF TakeOutput
  <2>3. InputsOK'
    <3>1. \A c \in Buffers : c # b => memory'[c] = memory[c]
      BY <2>2 DEF StreamInv
    <3>2. inputBuf \in Buffers /\ inputBuf # b
      BY <1>1, <2>1, OneHolder DEF PipelineInv, TypeInv, TypeOK, DigTypeOK, Pointer
    <3>3. \A i \in DOMAIN inQueue : inQueue[i] \in Buffers /\ inQueue[i] # b
      BY <2>1, OneHolder, Numbers DEF ToSet
    <3>4. "BTIF" \in cisr => current \in Buffers /\ current # b
      <4>1. ASSUME "BTIF" \in cisr PROVE current \in Buffers /\ isrPc = "idle"
        BY <4>1 DEF PipelineInv, ChannelOK, TypeInv, TypeOK, CaptureTypeOK, Pointer
      <4>. QED  BY <2>1, <4>1, OneHolder
    <3>. QED  BY <1>1, <1>3, <3>1, <3>2, <3>3, <3>4 DEF StreamInv, InputsOK
  <2>4. ReadingOK'
    BY <1>1, <1>3, <1>4, <2>2 DEF StreamInv, ReadingOK
  <2>5. memory'[b] = [first |-> sampleidx, data |-> <<>>]
    BY <2>1, <2>2 DEF StreamInv
  <2>6. /\ Packed' = Consumed /\ Counted' = sampleidx
        /\ Packed = Consumed /\ Counted = sampleidx
    <3>1. ~Begun /\ ~Begun'
      BY <1>1, <2>2, <2>5 DEF Begun
    <3>. QED  BY <1>1, <1>4, <3>1 DEF Packed, Counted
  <2>7. WritingOK'
    <3>1. Consumed \in Nat
      BY ConsumedNat
    <3>2. Stream!Carries(<<>>, Consumed, Consumed)
      BY <3>1, CarriesNothing
    <3>3. sampleidx - sampleidx = 0 /\ Len(<<>>) = 0 /\ <<>> \in Seq(Int)
          /\ Consumed \in 0..Consumed
      BY <3>1, Numbers
    <3>4. /\ memory'[outputBuf'] = [first |-> Counted', data |-> <<>>]
          /\ memory'[outputBuf'].data = <<>>
      BY <2>2, <2>5, <2>6
    <3>5. /\ Len(<<>>) = sampleidx' - Counted'
          /\ Packed' \in 0..Consumed' /\ Counted' \in Nat
      BY <1>1, <1>4, <2>6, <3>3, Numbers
    <3>6. Stream!Carries(<<>>, Packed', Consumed')
      BY <1>4, <2>6, <3>2
    <3>7. digPc' \notin {"release", "refill", "send"}
      BY <2>2
    <3>. QED  BY <3>3, <3>4, <3>5, <3>6, <3>7 DEF WritingOK
  <2>. QED  BY <1>5, <2>2, <2>3, <2>4, <2>6, <2>7 DEF StreamInv, HostSame
<1>. QED  BY <1>6, <1>7

\* The words a call of snappy_compress appends are a part of the block, from
\* where the thread is in it, and words behind it.
LEMMA PartOfBlock ==
    ASSUME PipelineInv, StreamInv, digPc = "compress", NEW n
    PROVE  /\ BlockSize - inputIndex \in Nat \ {0}
           /\ Finished = Fetched - 1
           /\ Consumed = (Fetched - 1) * BlockSize + inputIndex
           /\ [i \in 1..n |-> IF i <= BlockSize - inputIndex
                              THEN memory[inputBuf].data[inputIndex + i] ELSE Stray]
                = Part(Consumed, BlockSize - inputIndex, n)
           /\ Stream!EndsBlock(Consumed + (BlockSize - inputIndex) - 1)
<1>1. inputBuf # NULL /\ Partly
  BY DEF StreamInv, ReadingOK
<1>. DEFINE left == BlockSize - inputIndex
            base == (Fetched - 1) * BlockSize
<1>2. left \in Nat \ {0} /\ inputIndex \in Nat /\ left = BlockSize - inputIndex
  BY <1>1, Numbers DEF Partly
<1>3. Finished = Fetched - 1 /\ Consumed = base + inputIndex
  BY <1>1 DEF Finished, Consumed
<1>4. base \in Int /\ base + BlockSize = Fetched * BlockSize
  <2>1. Fetched - 1 \in Int /\ (Fetched - 1) + 1 = Fetched
    BY Numbers
  <2>2. base \in Int /\ Fetched * BlockSize = base + BlockSize
    BY <2>1, NextBlock
  <2>. QED  BY <2>2
<1>. HIDE DEF left, base
<1>5. memory[inputBuf].data = [i \in 1..BlockSize |-> base + i - 1]
  <2>1. memory[inputBuf] = Block(Fetched - 1)
    BY <1>1 DEF StreamInv, InputsOK
  <2>2. Block(Fetched - 1).data = [i \in 1..BlockSize |-> (Fetched - 1) * BlockSize + i - 1]
    BY DEF Block
  <2>. QED  BY <2>1, <2>2 DEF base
<1>6. ASSUME NEW i \in 1..n
      PROVE  (IF i <= left THEN memory[inputBuf].data[inputIndex + i] ELSE Stray)
                = IF i <= left THEN Consumed + i - 1 ELSE Stray
  <2>1. CASE i <= left
    <3>1. i \in Int /\ i >= 1
      BY <1>6
    <3>2. inputIndex + i \in 1..BlockSize /\ base + (inputIndex + i) - 1 = base + inputIndex + i - 1
      BY <1>2, <1>4, <2>1, <3>1, Numbers
    <3>. QED  BY <1>3, <1>5, <2>1, <3>2
  <2>2. CASE ~(i <= left)
    BY <2>2
  <2>. QED  BY <2>1, <2>2
<1>7. [i \in 1..n |-> IF i <= left THEN memory[inputBuf].data[inputIndex + i] ELSE Stray]
        = Part(Consumed, left, n)
  BY <1>6 DEF Part
<1>8. Stream!EndsBlock(Consumed + left - 1)
  <2>. DEFINE top == Fetched * BlockSize
  <2>0. base \in Int /\ base + BlockSize = top /\ BlockSize \in Int
    BY <1>4, CaptureAssumption
  <2>. HIDE DEF top
  <2>1. Consumed + left - 1 \in Int /\ Consumed + left - 1 + 1 = top
    BY <1>2, <1>3, <2>0
  <2>. QED  BY <2>1, Numbers, BlockEndsBlock DEF top
<1>. QED  BY <1>2, <1>3, <1>7, <1>8 DEF left, base

\* The packet grows by the samples that the block's index moves past, and by
\* the words behind the block.
LEMMA CompressStreamInv ==
    ASSUME PipelineInv, StreamInv, DigCompress
    PROVE  StreamInv' /\ HostSame
<1>1. /\ digPc = "compress" /\ outputBuf \in Buffers /\ inputBuf \in Buffers
      /\ inputBuf # outputBuf /\ inputBuf # NULL /\ outputBuf # NULL
      /\ UNCHANGED <<inQueue, inputBuf, outputBuf, current, cisr, captured, lost, times>>
  <2>1. digPc = "compress" /\ outputBuf # NULL /\ inputBuf # NULL
    BY DEF DigCompress, DigAt, PipelineInv, TypeInv, PointersOK, StreamInv, ReadingOK
  <2>2. outputBuf \in Buffers /\ inputBuf \in Buffers
    BY <2>1 DEF PipelineInv, TypeInv, TypeOK, DigTypeOK, Pointer
  <2>3. inputBuf # outputBuf
    BY <2>2, OneHolder
  <2>. QED  BY <2>1, <2>2, <2>3 DEF DigCompress, CaptureFrame
<1>. DEFINE left == BlockSize - inputIndex
            data == memory[outputBuf].data
<1>2. PICK n \in 0..left + Overread :
        /\ data = <<>> => n > 0
        /\ memory' = [memory EXCEPT ![outputBuf].data = data \o
              [i \in 1..n |-> IF i <= left THEN memory[inputBuf].data[inputIndex + i]
                              ELSE Stray]]
        /\ sampleidx' = sampleidx + n
        /\ inputIndex' = inputIndex + n
        /\ digPc' = IF n >= left THEN "release" ELSE "send"
  BY DEF DigCompress
<1>3. /\ left \in Nat \ {0} /\ left = BlockSize - inputIndex
      /\ Finished = Fetched - 1
      /\ Consumed = (Fetched - 1) * BlockSize + inputIndex
      /\ [i \in 1..n |-> IF i <= left THEN memory[inputBuf].data[inputIndex + i]
                         ELSE Stray] = Part(Consumed, left, n)
      /\ Stream!EndsBlock(Consumed + left - 1)
  BY <1>1, PartOfBlock
<1>4. /\ data \in Seq(Int) /\ Counted \in Nat /\ Len(data) = sampleidx - Counted
      /\ memory[outputBuf] = [first |-> Counted, data |-> data]
      /\ Packed \in 0..Consumed /\ Stream!Carries(data, Packed, Consumed)
  BY <1>1 DEF StreamInv, WritingOK
<1>. DEFINE m    == IF n >= left THEN left ELSE n
            more == data \o Part(Consumed, left, n)
<1>. HIDE DEF left, data
<1>5. n \in Nat /\ m \in Nat /\ m <= n /\ n - m \in 0..Overread /\ Consumed \in Nat
      /\ Packed \in Nat /\ Packed <= Consumed
  <2>1. left \in Nat \ {0} /\ Overread \in Nat
    BY <1>3, PacketAssumption
  <2>2. Consumed \in Nat
    BY ConsumedNat
  <2>3. Packed \in Nat /\ Packed <= Consumed
    BY <1>4, <2>2
  <2>. QED  BY <2>1, <2>2, <2>3
<1>. DEFINE upto == Consumed + m
<1>6. /\ more \in Seq(Int) /\ Len(more) = Len(data) + n
      /\ data # <<>> => more # <<>> /\ more[1] = data[1]
      /\ data = <<>> /\ n > 0 => more # <<>> /\ more[1] = Consumed
      /\ Stream!Carries(more, Packed, upto)
  <2>1. /\ data \in Seq(Int) /\ Packed \in Nat /\ Consumed \in Nat
        /\ Packed <= Consumed /\ Stream!Carries(data, Packed, Consumed)
        /\ left \in Nat \ {0} /\ n \in 0..left + Overread
        /\ Stream!EndsBlock(Consumed + left - 1)
    BY <1>3, <1>4, <1>5
  <2>. QED  BY <2>1, CarriesMore, ZenonT(30)
<1>. HIDE DEF more, upto
<1>61. upto = Consumed + m
  BY DEF upto
<1>7. memory' = [memory EXCEPT ![outputBuf] = [first |-> Counted, data |-> more]]
  <2>1. memory' = [memory EXCEPT ![outputBuf].data = more]
    BY <1>2, <1>3 DEF more
  <2>2. [memory[outputBuf] EXCEPT !.data = more] = [first |-> Counted, data |-> more]
    BY <1>4
  <2>. QED  BY <1>1, <2>1, <2>2
<1>8. /\ Posted' = Posted /\ Fetched' = Fetched
      /\ Partly' <=> n < left
  <2>1. Posted' = Posted /\ Fetched' = Fetched
    BY <1>1 DEF Posted, Fetched
  <2>2. Partly' <=> inputIndex + n < BlockSize
    BY <1>1, <1>2 DEF Partly
  <2>3. inputIndex \in Int /\ BlockSize \in Int /\ left \in Int /\ n \in Int
    BY <1>3, <1>5, Numbers
  <2>4. inputIndex + n < BlockSize <=> n < left
    BY <1>3, <2>3
  <2>. QED  BY <2>1, <2>2, <2>4
<1>9. /\ Finished' = IF n >= left THEN Finished + 1 ELSE Finished
      /\ Consumed' = Consumed + m
  <2>1. CASE n < left
    <3>1. Finished' = Finished
      BY <1>3, <1>8, <2>1 DEF Finished
    <3>2. Consumed' = (Fetched - 1) * BlockSize + (inputIndex + n)
      BY <1>2, <1>3, <1>8, <2>1, <3>1 DEF Consumed
    <3>3. ~(n >= left) /\ m = n
      BY <1>3, <1>5, <2>1
    <3>4. (Fetched - 1) * BlockSize \in Int
      BY Numbers, NextBlock
    <3>5. inputIndex \in Int /\ n \in Int
      BY <1>5, Numbers
    <3>6. Consumed' = Consumed + n
      BY <1>3, <3>2, <3>4, <3>5
    <3>. QED  BY <3>1, <3>3, <3>6
  <2>2. CASE ~(n < left)
    <3>1. Finished' = Fetched
      BY <1>8, <2>2 DEF Finished
    <3>2. Consumed' = Fetched * BlockSize + 0
      BY <1>8, <2>2, <3>1 DEF Consumed
    <3>3. n >= left /\ m = left
      BY <1>3, <1>5, <2>2
    <3>4. /\ (Fetched - 1) * BlockSize \in Int
          /\ Fetched * BlockSize = (Fetched - 1) * BlockSize + BlockSize
      <4>1. Fetched - 1 \in Int /\ (Fetched - 1) + 1 = Fetched
        BY Numbers
      <4>. QED  BY <4>1, NextBlock
    <3>5. inputIndex \in Int /\ BlockSize \in Int /\ Fetched \in Int
      BY Numbers
    <3>6. Consumed' = Consumed + left
      BY <1>3, <3>2, <3>4, <3>5
    <3>7. Finished' = Finished + 1
      BY <1>3, <3>1, <3>5
    <3>. QED  BY <3>3, <3>6, <3>7
  <2>. QED  BY <2>1, <2>2
<1>. HIDE DEF m
<1>10. InputsOK'
  <2>1. \A c \in Buffers : c # outputBuf => memory'[c] = memory[c]
    BY <1>7 DEF StreamInv
  <2>2. \A i \in DOMAIN inQueue : inQueue[i] \in Buffers /\ inQueue[i] # outputBuf
    BY <1>1, OneHolder, Numbers DEF ToSet
  <2>3. "BTIF" \in cisr => current \in Buffers /\ current # outputBuf
    <3>1. ASSUME "BTIF" \in cisr PROVE current \in Buffers /\ isrPc = "idle"
      BY <3>1 DEF PipelineInv, ChannelOK, TypeInv, TypeOK, CaptureTypeOK, Pointer
    <3>. QED  BY <1>1, <3>1, OneHolder
  <2>. QED  BY <1>1, <1>8, <2>1, <2>2, <2>3 DEF StreamInv, InputsOK
<1>11. ReadingOK'
  <2>1. Finished \in Nat /\ sampleidx - Consumed \in 0..Finished * Overread
    BY DEF StreamInv, ReadingOK
  <2>2. Finished' \in Nat
    BY <1>9, <2>1
  <2>3. sampleidx' - Consumed' = (sampleidx - Consumed) + (n - m)
    BY <1>2, <1>5, <1>9, Numbers
  <2>4. sampleidx' - Consumed' \in 0..Finished' * Overread
    <3>0. Overread \in Nat /\ sampleidx - Consumed \in Int
      BY Numbers
    <3>1. /\ Finished * Overread \in Nat
          /\ (Finished + 1) * Overread = Finished * Overread + Overread
      BY <2>1, Numbers
    <3>2. CASE n >= left
      <4>1. Finished' * Overread = Finished * Overread + Overread
        BY <1>9, <3>1, <3>2
      <4>. QED  BY <1>5, <2>1, <2>3, <3>0, <3>1, <4>1
    <3>3. CASE ~(n >= left)
      <4>1. Finished' * Overread = Finished * Overread /\ n - m = 0
        BY <1>5, <1>9, <3>3 DEF m
      <4>. QED  BY <1>5, <2>1, <2>3, <3>0, <3>1, <4>1
    <3>. QED  BY <3>2, <3>3
  <2>5. Partly' <=> digPc' # "release"
    BY <1>2, <1>3, <1>5, <1>8
  <2>. QED  BY <1>1, <1>2, <2>2, <2>4, <2>5 DEF ReadingOK
<1>12. memory'[outputBuf] = [first |-> Counted, data |-> more]
  BY <1>1, <1>7 DEF StreamInv
<1>13. Begun' /\ more[1] = Packed /\ Packed < Consumed + m
  <2>1. CASE data = <<>>
    <3>1. Packed = Consumed /\ n > 0
      BY <1>2, <2>1 DEF Packed, Begun, data
    <3>2. m > 0
      BY <1>3, <1>5, <3>1 DEF m
    <3>. QED  BY <1>1, <1>5, <1>6, <1>12, <2>1, <3>1, <3>2 DEF Begun
  <2>2. CASE data # <<>>
    <3>1. Packed = data[1]
      BY <1>1, <2>2 DEF Packed, Begun, data
    <3>2. data[1] \in Packed..Consumed - 1
      BY <1>4, <1>5, <2>2, CarriesFirst
    <3>. QED  BY <1>1, <1>5, <1>6, <1>12, <2>2, <3>1, <3>2 DEF Begun
  <2>. QED  BY <2>1, <2>2
<1>14. Packed' = Packed /\ Counted' = Counted
  BY <1>1, <1>12, <1>13 DEF Packed, Counted
<1>15. WritingOK'
  <2>1. memory'[outputBuf].data = more
    BY <1>12
  <2>2. Len(more) = sampleidx' - Counted'
    <3>1. sampleidx \in Int /\ Len(data) \in Int
      BY <1>4, Numbers
    <3>2. Len(more) = sampleidx + n - Counted
      BY <1>4, <1>5, <1>6, <3>1
    <3>3. sampleidx' = sampleidx + n
      BY <1>2
    <3>. QED  BY <1>4, <1>5, <1>14, <3>1, <3>2, <3>3
  <2>3. Packed' \in 0..Consumed' /\ Packed' < Consumed'
    BY <1>5, <1>9, <1>13, <1>14
  <2>4. Stream!Carries(more, Packed', Consumed')
    BY <1>6, <1>61, <1>9, <1>14
  <2>. QED  BY <1>1, <1>4, <1>6, <1>12, <1>14, <2>1, <2>2, <2>3, <2>4 DEF WritingOK
<1>16. TimesOK'
  BY <1>1 DEF StreamInv, TimesOK
<1>. QED  BY <1>7, <1>10, <1>11, <1>14, <1>15, <1>16 DEF StreamInv, HostSame

\* The block is used up: the samples compressed are those of the blocks fetched.
LEMMA ReleaseStreamInv ==
    ASSUME PipelineInv, StreamInv, DigRelease
    PROVE  StreamInv' /\ HostSame
<1>1. /\ digPc = "release" /\ digPc' = "refill"
      /\ inputBuf # NULL /\ ~Partly
      /\ inputBuf' = NULL /\ inputIndex' = 0
      /\ UNCHANGED <<memory, inQueue, outputBuf, sampleidx, current, cisr, captured,
                     lost, times>>
  BY DEF DigRelease, DigAt, CaptureFrame, StreamInv, ReadingOK
<1>2. Posted' = Posted /\ Fetched' = Fetched /\ ~Partly'
  BY <1>1 DEF Posted, Fetched, Partly
<1>3. Finished' = Finished /\ Consumed' = Consumed
  BY <1>1, <1>2 DEF Finished, Consumed
<1>4. InputsOK'
  BY <1>1, <1>2 DEF StreamInv, InputsOK
<1>5. ReadingOK'
  BY <1>1, <1>3 DEF StreamInv, ReadingOK
<1>6. WritingOK' /\ HostSame
  BY <1>1, <1>3, WritingKept DEF StreamInv
<1>7. TimesOK'
  BY <1>1 DEF StreamInv, TimesOK
<1>. QED  BY <1>1, <1>4, <1>5, <1>6, <1>7 DEF StreamInv

\* The packet is handed over, or no further block came for it.
LEMMA SendStreamInv ==
    ASSUME PipelineInv, StreamInv, DigSend \/ (DigRefill /\ inQueue = <<>>)
    PROVE  StreamInv' /\ (~DigSend => HostSame)
<1>1. /\ digPc \in {"send", "refill"} /\ digPc' \in {"fetch", "allocate", "send"}
      /\ digPc' = "allocate" => inputBuf # NULL
      /\ outputBuf' \in {outputBuf, NULL} /\ (~DigSend => outputBuf' = outputBuf)
      /\ UNCHANGED <<memory, inQueue, inputBuf, inputIndex, sampleidx, current, cisr,
                     captured, lost, times>>
  BY DEF DigSend, DigRefill, DigAt, CaptureFrame
<1>2. Posted' = Posted /\ Fetched' = Fetched /\ Partly' = Partly
  BY <1>1 DEF Posted, Fetched, Partly
<1>3. Finished' = Finished /\ Consumed' = Consumed
  BY <1>1, <1>2 DEF Finished, Consumed
<1>4. InputsOK'
  BY <1>1, <1>2 DEF StreamInv, InputsOK
<1>5. ReadingOK'
  BY <1>1, <1>2, <1>3 DEF StreamInv, ReadingOK
<1>6. outputBuf' = outputBuf => WritingOK' /\ HostSame
  BY <1>1, <1>3, WritingKept DEF StreamInv
<1>7. outputBuf' = NULL => WritingOK'
  BY DEF WritingOK
<1>8. TimesOK'
  BY <1>1 DEF StreamInv, TimesOK
<1>. QED  BY <1>1, <1>4, <1>5, <1>6, <1>7, <1>8 DEF StreamInv

LEMMA DigStreamInv ==
    PipelineInv /\ StreamInv /\ DigStep => StreamInv' /\ (~DigSend => HostSame)
BY FetchStreamInv, AllocateStreamInv, CompressStreamInv, ReleaseStreamInv, SendStreamInv
   DEF DigStep, DigIn

\* The USB thread and the read-only command touch nothing of all this.
LEMMA OthersStreamInv ==
    ASSUME StreamInv, Read \/ QspiIrqStep \/ UsbStep \/ UNCHANGED vars
    PROVE  StreamInv' /\ HostSame
<1>1. CASE UsbStep
  BY <1>1, NothingRead
     DEF UsbStep, Usb, UsbFetch, UsbTransmit, UsbRelease, UsbIdle, UsbSendStatus,
         OthersFrame, CaptureFrame
<1>2. CASE Read \/ QspiIrqStep \/ UNCHANGED vars
  BY <1>2, NothingRead
     DEF Read, ReadInput, QspiIrqStep, QspiIrq, vars, captureVars, digVars
<1>. QED  BY <1>1, <1>2

LEMMA HardwareStreamInv ==
    ASSUME IsrShort, PipelineInv, StreamInv, HardwareStep
    PROVE  StreamInv' /\ HostSame
<1>1. CASE TransferError \/ QspiDone
  BY <1>1, NothingRead DEF HardwareStep, TransferError, QspiDone, digVars
<1>. QED
  BY <1>1, BlockDoneStreamInv, BlockLostStreamInv DEF HardwareStep, Hardware

(* In every reachable state the buffers contain what their places say: a   *)
(* queued block has the samples of its turn, sampleidx has counted the     *)
(* samples taken from the blocks and at most Overread words behind each of *)
(* them, and the packet being written by input_quadspi_thread has the      *)
(* samples up to there, each once and in order.                            *)
THEOREM ContentsCorrect == ASSUME IsrShort PROVE Spec => []StreamInv
<1>1. ASSUME PipelineInv, StreamInv, [Next]_vars PROVE StreamInv'
  BY <1>1, OthersStreamInv, HardwareStreamInv, StartStreamInv, IsrStreamInv, DigStreamInv
     DEF Next
<1>2. Init /\ []PipelineInv /\ [][Next]_vars => []StreamInv
  BY InitStreamInv, <1>1, PTL
<1>. QED  BY <1>2, PipelineInvariant, PTL DEF Spec

-----------------------------------------------------------------------------
(* The refinement: each step is one of SampleStream, or changes nothing.   *)

\* Queues of buffers and the queues of their contents.
LEMMA ContentsAppend ==
    ASSUME NEW q \in Seq(Buffers), NEW b \in Buffers
    PROVE  Contents(Append(q, b)) = Append(Contents(q), memory[b])
<1>. DEFINE S == {memory[c] : c \in Buffers}
<1>1. Len(q) \in Nat /\ DOMAIN q = 1..Len(q) /\ DOMAIN Append(q, b) = 1..Len(q) + 1
  OBVIOUS
<1>2. /\ \A i \in 1..Len(q) : Append(q, b)[i] = q[i]
      /\ Append(q, b)[Len(q) + 1] = b
  OBVIOUS
<1>3. Contents(q) = [i \in 1..Len(q) |-> memory[q[i]]]
  BY <1>1 DEF Contents
<1>4. Contents(q) \in Seq(S) /\ Len(Contents(q)) = Len(q)
  BY <1>1, <1>3
<1>5. Contents(Append(q, b)) = [i \in 1..Len(q) + 1 |-> memory[Append(q, b)[i]]]
  BY <1>1 DEF Contents
<1>6. \A i \in 1..Len(q) + 1 :
        memory[Append(q, b)[i]] = IF i = Len(q) + 1 THEN memory[b] ELSE Contents(q)[i]
  BY <1>1, <1>2, <1>3
<1>7. Append(Contents(q), memory[b])
        = [i \in 1..Len(q) + 1 |-> IF i = Len(q) + 1 THEN memory[b] ELSE Contents(q)[i]]
  <2>. HIDE DEF S
  <2>. QED  BY <1>1, <1>4
<1>. QED  BY <1>5, <1>6, <1>7

LEMMA TailIs ==
    ASSUME NEW S, NEW s \in Seq(S), s # <<>>
    PROVE  Tail(s) = [i \in 1..Len(s) - 1 |-> s[i + 1]]
<1>1. /\ Tail(s) \in Seq(S) /\ Len(s) \in Nat /\ Len(Tail(s)) = Len(s) - 1
      /\ \A i \in 1..Len(Tail(s)) : Tail(s)[i] = s[i + 1]
  BY HeadTailProperties
<1>2. Tail(s) \in [1..Len(Tail(s)) -> S]
  BY <1>1, LenProperties
<1>. QED  BY <1>1, <1>2

LEMMA ContentsTail ==
    ASSUME NEW q \in Seq(Buffers), q # <<>>
    PROVE  /\ Contents(q) # <<>> /\ Head(Contents(q)) = memory[Head(q)]
           /\ Contents(Tail(q)) = Tail(Contents(q))
<1>. DEFINE S == {memory[c] : c \in Buffers}
<1>1. Len(q) \in Nat \ {0} /\ DOMAIN q = 1..Len(q) /\ DOMAIN Tail(q) = 1..Len(q) - 1
      /\ Head(q) = q[1]
  OBVIOUS
<1>2. \A i \in 1..Len(q) - 1 : Tail(q)[i] = q[i + 1]
  OBVIOUS
<1>3. Contents(q) = [i \in 1..Len(q) |-> memory[q[i]]]
  BY <1>1 DEF Contents
<1>4. Contents(q) \in Seq(S) /\ Len(Contents(q)) = Len(q)
  BY <1>1, <1>3
<1>5. Contents(Tail(q)) = [i \in 1..Len(q) - 1 |-> memory[q[i + 1]]]
  BY <1>1, <1>2 DEF Contents
<1>6. Tail(Contents(q)) = [i \in 1..Len(q) - 1 |-> Contents(q)[i + 1]]
  <2>1. Contents(q) # <<>>
    BY <1>1, <1>4
  <2>. HIDE DEF S
  <2>. QED  BY <1>4, <2>1, TailIs
<1>7. Contents(q) # <<>> /\ Head(Contents(q)) = Contents(q)[1]
  BY <1>1, <1>4
<1>. QED  BY <1>1, <1>3, <1>5, <1>6, <1>7

LEMMA PrependIs ==
    ASSUME NEW q \in Seq(Buffers), NEW u \in Buffers
    PROVE  /\ <<u>> \o q \in Seq(Buffers) /\ <<u>> \o q # <<>>
           /\ Head(<<u>> \o q) = u /\ Tail(<<u>> \o q) = q
           /\ ToSet(<<u>> \o q) = {u} \cup ToSet(q)
<1>. DEFINE uq == <<u>> \o q
<1>1. <<u>> \in Seq(Buffers) /\ Len(<<u>>) = 1 /\ <<u>>[1] = u
  OBVIOUS
<1>2. /\ uq \in Seq(Buffers) /\ Len(uq) = 1 + Len(q)
      /\ \A i \in 1..1 + Len(q) : uq[i] = IF i <= 1 THEN <<u>>[i] ELSE q[i - 1]
  BY <1>1, ConcatProperties
<1>3. Len(q) \in Nat /\ DOMAIN q = 1..Len(q) /\ DOMAIN uq = 1..1 + Len(q)
  BY <1>2
<1>. HIDE DEF uq
<1>4. uq[1] = u /\ \A i \in 1..Len(q) : uq[i + 1] = q[i]
  <2>1. uq[1] = u
    BY <1>1, <1>2, <1>3
  <2>2. ASSUME NEW i \in 1..Len(q) PROVE uq[i + 1] = q[i]
    <3>1. i + 1 \in 1..1 + Len(q) /\ ~(i + 1 <= 1) /\ i + 1 - 1 = i
      BY <1>3
    <3>. QED  BY <1>2, <3>1
  <2>. QED  BY <2>1, <2>2
<1>5. uq # <<>> /\ Head(uq) = u
  BY <1>2, <1>3, <1>4
<1>6. Tail(uq) = q
  <2>1. Tail(uq) = [i \in 1..Len(uq) - 1 |-> uq[i + 1]]
    BY <1>2, <1>5, TailIs
  <2>2. Len(uq) - 1 = Len(q)
    BY <1>2, <1>3
  <2>3. q = [i \in 1..Len(q) |-> q[i]]
    BY <1>3
  <2>. QED  BY <1>4, <2>1, <2>2, <2>3
<1>7. ToSet(uq) = {u} \cup ToSet(q)
  <2>1. ASSUME NEW i \in DOMAIN uq PROVE uq[i] \in {u} \cup ToSet(q)
    <3>1. CASE i = 1
      BY <1>4, <3>1
    <3>2. CASE i # 1
      <4>1. i - 1 \in 1..Len(q) /\ (i - 1) + 1 = i
        BY <1>3, <3>2
      <4>. QED  BY <1>3, <1>4, <4>1 DEF ToSet
    <3>. QED  BY <3>1, <3>2
  <2>2. u \in ToSet(uq)
    <3>1. 1 \in DOMAIN uq
      BY <1>3
    <3>. QED  BY <1>4, <3>1 DEF ToSet
  <2>3. ASSUME NEW i \in 1..Len(q) PROVE q[i] \in ToSet(uq)
    <3>1. i + 1 \in DOMAIN uq
      BY <1>3
    <3>. QED  BY <1>4, <3>1 DEF ToSet
  <2>. QED  BY <1>3, <2>1, <2>2, <2>3 DEF ToSet
<1>. QED  BY <1>2, <1>5, <1>6, <1>7 DEF uq

\* What is fetched from a queue and what remains make up the queue, and a
\* post to the rest is a post to the whole.
LEMMA PrependHead ==
    ASSUME NEW q \in Seq(Buffers), q # <<>>
    PROVE  <<Head(q)>> \o Tail(q) = q
<1>. DEFINE s == <<Head(q)>> \o Tail(q)
<1>1. /\ Head(q) \in Buffers /\ Tail(q) \in Seq(Buffers) /\ Len(q) \in Nat \ {0}
      /\ Head(q) = q[1]
  OBVIOUS
<1>2. s \in Seq(Buffers) /\ s # <<>> /\ Head(s) = Head(q) /\ Tail(s) = Tail(q)
  BY <1>1, PrependIs, Zenon
<1>. HIDE DEF s
<1>3. /\ Len(s) \in Nat \ {0} /\ s[1] = Head(s)
      /\ Len(Tail(s)) = Len(s) - 1 /\ Len(Tail(q)) = Len(q) - 1
  BY <1>1, <1>2
<1>4. Len(s) = Len(q)
  <2>1. Len(s) - 1 = Len(q) - 1
    BY <1>2, <1>3
  <2>2. Len(s) \in Int /\ Len(q) \in Int
    BY <1>1, <1>3
  <2>. QED  BY <2>1, <2>2, SMTT(30)
<1>5. ASSUME NEW i \in 1..Len(q) PROVE s[i] = q[i]
  <2>1. CASE i = 1
    BY <1>1, <1>2, <1>3, <2>1
  <2>2. CASE i # 1
    <3>1. i - 1 \in 1..Len(q) - 1 /\ (i - 1) + 1 = i
      BY <1>1, <2>2
    <3>2. Tail(s)[i - 1] = s[i - 1 + 1] /\ Tail(q)[i - 1] = q[i - 1 + 1]
      BY <1>2, <1>3, <1>4, <3>1, TailIs
    <3>. QED  BY <1>2, <3>1, <3>2
  <2>. QED  BY <2>1, <2>2, SMTT(30)
<1>. QED  BY <1>2, <1>4, <1>5, SeqEqual DEF s

LEMMA PrependAppend ==
    ASSUME NEW q \in Seq(Buffers), NEW u \in Buffers, NEW b \in Buffers
    PROVE  <<u>> \o Append(q, b) = Append(<<u>> \o q, b)
<1>1. <<u>> \in Seq(Buffers) /\ <<b>> \in Seq(Buffers)
  OBVIOUS
<1>2. <<u>> \o q \in Seq(Buffers)
  BY PrependIs
<1>3. Append(q, b) = q \o <<b>> /\ Append(<<u>> \o q, b) = (<<u>> \o q) \o <<b>>
  BY <1>2, AppendIsConcat, Zenon
<1>. DEFINE us == <<u>>
            bs == <<b>>
<1>4. us \in Seq(Buffers) /\ bs \in Seq(Buffers)
  BY <1>1
<1>5. (us \o q) \o bs = us \o (q \o bs)
  <2>. HIDE DEF us, bs
  <2>. QED  BY <1>4, ConcatAssociative
<1>. QED  BY <1>3, <1>5

\* The buffers whose packets are pending, and that no other holder has them.
LEMMA PendingBuffers ==
    ASSUME PipelineInv
    PROVE  /\ Pending \in Seq(Buffers) /\ usbQueue \in Seq(Buffers)
           /\ usbPc = "transmit" => usbBuf \in Buffers
           /\ \A i \in DOMAIN Pending : Pending[i] \in ToSet(usbQueue) \cup {usbBuf}
<1>1. usbQueue \in Seq(Buffers) /\ (usbPc = "transmit" => usbBuf \in Buffers)
  BY DEF PipelineInv, TypeInv, TypeOK, DigTypeOK, UsbTypeOK, PointersOK, Pointer
<1>2. CASE usbPc = "transmit"
  <2>1. Pending = <<usbBuf>> \o usbQueue
    BY <1>2 DEF Pending
  <2>2. Pending \in Seq(Buffers) /\ ToSet(Pending) = {usbBuf} \cup ToSet(usbQueue)
    BY <1>1, <1>2, <2>1, PrependIs, Zenon
  <2>. QED  BY <1>1, <2>2 DEF ToSet
<1>3. CASE usbPc # "transmit"
  BY <1>1, <1>3 DEF Pending, ToSet
<1>. QED  BY <1>2, <1>3

\* Pending packets do not change while only buffers of others are written.
LEMMA PendingKept ==
    ASSUME PipelineInv, UNCHANGED <<usbQueue, usbBuf, usbPc>>,
           \A b \in Buffers :
              b \in ToSet(usbQueue) \cup {usbBuf} => memory'[b] = memory[b]
    PROVE  Contents(Pending)' = Contents(Pending)
<1>1. Pending' = Pending
  BY DEF Pending
<1>2. \A i \in DOMAIN Pending : memory'[Pending[i]] = memory[Pending[i]]
  <2>1. \A i \in DOMAIN Pending :
           Pending[i] \in Buffers /\ Pending[i] \in ToSet(usbQueue) \cup {usbBuf}
    BY PendingBuffers
  <2>. QED  BY <2>1
<1>. QED  BY <1>1, <1>2 DEF Contents

LEMMA InitRefines == Init => Stream!Init
<1>. SUFFICES ASSUME Init PROVE Stream!Init
  OBVIOUS
<1>1. /\ captured = 0 /\ cisr = {} /\ inQueue = <<>> /\ inputBuf = NULL
      /\ outputBuf = NULL /\ sampleidx = 0 /\ times = <<>> /\ wire = <<>>
  BY DEF Init, CaptureInit, DigInit, UsbInit
<1>2. 0 * BlockSize = 0
  BY CaptureAssumption
<1>3. ~Partly /\ ~Begun
  BY <1>1 DEF Partly, Begun
<1>4. Posted = 0 /\ Fetched = 0 /\ Finished = 0
  BY <1>1, <1>3 DEF Posted, Fetched, Finished
<1>5. Packed = 0 /\ Counted = 0
  BY <1>1, <1>2, <1>3, <1>4 DEF Packed, Counted, Consumed
<1>6. Pending = <<>>
  BY DEF Init, DigInit, UsbInit, Pending
<1>7. Contents(Pending) = <<>>
  BY <1>6 DEF Contents
<1>. QED  BY <1>1, <1>5, <1>7 DEF Stream!Init

\* The end of a block is CaptureBlock.
LEMMA BlockDoneRefines ==
    ASSUME IsrShort, PipelineInv, StreamInv, HardwareStep, BlockDone
    PROVE  Stream!CaptureBlock
<1>1. /\ isrPc = "idle" /\ hwDest = current /\ entry = next
      /\ memory' = [b \in Buffers |-> CASE b = entry  -> Torn
                                        [] b = hwDest -> Block(captured)
                                        [] OTHER      -> memory[b]]
      /\ times' = Append(times, captured + lost)
      /\ UNCHANGED <<usbQueue, usbBuf, usbPc, wire>>
  BY ChannelAhead DEF BlockDone, HardwareStep, digVars, usbVars, PipelineInv, ChannelOK
<1>2. ASSUME NEW b \in Buffers, b \in ToSet(usbQueue) \cup {usbBuf}
      PROVE  memory'[b] = memory[b]
  <2>1. b # next /\ b # current
    BY <1>1, <1>2, OneHolder
  <2>. QED  BY <1>1, <2>1
<1>3. Contents(Pending)' = Contents(Pending)
  BY <1>1, <1>2, PendingKept
<1>4. Packed' = Packed /\ Counted' = Counted
  BY BlockDoneStreamInv DEF HostSame
<1>5. /\ times \in Seq(Nat) /\ captured + lost \in Nat
      /\ \A i \in DOMAIN times : times[i] < captured + lost
  <2>1. captured \in Nat /\ lost \in Nat /\ times \in Seq(Nat)
    BY Numbers
  <2>. QED  BY <2>1 DEF StreamInv, TimesOK
<1>6. /\ Len(times') = Len(times) + 1 /\ Len(times') > Len(times)
      /\ times'[Len(times')] = captured + lost
  <2>1. times' = Append(times, captured + lost)
    BY <1>1
  <2>. QED  BY <1>5, <2>1
<1>. QED  BY <1>1, <1>3, <1>4, <1>5, <1>6 DEF Stream!CaptureBlock

\* What is compressed was delivered.
LEMMA ConsumedDelivered ==
    ASSUME PipelineInv, StreamInv
    PROVE  Consumed <= captured * BlockSize
<1>1. captured - Fetched \in Nat /\ captured = Fetched + (captured - Fetched)
  <2>1. Posted = captured \/ Posted = captured - 1
    BY DEF Posted
  <2>2. Fetched = Posted - Len(inQueue)
    BY DEF Fetched
  <2>3. captured \in Nat /\ Len(inQueue) \in Nat /\ Posted \in Int /\ Fetched \in Int
    BY Numbers
  <2>. QED  BY <2>1, <2>2, <2>3
<1>2. BlockSize \in Nat /\ Fetched \in Int /\ captured \in Int
  BY Numbers
<1>3. /\ Fetched * BlockSize \in Int /\ (captured - Fetched) * BlockSize \in Nat
      /\ captured * BlockSize = Fetched * BlockSize + (captured - Fetched) * BlockSize
  BY <1>1, <1>2
<1>4. Fetched * BlockSize <= captured * BlockSize
  BY <1>2, <1>3
<1>5. CASE Partly
  <2>1. Consumed = (Fetched - 1) * BlockSize + inputIndex
    BY <1>5 DEF Consumed, Finished
  <2>2. Fetched - 1 \in Int /\ (Fetched - 1) + 1 = Fetched
    BY <1>2
  <2>3. /\ (Fetched - 1) * BlockSize \in Int
        /\ Fetched * BlockSize = (Fetched - 1) * BlockSize + BlockSize
    BY <2>2, NextBlock
  <2>4. inputIndex \in Int /\ inputIndex < BlockSize
    BY <1>5, Numbers DEF Partly
  <2>5. captured * BlockSize \in Int
    BY <1>2
  <2>. QED  BY <1>2, <1>4, <2>1, <2>3, <2>4, <2>5
<1>6. CASE ~Partly
  <2>1. Consumed = Fetched * BlockSize + 0
    BY <1>6 DEF Consumed, Finished
  <2>. QED  BY <1>3, <1>4, <2>1
<1>. QED  BY <1>5, <1>6

\* A post to the write queue is Pack: the packet has the samples after those
\* packed before, at least one, and no more than were delivered.
LEMMA SendRefines ==
    ASSUME PipelineInv, StreamInv, DigStep, DigSend
    PROVE  Stream!Pack
<1>1. /\ digPc = "send" /\ outputBuf \in Buffers /\ outputBuf' = NULL /\ outputBuf # NULL
      /\ usbQueue' = Append(usbQueue, outputBuf)
      /\ UNCHANGED <<memory, inQueue, inputBuf, inputIndex, sampleidx, cisr, captured,
                     times, usbBuf, usbPc, wire>>
  BY DEF DigStep, DigSend, DigAt, CaptureFrame, usbVars, PipelineInv, TypeInv, TypeOK,
         DigTypeOK, PointersOK, Pointer
<1>. DEFINE packet == memory[outputBuf]
<1>2. /\ packet.first = Counted /\ packet.data \in Seq(Int)
      /\ Len(packet.data) = sampleidx - Counted
      /\ Stream!Carries(packet.data, Packed, Consumed)
      /\ Packed \in 0..Consumed /\ Packed < Consumed
  <2>1. packet = [first |-> Counted, data |-> packet.data]
    BY <1>1 DEF StreamInv, WritingOK
  <2>2. packet.first = Counted
    BY <2>1
  <2>. QED  BY <1>1, <2>2 DEF StreamInv, WritingOK
<1>3. Packed' = Consumed /\ Counted' = sampleidx
  <2>1. Consumed' = Consumed
    BY <1>1 DEF Consumed, Finished, Partly, Fetched, Posted
  <2>2. ~Begun'
    BY <1>1 DEF Begun
  <2>. QED  BY <1>1, <2>1, <2>2 DEF Packed, Counted
<1>4. Contents(Pending)' = Append(Contents(Pending), packet)
  <2>1. Pending' = Append(Pending, outputBuf)
    <3>1. CASE usbPc = "transmit"
      BY <1>1, <3>1, PendingBuffers, PrependAppend DEF Pending
    <3>2. CASE usbPc # "transmit"
      BY <1>1, <3>2 DEF Pending
    <3>. QED  BY <3>1, <3>2
  <2>2. Contents(Append(Pending, outputBuf)) = Append(Contents(Pending), packet)
    BY <1>1, PendingBuffers, ContentsAppend
  <2>. QED  BY <1>1, <2>1, <2>2 DEF Contents
<1>5. LET pending == Contents(Pending) IN pending \in Seq({memory[c] : c \in Buffers})
  <2>1. Pending \in Seq(Buffers)
    BY PendingBuffers
  <2>. QED  BY <2>1 DEF Contents
<1>6. /\ Len(Contents(Pending)') > Len(Contents(Pending))
      /\ Contents(Pending)'[Len(Contents(Pending)')] = packet
  <2>. DEFINE S == {memory[c] : c \in Buffers}
              p == Contents(Pending)
  <2>1. p \in Seq(S) /\ packet \in S
    BY <1>1, <1>5
  <2>. HIDE DEF S, p, packet
  <2>2. Len(Append(p, packet)) > Len(p) /\ Append(p, packet)[Len(Append(p, packet))] = packet
    BY <2>1
  <2>. QED  BY <1>4, <2>2 DEF p
<1>7. Consumed \in Packed + 1 .. Len(times) * BlockSize
  <2>1. Len(times) = captured
    BY DEF StreamInv, TimesOK
  <2>2. Consumed \in Nat /\ Consumed <= captured * BlockSize
    BY ConsumedNat, ConsumedDelivered
  <2>3. captured * BlockSize \in Int
    BY Numbers
  <2>. HIDE DEF packet
  <2>. QED  BY <1>2, <2>1, <2>2, <2>3
<1>8. Counted' = Counted + Len(packet.data)
  <2>1. Counted \in Int /\ sampleidx \in Int
    BY <1>1, Numbers DEF StreamInv, WritingOK
  <2>. HIDE DEF packet
  <2>2. Len(packet.data) \in Int
    BY <1>2
  <2>. QED  BY <1>2, <1>3, <2>1, <2>2
<1>9. times' = times /\ wire' = wire
  BY <1>1
<1>. HIDE DEF packet
<1>. QED  BY <1>2, <1>3, <1>4, <1>6, <1>7, <1>8, <1>9 DEF Stream!Pack

\* A transmission, successful or not, is Transmit.
LEMMA TransmitRefines ==
    ASSUME PipelineInv, UsbStep, UsbTransmit
    PROVE  Stream!Transmit
<1>1. /\ usbPc = "transmit" /\ usbPc' = "release"
      /\ usbBuf \in Buffers /\ usbQueue \in Seq(Buffers)
      /\ wire' \in {wire, Append(wire, memory[usbBuf])}
      /\ UNCHANGED <<memory, inQueue, inputBuf, inputIndex, sampleidx, cisr, captured,
                     times, outputBuf, usbQueue>>
  BY PendingBuffers DEF UsbTransmit, UsbAt, OthersFrame, CaptureFrame
<1>2. Pending = <<usbBuf>> \o usbQueue /\ Pending' = usbQueue
  BY <1>1 DEF Pending
<1>3. Pending \in Seq(Buffers) /\ Pending # <<>> /\ Head(Pending) = usbBuf
      /\ Tail(Pending) = usbQueue
  BY <1>1, <1>2, PrependIs
<1>4. /\ Contents(Pending) # <<>> /\ Head(Contents(Pending)) = memory[usbBuf]
      /\ Contents(Tail(Pending)) = Tail(Contents(Pending))
  BY <1>3, ContentsTail
<1>5. Contents(Pending)' = Tail(Contents(Pending))
  BY <1>1, <1>2, <1>3, <1>4 DEF Contents
<1>6. Packed' = Packed /\ Counted' = Counted
  BY <1>1 DEF Packed, Counted, Begun, Consumed, Finished, Partly, Fetched, Posted
<1>. QED  BY <1>1, <1>4, <1>5, <1>6 DEF Stream!Transmit

\* All other steps change nothing the host could tell.
LEMMA OthersStutter ==
    ASSUME IsrShort, PipelineInv, StreamInv,
           \/ Read \/ Start \/ QspiIrqStep \/ IsrStep \/ UNCHANGED vars
           \/ HardwareStep /\ (BlockLost \/ TransferError \/ QspiDone)
           \/ DigStep /\ ~DigSend
           \/ UsbStep /\ ~UsbTransmit
    PROVE  UNCHANGED Stream!streamVars
<1>1. HostSame
  <2>1. CASE HardwareStep \/ Start \/ IsrStep \/ (DigStep /\ ~DigSend)
    BY <2>1, HardwareStreamInv, StartStreamInv, IsrStreamInv, DigStreamInv
  <2>2. CASE Read \/ QspiIrqStep \/ UsbStep \/ UNCHANGED vars
    BY <2>2, OthersStreamInv
  <2>. QED  BY <2>1, <2>2
<1>. SUFFICES times' = times /\ wire' = wire /\ Contents(Pending)' = Contents(Pending)
  BY <1>1 DEF Stream!streamVars, HostSame
<1>2. CASE DigStep /\ DigAllocate
  <2>1. UNCHANGED <<times, usbQueue, usbPc, usbBuf, wire>>
    BY <1>2 DEF DigStep, DigAllocate, CaptureFrame, usbVars
  <2>2. PICK b \in TryAllocate(free, "D1") :
          IF b = NULL THEN UNCHANGED <<memory, outputBuf>> ELSE TakeOutput(b)
    BY <1>2 DEF DigAllocate
  <2>3. CASE b = NULL
    BY <2>1, <2>2, <2>3, PendingKept
  <2>4. CASE b # NULL
    <3>1. b \in free /\ b \in Buffers
      BY <2>4, TryAllocateResult DEF PipelineInv, TypeInv, TypeOK, PoolTypeOK
    <3>2. \A c \in Buffers : c # b => memory'[c] = memory[c]
      BY <2>2, <2>4 DEF TakeOutput, StreamInv
    <3>3. b \notin ToSet(usbQueue) \cup {usbBuf}
      BY <3>1, OneHolder
    <3>. QED  BY <2>1, <3>2, <3>3, PendingKept
  <2>. QED  BY <2>3, <2>4
<1>3. CASE DigStep /\ DigCompress
  <2>1. outputBuf \in Buffers /\ UNCHANGED <<times, usbQueue, usbPc, usbBuf, wire>>
    BY <1>3 DEF DigStep, DigCompress, DigAt, CaptureFrame, usbVars, PipelineInv, TypeInv,
       TypeOK, DigTypeOK, PointersOK, Pointer
  <2>2. PICK data : memory' = [memory EXCEPT ![outputBuf].data = data]
    BY <1>3 DEF DigCompress
  <2>3. \A c \in Buffers : c # outputBuf => memory'[c] = memory[c]
    BY <2>1, <2>2 DEF StreamInv
  <2>4. outputBuf \notin ToSet(usbQueue) \cup {usbBuf}
    BY <2>1, OneHolder
  <2>. QED  BY <2>1, <2>3, <2>4, PendingKept
<1>4. CASE DigStep /\ (DigFetch \/ DigRelease \/ DigRefill)
  BY <1>4, PendingKept DEF DigStep, DigFetch, DigRelease, DigRefill, CaptureFrame, usbVars
<1>5. CASE \/ Read \/ Start \/ QspiIrqStep \/ IsrStep \/ UNCHANGED vars
           \/ HardwareStep /\ (TransferError \/ QspiDone)
  BY <1>5, PendingKept DEF Read, ReadInput, Start, StartCapture, DigCreate, QspiIrqStep,
     QspiIrq, IsrStep, Isr, IsrPost, IsrAdvance, IsrError, HardwareStep, TransferError,
     QspiDone, vars, captureVars, digVars, usbVars
<1>6. CASE UsbStep /\ UsbFetch
  <2>1. /\ usbPc = "fetch" /\ usbPc' = "transmit" /\ usbQueue # <<>>
        /\ usbBuf' = Head(usbQueue) /\ usbQueue' = Tail(usbQueue)
        /\ UNCHANGED <<memory, times, wire>>
    BY <1>6 DEF UsbFetch, UsbAt, OthersFrame, CaptureFrame
  <2>2. Pending = usbQueue /\ Pending' = <<Head(usbQueue)>> \o Tail(usbQueue)
    BY <2>1 DEF Pending
  <2>3. Pending' = Pending
    BY <2>1, <2>2, PendingBuffers, PrependHead
  <2>. QED  BY <2>1, <2>3 DEF Contents
<1>7. CASE UsbStep /\ (UsbRelease \/ UsbIdle \/ UsbSendStatus)
  <2>1. /\ usbPc # "transmit" /\ usbPc' # "transmit"
        /\ UNCHANGED <<memory, times, wire, usbQueue>>
    BY <1>7 DEF UsbRelease, UsbIdle, UsbSendStatus, UsbAt, OthersFrame, CaptureFrame
  <2>. QED  BY <2>1 DEF Pending, Contents
<1>8. CASE DigStep /\ ~DigSend
  BY <1>2, <1>3, <1>4, <1>8 DEF DigStep, DigIn
<1>9. CASE UsbStep /\ ~UsbTransmit
  BY <1>6, <1>7, <1>9 DEF UsbStep, Usb
<1>10. CASE HardwareStep /\ BlockLost
  <2>1. /\ UNCHANGED <<times, wire, usbQueue, usbBuf, usbPc>>
        /\ \A b \in Buffers : b # next => memory'[b] = memory[b]
    BY <1>10, BlockLostKeeps
  <2>2. ASSUME NEW b \in Buffers, b \in ToSet(usbQueue) \cup {usbBuf}
        PROVE  memory'[b] = memory[b]
    <3>1. b # next
      BY <2>2, OneHolder
    <3>. QED  BY <2>1, <3>1
  <2>. QED  BY <2>1, <2>2, PendingKept
<1>. QED  BY <1>5, <1>8, <1>9, <1>10

(* The pipeline implements SampleStream: whatever the interleaving of the  *)
(* channel, the callback, the threads and failing transmissions, the       *)
(* packets the host receives hold the delivered samples in order, none of  *)
(* them twice or before it was delivered, with at most Overread other      *)
(* words behind the last sample of a block, and the sampleidx in a header  *)
(* counts the words of the packets before it, those lost on the wire       *)
(* included.  Lost blocks it does not count: they are gaps in "times".     *)
THEOREM StreamImplemented == ASSUME IsrShort PROVE Spec => StreamSafe
<1>1. ASSUME PipelineInv, StreamInv, [Next]_vars
      PROVE  [Stream!Next]_(Stream!streamVars)
  BY <1>1, BlockDoneRefines, SendRefines, TransmitRefines, OthersStutter
     DEF Next, HardwareStep, Hardware, Stream!Next
<1>. QED
  BY <1>1, InitRefines, PipelineInvariant, ContentsCorrect, PTL
     DEF Spec, StreamSafe, Stream!Spec
=============================================================================
