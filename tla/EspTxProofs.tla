---------------------------- MODULE EspTxProofs -----------------------------
(***************************************************************************)
(* Proofs about EspTx for every queue limit, fifo depth, netif_info and    *)
(* sequence of arriving packets: mutual exclusion on the queue, no leak,   *)
(* the byte count, the conservation of every accepted byte in order, and   *)
(* that the three tasks implement the packet pipe.                         *)
(***************************************************************************)
EXTENDS EspTx, FramesProofs

-----------------------------------------------------------------------------
(* TotalLength.                                                            *)

LengthsOf(ps) == [n \in 1 .. Len(ps) |-> Len(ps[n])]

\* The packets' lengths, one for each packet.
LEMMA LengthsOfType ==
  ASSUME NEW ps \in PacketSeq
  PROVE  LengthsOf(ps) \in Seq(Nat) /\ Len(LengthsOf(ps)) = Len(ps)
<1>1. Len(ps) \in Nat /\ \A n \in 1 .. Len(ps) : Len(ps[n]) \in Nat
  <2>1. Len(ps) \in Nat /\ \A n \in 1 .. Len(ps) : ps[n] \in Sendable
    BY LenProperties, ElementOfSeq DEF PacketSeq
  <2> QED BY <2>1, DataFrame
<1> QED BY <1>1 DEF LengthsOf

\* The total length of packets is a number,
LEMMA TotalLengthType ==
  ASSUME NEW ps \in PacketSeq
  PROVE  TotalLength(ps) \in Nat
BY LengthsOfType, SumOfType DEF TotalLength, LengthsOf

\* that of no packet is 0,
LEMMA TotalLengthEmpty == TotalLength(<<>>) = 0
<1>1. LengthsOf(<<>>) = <<>>
  BY DEF LengthsOf
<1> QED BY <1>1, SumOfEmpty DEF TotalLength, LengthsOf

\* a packet more adds its length,
LEMMA TotalLengthAppend ==
  ASSUME NEW ps \in PacketSeq, NEW p \in Sendable
  PROVE  TotalLength(Append(ps, p)) = TotalLength(ps) + Len(p)
<1> DEFINE qs == Append(ps, p)
           a == LengthsOf(qs)
           b == Append(LengthsOf(ps), Len(p))
           N == Len(ps)
<1>1. N \in Nat /\ qs \in PacketSeq /\ Len(qs) = N + 1 /\ qs[N + 1] = p
      /\ \A i \in 1 .. N : qs[i] = ps[i]
  BY AppendProperties, LenProperties DEF PacketSeq
<1>2. Len(p) \in Nat
  BY DataFrame
<1>3. LengthsOf(ps) \in Seq(Nat) /\ Len(LengthsOf(ps)) = N
  BY LengthsOfType
<1> HIDE DEF qs
<1>4. a \in Seq(Nat) /\ Len(a) = N + 1
  BY <1>1, LengthsOfType
<1>5. /\ b \in Seq(Nat) /\ Len(b) = N + 1 /\ b[N + 1] = Len(p)
      /\ \A i \in 1 .. N : b[i] = LengthsOf(ps)[i]
  BY <1>2, <1>3, AppendProperties
<1>6. \A i \in 1 .. N : LengthsOf(ps)[i] = Len(ps[i])
  BY DEF LengthsOf
<1>7. \A i \in 1 .. N + 1 : a[i] = Len(qs[i])
  BY <1>1 DEF LengthsOf
<1> HIDE DEF a, b, N
<1>8. \A i \in 1 .. Len(a) : a[i] = b[i]
  <2> SUFFICES ASSUME NEW i \in 1 .. N + 1 PROVE a[i] = b[i]
    BY <1>4
  <2>1. CASE i = N + 1
    BY <1>1, <1>5, <1>7, <2>1
  <2>2. CASE i # N + 1
    <3>1. i \in 1 .. N
      BY <1>1, <2>2
    <3> QED BY <1>1, <1>5, <1>6, <1>7, <3>1, Zenon
  <2> QED BY <2>1, <2>2
<1>9. a = b
  BY <1>4, <1>5, <1>8, SeqEqual
<1>10. SumOf(b) = SumOf(LengthsOf(ps)) + Len(p)
  BY <1>2, <1>3, SumOfAppend DEF b
<1> QED BY <1>9, <1>10 DEF TotalLength, a, qs, LengthsOf

\* and the first packet contributes its own.
LEMMA TotalLengthTail ==
  ASSUME NEW ps \in PacketSeq, ps # <<>>
  PROVE  TotalLength(ps) = Len(Head(ps)) + TotalLength(Tail(ps))
<1> DEFINE ts == Tail(ps)
           a == LengthsOf(ps)
           b == LengthsOf(ts)
           N == Len(ts)
<1>1. /\ N \in Nat /\ ts \in PacketSeq /\ Len(ps) = N + 1 /\ ps[1] = Head(ps)
      /\ \A i \in 1 .. N : ts[i] = ps[i + 1]
  BY HeadTailProperties, LenProperties, EmptySeq DEF PacketSeq
<1> HIDE DEF ts
<1>2. /\ a \in Seq(Nat) /\ Len(a) = N + 1 /\ b \in Seq(Nat) /\ Len(b) = N
  BY <1>1, LengthsOfType
<1>3. a # <<>> /\ a[1] = Len(ps[1]) /\ Head(a) = a[1]
  <2>1. a[1] = Len(ps[1])
    BY <1>1 DEF LengthsOf
  <2> HIDE DEF a
  <2> QED BY <1>1, <1>2, <2>1
<1>4. \A i \in 1 .. N : b[i] = Len(ts[i]) /\ a[i + 1] = Len(ps[i + 1])
  BY <1>1 DEF LengthsOf
<1> HIDE DEF a, b, N
<1>5. /\ Tail(a) \in Seq(Nat) /\ Len(Tail(a)) = N
      /\ \A i \in 1 .. N : Tail(a)[i] = a[i + 1]
  BY <1>1, <1>2, <1>3, HeadTailProperties
<1>6. \A i \in 1 .. N : Tail(a)[i] = b[i]
  BY <1>1, <1>4, <1>5, Zenon
<1>7. Tail(a) = b
  BY <1>2, <1>5, <1>6, SeqEqual
<1>8. SumOf(a) = Head(a) + SumOf(Tail(a))
  BY <1>2, <1>3, SumOfTail
<1> QED BY <1>1, <1>3, <1>7, <1>8 DEF TotalLength, a, b, ts, LengthsOf

-----------------------------------------------------------------------------
(* The inductive invariant.                                                *)

\* What is queued or in a task's hands is a packet lwIP handed over; the fifo
\* is never overfilled, so what uart0_fill_txfifo writes is never negative.
Packets ==
  /\ queue \in PacketSeq /\ accepted \in PacketSeq
  /\ tcpip # "idle" => packet \in Sendable
  /\ main \in {"count", "copy"} => data \in Sendable
  /\ Len(txfifo) <= UART_FIFO_LEN

\* A task is between take and give of the mutex exactly while it holds it.
OneInQueue ==
  /\ mutex = "tcpip" <=>
       tcpip \in {"check", "alloc_element", "alloc_data", "link", "count"}
  /\ mutex = "main" <=> main \in {"unlink", "count"}

\* The byte count at every place: short of a packet that is linked in and not
\* yet counted, ahead of one that is unlinked and still counted; and with room
\* for a packet that has passed the check.
Counted ==
  /\ current_total_length + (IF tcpip = "count" THEN Len(packet) ELSE 0) =
       TotalLength(queue) + (IF main = "count" THEN Len(data) ELSE 0)
  /\ current_total_length <= MAX_QUEUE_LENGTH
  /\ tcpip \in {"alloc_element", "alloc_data", "link", "count"} =>
       current_total_length + Len(packet) <= MAX_QUEUE_LENGTH

\* The main task writes only after start_hock has written all of netif_info,
\* and dequeues only when uartSendbuffer is empty.
Staged ==
  /\ ev # "info" => infoLeft = <<>>
  /\ main # "init" => ev = "done"
  /\ main \notin {"loop", "fill", "dummy_read"} => sendbuf = <<>>

\* Conservation, with the concatenation the lemmas are about.
Held == IF main \in {"count", "copy"} THEN Frame(data, SPLIT_DATA) ELSE <<>>

Flow ==
  Cat(Frame(NetifInfo, SPLIT_CMD), DataBytes(accepted)) =
    Cat(Cat(Cat(Cat(Cat(wire, txfifo), infoLeft), sendbuf), Held), DataBytes(queue))

IInv ==
  /\ PlacesOK /\ FlagsOK /\ NumbersOK /\ BuffersOK
  /\ Packets /\ OneInQueue /\ HeapBalanced /\ Counted /\ Staged /\ Flow

\* The flow of bytes through the queue, the chunk and the wire conserves them.
LEMMA FlowConserves == Flow => Conservation
BY DEF Flow, Held, Conservation, Cat

\* The invariant implies the type invariant.
LEMMA TypeParts == IInv => TypeOK
<1>1. Packets => QueuesOK
  <2>1. Sendable \subseteq Seq(Byte)
    BY DEF Sendable
  <2> QED BY <2>1, SeqMonotonic DEF Packets, PacketSeq, QueuesOK
<1> QED BY <1>1 DEF IInv, TypeOK

\* uart0_fill_txfifo moves the front of a buffer to the end of the fifo.
LEMMA FillMoves ==
  ASSUME NEW b \in Seq(Byte), txfifo \in Seq(Byte), Len(txfifo) <= UART_FIFO_LEN,
         FillTxfifo(b)
  PROVE  /\ txfifo' \in Seq(Byte) /\ Drop(b, Room(b)) \in Seq(Byte)
         /\ Len(txfifo') <= UART_FIFO_LEN
         /\ Cat(txfifo', Drop(b, Room(b))) = Cat(txfifo, b)
<1> DEFINE n == Room(b)
           p == SubSeq(b, 1, n)
           q == SubSeq(b, n + 1, Len(b))
<1>1. n \in 0 .. Len(b) /\ n <= UART_FIFO_LEN - Len(txfifo)
  BY EspTxAssumption, LenProperties DEF Room
<1>2. txfifo' = Cat(txfifo, p) /\ Drop(b, n) = q
  BY DEF FillTxfifo, Drop, Cat
<1> HIDE DEF n
<1>3. p \in Seq(Byte) /\ q \in Seq(Byte) /\ Len(p) = n /\ Cat(p, q) = b
  BY <1>1, CutAt
<1> HIDE DEF p, q
<1>4. Cat(txfifo, p) \in Seq(Byte) /\ Len(Cat(txfifo, p)) = Len(txfifo) + n
  BY <1>3, CatType
<1>5. Len(Cat(txfifo, p)) <= UART_FIFO_LEN
  <2>1. Len(txfifo) \in Nat /\ Len(b) \in Nat /\ UART_FIFO_LEN \in Nat
    BY LenProperties, EspTxAssumption
  <2> QED BY <1>1, <1>4, <2>1
<1>6. Cat(Cat(txfifo, p), q) = Cat(txfifo, b)
  BY <1>3, MoveFront
<1> QED BY <1>2, <1>3, <1>4, <1>5, <1>6 DEF n

\* Arithmetic on a uint16_t: in range, and exact where it does not wrap.
LEMMA Wrap16Type == ASSUME NEW x \in Int PROVE Wrap16(x) \in UInt16
BY DEF Wrap16, UInt16

\* A 16-bit counter is exact below 2^16.
LEMMA Wrap16Exact == ASSUME NEW x \in Int, x >= 0, x < 65536 PROVE Wrap16(x) = x
BY DEF Wrap16

\* The first byte of the fifo goes out on the wire.
LEMMA ByteSent ==
  ASSUME Transmit, txfifo \in Seq(Byte), wire \in Seq(Byte)
  PROVE  /\ wire' \in Seq(Byte) /\ txfifo' \in Seq(Byte)
         /\ Len(txfifo') = Len(txfifo) - 1 /\ Len(wire') = Len(wire) + 1
         /\ Cat(wire', txfifo') = Cat(wire, txfifo)
<1> DEFINE h == <<Head(txfifo)>>
           t == Tail(txfifo)
<1>1. txfifo # <<>> /\ txfifo' = t /\ wire' = Append(wire, Head(txfifo))
  BY DEF Transmit
<1>2. /\ h \in Seq(Byte) /\ t \in Seq(Byte) /\ Len(t) = Len(txfifo) - 1
      /\ Cat(h, t) = txfifo /\ Head(txfifo) \in Byte
  BY <1>1, CutHead, HeadTailProperties
<1>3. /\ Append(wire, Head(txfifo)) = Cat(wire, h)
      /\ Append(wire, Head(txfifo)) \in Seq(Byte)
      /\ Len(Append(wire, Head(txfifo))) = Len(wire) + 1
  BY <1>2, CatOne, AppendProperties
<1> HIDE DEF h, t
<1>4. Cat(Cat(wire, h), t) = Cat(wire, txfifo)
  BY <1>2, MoveFront
<1> QED BY <1>1, <1>2, <1>3, <1>4

\* What Flow is made of are byte sequences.
LEMMA FlowTypes ==
  ASSUME BuffersOK, Packets
  PROVE  /\ wire \in Seq(Byte) /\ txfifo \in Seq(Byte) /\ infoLeft \in Seq(Byte)
         /\ sendbuf \in Seq(Byte) /\ Held \in Seq(Byte) /\ DataBytes(queue) \in Seq(Byte)
         /\ DataBytes(accepted) \in Seq(Byte) /\ Frame(NetifInfo, SPLIT_CMD) \in Seq(Byte)
         /\ Cat(wire, txfifo) \in Seq(Byte)
         /\ Cat(Cat(wire, txfifo), infoLeft) \in Seq(Byte)
         /\ Cat(Cat(Cat(wire, txfifo), infoLeft), sendbuf) \in Seq(Byte)
         /\ Cat(Cat(Cat(Cat(wire, txfifo), infoLeft), sendbuf), Held) \in Seq(Byte)
<1>1. /\ wire \in Seq(Byte) /\ txfifo \in Seq(Byte) /\ infoLeft \in Seq(Byte)
      /\ sendbuf \in Seq(Byte)
  BY DEF BuffersOK
<1>2. Held \in Seq(Byte)
  <2>1. CASE main \in {"count", "copy"}
    <3>1. Frame(data, SPLIT_DATA) \in Seq(Byte)
      BY <2>1, DataFrame DEF Packets
    <3> QED BY <2>1, <3>1 DEF Held
  <2>2. CASE main \notin {"count", "copy"}
    BY <2>2, EmptySeq DEF Held
  <2> QED BY <2>1, <2>2
<1>3. DataBytes(queue) \in Seq(Byte) /\ DataBytes(accepted) \in Seq(Byte)
  BY DataBytesType DEF Packets
<1>4. Frame(NetifInfo, SPLIT_CMD) \in Seq(Byte)
  <2>1. NetifInfo \in Seq(Byte) /\ Len(NetifInfo) <= MTU_LEN /\ SPLIT_CMD \in Byte
    BY EspTxAssumption, FrameAssumption, SMT
  <2> QED BY <2>1, FrameSize
<1>5. Cat(wire, txfifo) \in Seq(Byte)
  BY <1>1, CatType
<1>6. Cat(Cat(wire, txfifo), infoLeft) \in Seq(Byte)
  BY <1>1, <1>5, CatType
<1>7. Cat(Cat(Cat(wire, txfifo), infoLeft), sendbuf) \in Seq(Byte)
  BY <1>1, <1>6, CatType
<1>8. Cat(Cat(Cat(Cat(wire, txfifo), infoLeft), sendbuf), Held) \in Seq(Byte)
  BY <1>2, <1>7, CatType
<1> QED BY <1>1, <1>2, <1>3, <1>4, <1>5, <1>6, <1>7, <1>8

\* Every step leads to a place of the code.
LEMMA StepPlaces == ASSUME IInv, Next PROVE PlacesOK'
<1> USE DEF IInv, evVars, qVars, rxVars, mainVars, uartVars
<1>1. CASE SendInfo
  BY <1>1 DEF SendInfo, PlacesOK
<1>2. CASE InfoSent
  BY <1>2 DEF InfoSent, PlacesOK
<1>3. CASE EchoReceived
  BY <1>3 DEF EchoReceived, PlacesOK
<1>4. CASE Hook
  BY <1>4 DEF Hook, PlacesOK
<1>5. CASE Run
  BY <1>5 DEF Run, PlacesOK
<1>6. CASE Disconnected
  BY <1>6 DEF Disconnected, PlacesOK
<1>7. CASE Ip4Input
  BY <1>7 DEF Ip4Input, PlacesOK
<1>8. CASE EnqTake
  BY <1>8 DEF EnqTake, PlacesOK
<1>9. CASE EnqFull
  BY <1>9 DEF EnqFull, EnqGiveUp, PlacesOK
<1>10. CASE EnqCheck
  BY <1>10 DEF EnqCheck, TooLong, PlacesOK
<1>11. CASE EnqAlloc("alloc_element", "alloc_data")
  BY <1>11 DEF EnqAlloc, PlacesOK
<1>12. CASE EnqNoElement
  BY <1>12 DEF EnqNoElement, EnqGiveUp, PlacesOK
<1>13. CASE EnqAlloc("alloc_data", "link")
  BY <1>13 DEF EnqAlloc, PlacesOK
<1>14. CASE EnqNoData
  BY <1>14 DEF EnqNoData, EnqGiveUp, PlacesOK
<1>15. CASE EnqLink
  BY <1>15 DEF EnqLink, PlacesOK
<1>16. CASE EnqCount
  BY <1>16 DEF EnqCount, PlacesOK
<1>17. CASE MainStart
  BY <1>17 DEF MainStart, PlacesOK
<1>18. CASE MainLoop
  BY <1>18 DEF MainLoop, PlacesOK
<1>19. CASE NotifyLinkDown
  BY <1>19 DEF NotifyLinkDown, PlacesOK
<1>20. CASE DeqTake
  BY <1>20 DEF DeqTake, PlacesOK
<1>21. CASE DeqEmpty
  BY <1>21 DEF DeqEmpty, PlacesOK
<1>22. CASE DeqUnlink
  BY <1>22 DEF DeqUnlink, PlacesOK
<1>23. CASE DeqCount
  BY <1>23 DEF DeqCount, PlacesOK
<1>24. CASE BuildFrame
  BY <1>24 DEF BuildFrame, PlacesOK
<1>25. CASE FillFifo
  BY <1>25 DEF FillFifo, PlacesOK
<1>26. CASE Transmit
  BY <1>26 DEF Transmit, PlacesOK
<1> QED
  BY <1>1, <1>2, <1>3, <1>4, <1>5, <1>6, <1>7, <1>8, <1>9, <1>10, <1>11, <1>12,
     <1>13, <1>14, <1>15, <1>16, <1>17, <1>18, <1>19, <1>20, <1>21, <1>22, <1>23,
     <1>24, <1>25, <1>26
  DEF Next, EventTask, Tcpip, Main

\* Every step keeps the flags Boolean.
LEMMA StepFlags == ASSUME IInv, Next PROVE FlagsOK'
<1> USE DEF IInv, evVars, qVars, rxVars, mainVars, uartVars
<1>1. CASE SendInfo
  BY <1>1 DEF SendInfo, FlagsOK
<1>2. CASE InfoSent
  BY <1>2 DEF InfoSent, FlagsOK
<1>3. CASE EchoReceived
  BY <1>3 DEF EchoReceived, FlagsOK
<1>4. CASE Hook
  BY <1>4 DEF Hook, FlagsOK
<1>5. CASE Run
  BY <1>5 DEF Run, FlagsOK
<1>6. CASE Disconnected
  BY <1>6 DEF Disconnected, FlagsOK
<1>7. CASE Ip4Input
  BY <1>7 DEF Ip4Input, FlagsOK
<1>8. CASE EnqTake
  BY <1>8 DEF EnqTake, FlagsOK
<1>9. CASE EnqFull
  BY <1>9 DEF EnqFull, EnqGiveUp, FlagsOK
<1>10. CASE EnqCheck
  BY <1>10 DEF EnqCheck, TooLong, FlagsOK
<1>11. CASE EnqAlloc("alloc_element", "alloc_data")
  BY <1>11 DEF EnqAlloc, FlagsOK
<1>12. CASE EnqNoElement
  BY <1>12 DEF EnqNoElement, EnqGiveUp, FlagsOK
<1>13. CASE EnqAlloc("alloc_data", "link")
  BY <1>13 DEF EnqAlloc, FlagsOK
<1>14. CASE EnqNoData
  BY <1>14 DEF EnqNoData, EnqGiveUp, FlagsOK
<1>15. CASE EnqLink
  BY <1>15 DEF EnqLink, FlagsOK
<1>16. CASE EnqCount
  BY <1>16 DEF EnqCount, FlagsOK
<1>17. CASE MainStart
  BY <1>17 DEF MainStart, FlagsOK
<1>18. CASE MainLoop
  BY <1>18 DEF MainLoop, FlagsOK
<1>19. CASE NotifyLinkDown
  BY <1>19 DEF NotifyLinkDown, FlagsOK
<1>20. CASE DeqTake
  BY <1>20 DEF DeqTake, FlagsOK
<1>21. CASE DeqEmpty
  BY <1>21 DEF DeqEmpty, FlagsOK
<1>22. CASE DeqUnlink
  BY <1>22 DEF DeqUnlink, FlagsOK
<1>23. CASE DeqCount
  BY <1>23 DEF DeqCount, FlagsOK
<1>24. CASE BuildFrame
  BY <1>24 DEF BuildFrame, FlagsOK
<1>25. CASE FillFifo
  BY <1>25 DEF FillFifo, FlagsOK
<1>26. CASE Transmit
  BY <1>26 DEF Transmit, FlagsOK
<1> QED
  BY <1>1, <1>2, <1>3, <1>4, <1>5, <1>6, <1>7, <1>8, <1>9, <1>10, <1>11, <1>12,
     <1>13, <1>14, <1>15, <1>16, <1>17, <1>18, <1>19, <1>20, <1>21, <1>22, <1>23,
     <1>24, <1>25, <1>26
  DEF Next, EventTask, Tcpip, Main

\* Every step keeps the counters in their ranges.
LEMMA StepNumbers == ASSUME IInv, Next PROVE NumbersOK'
<1> USE DEF IInv, evVars, qVars, rxVars, mainVars, uartVars
<1>1. CASE SendInfo
  BY <1>1 DEF SendInfo, NumbersOK
<1>2. CASE InfoSent
  BY <1>2 DEF InfoSent, NumbersOK
<1>3. CASE EchoReceived
  BY <1>3 DEF EchoReceived, NumbersOK
<1>4. CASE Hook
  BY <1>4 DEF Hook, NumbersOK
<1>5. CASE Run
  BY <1>5 DEF Run, NumbersOK
<1>6. CASE Disconnected
  BY <1>6 DEF Disconnected, NumbersOK
<1>7. CASE Ip4Input
  BY <1>7, EspTxAssumption, LenProperties DEF Ip4Input, NumbersOK
<1>8. CASE EnqTake
  BY <1>8 DEF EnqTake, NumbersOK
<1>9. CASE EnqFull
  BY <1>9 DEF EnqFull, EnqGiveUp, NumbersOK
<1>10. CASE EnqCheck
  BY <1>10 DEF EnqCheck, TooLong, NumbersOK
<1>11. CASE EnqAlloc("alloc_element", "alloc_data")
  BY <1>11 DEF EnqAlloc, NumbersOK
<1>12. CASE EnqNoElement
  BY <1>12 DEF EnqNoElement, EnqGiveUp, NumbersOK
<1>13. CASE EnqAlloc("alloc_data", "link")
  BY <1>13 DEF EnqAlloc, NumbersOK
<1>14. CASE EnqNoData
  <2>1. heap - 1 \in Nat
    BY <1>14, LenProperties DEF EnqNoData, EnqGiveUp, NumbersOK, Packets, PacketSeq, HeapBalanced, OneInQueue
  <2> QED BY <1>14, <2>1 DEF EnqNoData, EnqGiveUp, NumbersOK
<1>15. CASE EnqLink
  BY <1>15 DEF EnqLink, NumbersOK
<1>16. CASE EnqCount
  <2>a. Len(packet) \in Nat /\ current_total_length \in Int
    BY LenProperties, SMT DEF NumbersOK, BuffersOK, UInt16
  <2>b. Wrap16(current_total_length + Len(packet)) \in UInt16
    BY <2>a, Wrap16Type
  <2>1. current_total_length' \in UInt16
    BY <1>16, <2>b DEF EnqCount
  <2> QED BY <1>16, <2>1 DEF EnqCount, NumbersOK
<1>17. CASE MainStart
  BY <1>17 DEF MainStart, NumbersOK
<1>18. CASE MainLoop
  BY <1>18 DEF MainLoop, NumbersOK
<1>19. CASE NotifyLinkDown
  BY <1>19 DEF NotifyLinkDown, NumbersOK
<1>20. CASE DeqTake
  BY <1>20 DEF DeqTake, NumbersOK
<1>21. CASE DeqEmpty
  BY <1>21 DEF DeqEmpty, NumbersOK
<1>22. CASE DeqUnlink
  BY <1>22 DEF DeqUnlink, NumbersOK
<1>23. CASE DeqCount
  <2>a. Len(data) \in Nat /\ current_total_length \in Int
    BY LenProperties, SMT DEF NumbersOK, BuffersOK, UInt16
  <2>b. Wrap16(current_total_length - Len(data)) \in UInt16
    BY <2>a, Wrap16Type
  <2>1. current_total_length' \in UInt16
    BY <1>23, <2>b DEF DeqCount
  <2>2. heap' \in Nat
    BY <1>23, LenProperties DEF DeqCount, NumbersOK, Packets, PacketSeq, HeapBalanced, OneInQueue
  <2> QED BY <1>23, <2>1, <2>2 DEF DeqCount, NumbersOK
<1>24. CASE BuildFrame
  <2>1. heap' \in Nat
    BY <1>24, LenProperties DEF BuildFrame, NumbersOK, Packets, PacketSeq, HeapBalanced, OneInQueue
  <2> QED BY <1>24, <2>1 DEF BuildFrame, NumbersOK
<1>25. CASE FillFifo
  BY <1>25 DEF FillFifo, NumbersOK
<1>26. CASE Transmit
  BY <1>26 DEF Transmit, NumbersOK
<1> QED
  BY <1>1, <1>2, <1>3, <1>4, <1>5, <1>6, <1>7, <1>8, <1>9, <1>10, <1>11, <1>12,
     <1>13, <1>14, <1>15, <1>16, <1>17, <1>18, <1>19, <1>20, <1>21, <1>22, <1>23,
     <1>24, <1>25, <1>26
  DEF Next, EventTask, Tcpip, Main

\* Every step leaves bytes in the buffers.
LEMMA StepBuffers == ASSUME IInv, Next PROVE BuffersOK'
<1> USE DEF IInv, evVars, qVars, rxVars, mainVars, uartVars
<1>1. CASE SendInfo
  <2>1. infoLeft \in Seq(Byte) /\ txfifo \in Seq(Byte) /\ Len(txfifo) <= UART_FIFO_LEN
    BY DEF BuffersOK, Packets
  <2>2. txfifo' \in Seq(Byte) /\ infoLeft' \in Seq(Byte) /\ Len(txfifo') <= UART_FIFO_LEN
    BY <1>1, <2>1, FillMoves DEF SendInfo
  <2> QED BY <1>1, <2>2 DEF SendInfo, BuffersOK
<1>2. CASE InfoSent
  BY <1>2 DEF InfoSent, BuffersOK
<1>3. CASE EchoReceived
  BY <1>3 DEF EchoReceived, BuffersOK
<1>4. CASE Hook
  BY <1>4 DEF Hook, BuffersOK
<1>5. CASE Run
  BY <1>5 DEF Run, BuffersOK
<1>6. CASE Disconnected
  BY <1>6 DEF Disconnected, BuffersOK
<1>7. CASE Ip4Input
  <2>1. Incoming[arrived + 1] \in Seq(Byte)
    BY <1>7, EspTxAssumption, ElementOfSeq, LenProperties DEF Ip4Input, NumbersOK
  <2> QED BY <1>7, <2>1 DEF Ip4Input, BuffersOK
<1>8. CASE EnqTake
  BY <1>8 DEF EnqTake, BuffersOK
<1>9. CASE EnqFull
  BY <1>9 DEF EnqFull, EnqGiveUp, BuffersOK
<1>10. CASE EnqCheck
  BY <1>10 DEF EnqCheck, TooLong, BuffersOK
<1>11. CASE EnqAlloc("alloc_element", "alloc_data")
  BY <1>11 DEF EnqAlloc, BuffersOK
<1>12. CASE EnqNoElement
  BY <1>12 DEF EnqNoElement, EnqGiveUp, BuffersOK
<1>13. CASE EnqAlloc("alloc_data", "link")
  BY <1>13 DEF EnqAlloc, BuffersOK
<1>14. CASE EnqNoData
  BY <1>14 DEF EnqNoData, EnqGiveUp, BuffersOK
<1>15. CASE EnqLink
  BY <1>15 DEF EnqLink, BuffersOK
<1>16. CASE EnqCount
  BY <1>16 DEF EnqCount, BuffersOK
<1>17. CASE MainStart
  BY <1>17 DEF MainStart, BuffersOK
<1>18. CASE MainLoop
  BY <1>18 DEF MainLoop, BuffersOK
<1>19. CASE NotifyLinkDown
  BY <1>19 DEF NotifyLinkDown, BuffersOK
<1>20. CASE DeqTake
  BY <1>20 DEF DeqTake, BuffersOK
<1>21. CASE DeqEmpty
  BY <1>21 DEF DeqEmpty, BuffersOK
<1>22. CASE DeqUnlink
  <2>1. Head(queue) \in Sendable
    BY <1>22, HeadTailProperties DEF DeqUnlink, Packets, PacketSeq
  <2>2. data' \in Seq(Byte)
    BY <1>22, <2>1, DataFrame DEF DeqUnlink
  <2> QED BY <1>22, <2>2 DEF DeqUnlink, BuffersOK
<1>23. CASE DeqCount
  BY <1>23 DEF DeqCount, BuffersOK
<1>24. CASE BuildFrame
  <2>1. sendbuf' \in Seq(Byte) /\ data' \in Seq(Byte)
    BY <1>24, DataFrame, EmptySeq DEF BuildFrame, Packets
  <2> QED BY <1>24, <2>1 DEF BuildFrame, BuffersOK
<1>25. CASE FillFifo
  <2>1. sendbuf \in Seq(Byte) /\ txfifo \in Seq(Byte) /\ Len(txfifo) <= UART_FIFO_LEN
    BY DEF BuffersOK, Packets
  <2>2. txfifo' \in Seq(Byte) /\ sendbuf' \in Seq(Byte) /\ Len(txfifo') <= UART_FIFO_LEN
    BY <1>25, <2>1, FillMoves DEF FillFifo
  <2> QED BY <1>25, <2>2 DEF FillFifo, BuffersOK
<1>26. CASE Transmit
  <2>1. wire \in Seq(Byte) /\ txfifo \in Seq(Byte)
    BY DEF BuffersOK
  <2>2. wire' \in Seq(Byte) /\ txfifo' \in Seq(Byte) /\ Len(txfifo') = Len(txfifo) - 1
    BY <1>26, <2>1, ByteSent
  <2>3. Len(txfifo) \in Nat /\ UART_FIFO_LEN \in Nat
    BY <2>1, LenProperties, EspTxAssumption
  <2> QED BY <1>26, <2>2, <2>3 DEF Transmit, BuffersOK
<1> QED
  BY <1>1, <1>2, <1>3, <1>4, <1>5, <1>6, <1>7, <1>8, <1>9, <1>10, <1>11, <1>12,
     <1>13, <1>14, <1>15, <1>16, <1>17, <1>18, <1>19, <1>20, <1>21, <1>22, <1>23,
     <1>24, <1>25, <1>26
  DEF Next, EventTask, Tcpip, Main

\* Every step hands on packets of the right size and respects the fifo.
LEMMA StepPackets == ASSUME IInv, Next PROVE Packets'
<1> USE DEF IInv, evVars, qVars, rxVars, mainVars, uartVars
<1>1. CASE SendInfo
  <2>1. infoLeft \in Seq(Byte) /\ txfifo \in Seq(Byte) /\ Len(txfifo) <= UART_FIFO_LEN
    BY DEF BuffersOK, Packets
  <2>2. txfifo' \in Seq(Byte) /\ infoLeft' \in Seq(Byte) /\ Len(txfifo') <= UART_FIFO_LEN
    BY <1>1, <2>1, FillMoves DEF SendInfo
  <2> QED BY <1>1, <2>2 DEF SendInfo, Packets
<1>2. CASE InfoSent
  BY <1>2 DEF InfoSent, Packets
<1>3. CASE EchoReceived
  BY <1>3 DEF EchoReceived, Packets
<1>4. CASE Hook
  BY <1>4 DEF Hook, Packets
<1>5. CASE Run
  BY <1>5 DEF Run, Packets
<1>6. CASE Disconnected
  BY <1>6 DEF Disconnected, Packets
<1>7. CASE Ip4Input
  <2>1. arrived + 1 \in 1 .. Len(Incoming)
    BY <1>7, EspTxAssumption, LenProperties DEF Ip4Input, NumbersOK
  <2>2. Incoming[arrived + 1] \in Sendable
    BY <2>1, EspTxAssumption, ElementOfSeq DEF Sendable
  <2> QED BY <1>7, <2>2 DEF Ip4Input, Packets
<1>8. CASE EnqTake
  BY <1>8 DEF EnqTake, Packets
<1>9. CASE EnqFull
  BY <1>9 DEF EnqFull, EnqGiveUp, Packets
<1>10. CASE EnqCheck
  BY <1>10 DEF EnqCheck, TooLong, Packets
<1>11. CASE EnqAlloc("alloc_element", "alloc_data")
  BY <1>11 DEF EnqAlloc, Packets
<1>12. CASE EnqNoElement
  BY <1>12 DEF EnqNoElement, EnqGiveUp, Packets
<1>13. CASE EnqAlloc("alloc_data", "link")
  BY <1>13 DEF EnqAlloc, Packets
<1>14. CASE EnqNoData
  BY <1>14 DEF EnqNoData, EnqGiveUp, Packets
<1>15. CASE EnqLink
  <2>1. packet \in Sendable
    BY <1>15 DEF EnqLink, Packets
  <2>2. queue' \in PacketSeq /\ accepted' \in PacketSeq
    BY <1>15, <2>1, AppendProperties DEF EnqLink, Packets, PacketSeq
  <2> QED BY <1>15, <2>1, <2>2 DEF EnqLink, Packets
<1>16. CASE EnqCount
  BY <1>16 DEF EnqCount, Packets
<1>17. CASE MainStart
  BY <1>17 DEF MainStart, Packets
<1>18. CASE MainLoop
  BY <1>18 DEF MainLoop, Packets
<1>19. CASE NotifyLinkDown
  BY <1>19 DEF NotifyLinkDown, Packets
<1>20. CASE DeqTake
  BY <1>20 DEF DeqTake, Packets
<1>21. CASE DeqEmpty
  BY <1>21 DEF DeqEmpty, Packets
<1>22. CASE DeqUnlink
  <2>1. data' \in Sendable /\ queue' \in PacketSeq
    BY <1>22, HeadTailProperties DEF DeqUnlink, Packets, PacketSeq
  <2> QED BY <1>22, <2>1 DEF DeqUnlink, Packets
<1>23. CASE DeqCount
  BY <1>23 DEF DeqCount, Packets
<1>24. CASE BuildFrame
  BY <1>24 DEF BuildFrame, Packets
<1>25. CASE FillFifo
  <2>1. sendbuf \in Seq(Byte) /\ txfifo \in Seq(Byte) /\ Len(txfifo) <= UART_FIFO_LEN
    BY DEF BuffersOK, Packets
  <2>2. txfifo' \in Seq(Byte) /\ sendbuf' \in Seq(Byte) /\ Len(txfifo') <= UART_FIFO_LEN
    BY <1>25, <2>1, FillMoves DEF FillFifo
  <2> QED BY <1>25, <2>2 DEF FillFifo, Packets
<1>26. CASE Transmit
  <2>1. wire \in Seq(Byte) /\ txfifo \in Seq(Byte)
    BY DEF BuffersOK
  <2>2. wire' \in Seq(Byte) /\ txfifo' \in Seq(Byte) /\ Len(txfifo') = Len(txfifo) - 1
    BY <1>26, <2>1, ByteSent
  <2>3. Len(txfifo) \in Nat /\ UART_FIFO_LEN \in Nat
    BY <2>1, LenProperties, EspTxAssumption
  <2> QED BY <1>26, <2>2, <2>3 DEF Transmit, Packets
<1> QED
  BY <1>1, <1>2, <1>3, <1>4, <1>5, <1>6, <1>7, <1>8, <1>9, <1>10, <1>11, <1>12,
     <1>13, <1>14, <1>15, <1>16, <1>17, <1>18, <1>19, <1>20, <1>21, <1>22, <1>23,
     <1>24, <1>25, <1>26
  DEF Next, EventTask, Tcpip, Main

\* Every step keeps the mutex with the task inside.
LEMMA StepMutex == ASSUME IInv, Next PROVE OneInQueue'
<1> USE DEF IInv, evVars, qVars, rxVars, mainVars, uartVars
<1>1. CASE SendInfo
  BY <1>1 DEF SendInfo, OneInQueue, PlacesOK
<1>2. CASE InfoSent
  BY <1>2 DEF InfoSent, OneInQueue, PlacesOK
<1>3. CASE EchoReceived
  BY <1>3 DEF EchoReceived, OneInQueue, PlacesOK
<1>4. CASE Hook
  BY <1>4 DEF Hook, OneInQueue, PlacesOK
<1>5. CASE Run
  BY <1>5 DEF Run, OneInQueue, PlacesOK
<1>6. CASE Disconnected
  BY <1>6 DEF Disconnected, OneInQueue, PlacesOK
<1>7. CASE Ip4Input
  BY <1>7 DEF Ip4Input, OneInQueue, PlacesOK
<1>8. CASE EnqTake
  BY <1>8 DEF EnqTake, OneInQueue, PlacesOK
<1>9. CASE EnqFull
  BY <1>9 DEF EnqFull, EnqGiveUp, OneInQueue, PlacesOK
<1>10. CASE EnqCheck
  BY <1>10 DEF EnqCheck, TooLong, OneInQueue, PlacesOK
<1>11. CASE EnqAlloc("alloc_element", "alloc_data")
  BY <1>11 DEF EnqAlloc, OneInQueue, PlacesOK
<1>12. CASE EnqNoElement
  BY <1>12 DEF EnqNoElement, EnqGiveUp, OneInQueue, PlacesOK
<1>13. CASE EnqAlloc("alloc_data", "link")
  BY <1>13 DEF EnqAlloc, OneInQueue, PlacesOK
<1>14. CASE EnqNoData
  BY <1>14 DEF EnqNoData, EnqGiveUp, OneInQueue, PlacesOK
<1>15. CASE EnqLink
  BY <1>15 DEF EnqLink, OneInQueue, PlacesOK
<1>16. CASE EnqCount
  BY <1>16 DEF EnqCount, OneInQueue, PlacesOK
<1>17. CASE MainStart
  BY <1>17 DEF MainStart, OneInQueue, PlacesOK
<1>18. CASE MainLoop
  BY <1>18 DEF MainLoop, OneInQueue, PlacesOK
<1>19. CASE NotifyLinkDown
  BY <1>19 DEF NotifyLinkDown, OneInQueue, PlacesOK
<1>20. CASE DeqTake
  BY <1>20 DEF DeqTake, OneInQueue, PlacesOK
<1>21. CASE DeqEmpty
  BY <1>21 DEF DeqEmpty, OneInQueue, PlacesOK
<1>22. CASE DeqUnlink
  BY <1>22 DEF DeqUnlink, OneInQueue, PlacesOK
<1>23. CASE DeqCount
  BY <1>23 DEF DeqCount, OneInQueue, PlacesOK
<1>24. CASE BuildFrame
  BY <1>24 DEF BuildFrame, OneInQueue, PlacesOK
<1>25. CASE FillFifo
  BY <1>25 DEF FillFifo, OneInQueue, PlacesOK
<1>26. CASE Transmit
  BY <1>26 DEF Transmit, OneInQueue, PlacesOK
<1> QED
  BY <1>1, <1>2, <1>3, <1>4, <1>5, <1>6, <1>7, <1>8, <1>9, <1>10, <1>11, <1>12,
     <1>13, <1>14, <1>15, <1>16, <1>17, <1>18, <1>19, <1>20, <1>21, <1>22, <1>23,
     <1>24, <1>25, <1>26
  DEF Next, EventTask, Tcpip, Main

\* Every step allocates and frees what HeapBalanced says.
LEMMA StepHeap == ASSUME IInv, Next PROVE HeapBalanced'
<1> USE DEF IInv, evVars, qVars, rxVars, mainVars, uartVars
<1>0. Len(queue) \in Nat
  BY LenProperties DEF Packets, PacketSeq
<1>1. CASE SendInfo
  BY <1>1, <1>0 DEF SendInfo, HeapBalanced, OneInQueue, NumbersOK
<1>2. CASE InfoSent
  BY <1>2, <1>0 DEF InfoSent, HeapBalanced, OneInQueue, NumbersOK
<1>3. CASE EchoReceived
  BY <1>3, <1>0 DEF EchoReceived, HeapBalanced, OneInQueue, NumbersOK
<1>4. CASE Hook
  BY <1>4, <1>0 DEF Hook, HeapBalanced, OneInQueue, NumbersOK
<1>5. CASE Run
  BY <1>5, <1>0 DEF Run, HeapBalanced, OneInQueue, NumbersOK
<1>6. CASE Disconnected
  BY <1>6, <1>0 DEF Disconnected, HeapBalanced, OneInQueue, NumbersOK
<1>7. CASE Ip4Input
  BY <1>7, <1>0 DEF Ip4Input, HeapBalanced, OneInQueue, NumbersOK
<1>8. CASE EnqTake
  BY <1>8, <1>0 DEF EnqTake, HeapBalanced, OneInQueue, NumbersOK
<1>9. CASE EnqFull
  BY <1>9, <1>0 DEF EnqFull, EnqGiveUp, HeapBalanced, OneInQueue, NumbersOK
<1>10. CASE EnqCheck
  BY <1>10, <1>0 DEF EnqCheck, TooLong, HeapBalanced, OneInQueue, NumbersOK
<1>11. CASE EnqAlloc("alloc_element", "alloc_data")
  BY <1>11, <1>0 DEF EnqAlloc, HeapBalanced, OneInQueue, NumbersOK
<1>12. CASE EnqNoElement
  BY <1>12, <1>0 DEF EnqNoElement, EnqGiveUp, HeapBalanced, OneInQueue, NumbersOK
<1>13. CASE EnqAlloc("alloc_data", "link")
  BY <1>13, <1>0 DEF EnqAlloc, HeapBalanced, OneInQueue, NumbersOK
<1>14. CASE EnqNoData
  BY <1>14, <1>0 DEF EnqNoData, EnqGiveUp, HeapBalanced, OneInQueue, NumbersOK
<1>15. CASE EnqLink
  <2>1. Len(queue') = Len(queue) + 1 /\ Len(queue) \in Nat
    BY <1>15, AppendProperties, LenProperties DEF EnqLink, Packets, PacketSeq
  <2> QED BY <1>15, <2>1 DEF EnqLink, HeapBalanced, OneInQueue, NumbersOK
<1>16. CASE EnqCount
  BY <1>16, <1>0 DEF EnqCount, HeapBalanced, OneInQueue, NumbersOK
<1>17. CASE MainStart
  BY <1>17, <1>0 DEF MainStart, HeapBalanced, OneInQueue, NumbersOK
<1>18. CASE MainLoop
  BY <1>18, <1>0 DEF MainLoop, HeapBalanced, OneInQueue, NumbersOK
<1>19. CASE NotifyLinkDown
  BY <1>19, <1>0 DEF NotifyLinkDown, HeapBalanced, OneInQueue, NumbersOK
<1>20. CASE DeqTake
  BY <1>20, <1>0 DEF DeqTake, HeapBalanced, OneInQueue, NumbersOK
<1>21. CASE DeqEmpty
  BY <1>21, <1>0 DEF DeqEmpty, HeapBalanced, OneInQueue, NumbersOK
<1>22. CASE DeqUnlink
  <2>1. Len(queue') = Len(queue) - 1 /\ Len(queue) \in Nat
    BY <1>22, HeadTailProperties, LenProperties DEF DeqUnlink, Packets, PacketSeq
  <2> QED BY <1>22, <2>1 DEF DeqUnlink, HeapBalanced, OneInQueue, NumbersOK
<1>23. CASE DeqCount
  BY <1>23, <1>0 DEF DeqCount, HeapBalanced, OneInQueue, NumbersOK
<1>24. CASE BuildFrame
  BY <1>24, <1>0 DEF BuildFrame, HeapBalanced, OneInQueue, NumbersOK
<1>25. CASE FillFifo
  BY <1>25, <1>0 DEF FillFifo, HeapBalanced, OneInQueue, NumbersOK
<1>26. CASE Transmit
  BY <1>26, <1>0 DEF Transmit, HeapBalanced, OneInQueue, NumbersOK
<1> QED
  BY <1>1, <1>2, <1>3, <1>4, <1>5, <1>6, <1>7, <1>8, <1>9, <1>10, <1>11, <1>12,
     <1>13, <1>14, <1>15, <1>16, <1>17, <1>18, <1>19, <1>20, <1>21, <1>22, <1>23,
     <1>24, <1>25, <1>26
  DEF Next, EventTask, Tcpip, Main

\* Every step keeps the byte count in step with the elements.
LEMMA StepCounted == ASSUME IInv, Next PROVE Counted'
<1> USE DEF IInv, evVars, qVars, rxVars, mainVars, uartVars
<1>0. /\ current_total_length \in Nat
      /\ MAX_QUEUE_LENGTH \in Nat /\ MAX_QUEUE_LENGTH < 65536
  BY EspTxAssumption, SMT DEF NumbersOK, UInt16
<1>1. CASE SendInfo
  BY <1>1 DEF SendInfo, Counted, OneInQueue
<1>2. CASE InfoSent
  BY <1>2 DEF InfoSent, Counted, OneInQueue
<1>3. CASE EchoReceived
  BY <1>3 DEF EchoReceived, Counted, OneInQueue
<1>4. CASE Hook
  BY <1>4 DEF Hook, Counted, OneInQueue
<1>5. CASE Run
  BY <1>5 DEF Run, Counted, OneInQueue
<1>6. CASE Disconnected
  BY <1>6 DEF Disconnected, Counted, OneInQueue
<1>7. CASE Ip4Input
  BY <1>7 DEF Ip4Input, Counted, OneInQueue
<1>8. CASE EnqTake
  BY <1>8 DEF EnqTake, Counted, OneInQueue
<1>9. CASE EnqFull
  BY <1>9 DEF EnqFull, EnqGiveUp, Counted, OneInQueue
<1>10. CASE EnqCheck
  <2>1. packet \in Sendable /\ tcpip = "check" /\ tcpip' = "alloc_element"
    BY <1>10 DEF EnqCheck, Packets
  <2>2. Len(packet) \in Nat
    BY <2>1, DataFrame
  <2>3. current_total_length + Len(packet) <= MAX_QUEUE_LENGTH
    BY <1>10, <1>0, <2>2 DEF EnqCheck, TooLong
  <2> QED BY <1>10, <2>1, <2>3 DEF EnqCheck, Counted
<1>11. CASE EnqAlloc("alloc_element", "alloc_data")
  BY <1>11 DEF EnqAlloc, Counted, OneInQueue
<1>12. CASE EnqNoElement
  BY <1>12 DEF EnqNoElement, EnqGiveUp, Counted, OneInQueue
<1>13. CASE EnqAlloc("alloc_data", "link")
  BY <1>13 DEF EnqAlloc, Counted, OneInQueue
<1>14. CASE EnqNoData
  BY <1>14 DEF EnqNoData, EnqGiveUp, Counted, OneInQueue
<1>15. CASE EnqLink
  <2>1. packet \in Sendable /\ queue \in PacketSeq /\ main # "count" /\ tcpip = "link"
    BY <1>15 DEF EnqLink, Packets, OneInQueue
  <2>2. TotalLength(queue') = TotalLength(queue) + Len(packet)
    BY <1>15, <2>1, TotalLengthAppend DEF EnqLink
  <2>3. Len(packet) \in Nat /\ TotalLength(queue) \in Nat
    BY <2>1, DataFrame, TotalLengthType
  <2> QED BY <1>15, <1>0, <2>1, <2>2, <2>3 DEF EnqLink, Counted
<1>16. CASE EnqCount
  <2>1. packet \in Sendable /\ queue \in PacketSeq /\ main # "count" /\ tcpip = "count"
    BY <1>16 DEF EnqCount, Packets, OneInQueue
  <2>2. Len(packet) \in Nat /\ current_total_length \in Nat
    BY <1>0, <2>1, DataFrame
  <2>3. current_total_length + Len(packet) \in Nat /\ current_total_length + Len(packet) < 65536
    BY <1>0, <2>1, <2>2, SMT DEF Counted
  <2>4. current_total_length' = current_total_length + Len(packet)
    BY <1>16, <2>3, Wrap16Exact DEF EnqCount
  <2>5. /\ queue' = queue /\ main' = main /\ data' = data /\ packet' = packet
        /\ tcpip' = "idle"
    BY <1>16, SMT DEF EnqCount
  <2> QED BY <1>0, <2>1, <2>2, <2>4, <2>5, SMT DEF Counted
<1>17. CASE MainStart
  BY <1>17 DEF MainStart, Counted, OneInQueue
<1>18. CASE MainLoop
  BY <1>18 DEF MainLoop, Counted, OneInQueue
<1>19. CASE NotifyLinkDown
  BY <1>19 DEF NotifyLinkDown, Counted, OneInQueue
<1>20. CASE DeqTake
  BY <1>20 DEF DeqTake, Counted, OneInQueue
<1>21. CASE DeqEmpty
  BY <1>21 DEF DeqEmpty, Counted, OneInQueue
<1>22. CASE DeqUnlink
  <2>1. queue \in PacketSeq /\ queue # <<>> /\ tcpip # "count" /\ main = "unlink"
    BY <1>22 DEF DeqUnlink, Packets, OneInQueue
  <2>2. TotalLength(queue) = Len(data') + TotalLength(queue')
    BY <1>22, <2>1, TotalLengthTail DEF DeqUnlink
  <2>3. data' \in Sendable /\ queue' \in PacketSeq
    BY <1>22, HeadTailProperties DEF DeqUnlink, Packets, PacketSeq
  <2>4. Len(data') \in Nat /\ TotalLength(queue') \in Nat
    BY <2>3, DataFrame, TotalLengthType
  <2> QED BY <1>22, <2>1, <2>2, <2>4 DEF DeqUnlink, Counted, OneInQueue
<1>23. CASE DeqCount
  <2>1. data \in Sendable /\ queue \in PacketSeq /\ main = "count" /\ mutex = "main"
    BY <1>23 DEF DeqCount, Packets, OneInQueue
  <2>2. tcpip \in {"idle", "take"}
    BY <2>1 DEF PlacesOK, OneInQueue
  <2>3. /\ Len(data) \in Nat /\ TotalLength(queue) \in Nat
        /\ current_total_length = TotalLength(queue) + Len(data)
    BY <1>0, <2>1, <2>2, DataFrame, TotalLengthType DEF Counted
  <2>4. Wrap16(current_total_length - Len(data)) = current_total_length - Len(data)
    <3>1. current_total_length - Len(data) \in Nat /\ current_total_length - Len(data) < 65536
      BY <1>0, <2>3 DEF Counted
    <3> QED BY <3>1, Wrap16Exact
  <2>5. /\ queue' = queue /\ packet' = packet /\ tcpip' = tcpip /\ main' = "copy"
        /\ current_total_length' = current_total_length - Len(data)
    BY <1>23, <2>4, SMT DEF DeqCount
  <2> QED BY <1>0, <2>2, <2>3, <2>5, SMT DEF Counted
<1>24. CASE BuildFrame
  BY <1>24 DEF BuildFrame, Counted, OneInQueue
<1>25. CASE FillFifo
  BY <1>25 DEF FillFifo, Counted, OneInQueue
<1>26. CASE Transmit
  BY <1>26 DEF Transmit, Counted, OneInQueue
<1> QED
  BY <1>1, <1>2, <1>3, <1>4, <1>5, <1>6, <1>7, <1>8, <1>9, <1>10, <1>11, <1>12,
     <1>13, <1>14, <1>15, <1>16, <1>17, <1>18, <1>19, <1>20, <1>21, <1>22, <1>23,
     <1>24, <1>25, <1>26
  DEF Next, EventTask, Tcpip, Main

\* Every step keeps the order of the senders.
LEMMA StepStaged == ASSUME IInv, Next PROVE Staged'
<1> USE DEF IInv, evVars, qVars, rxVars, mainVars, uartVars
<1>1. CASE SendInfo
  BY <1>1 DEF SendInfo, Staged
<1>2. CASE InfoSent
  BY <1>2 DEF InfoSent, Staged, PlacesOK
<1>3. CASE EchoReceived
  BY <1>3 DEF EchoReceived, Staged, PlacesOK
<1>4. CASE Hook
  BY <1>4 DEF Hook, Staged, PlacesOK
<1>5. CASE Run
  BY <1>5 DEF Run, Staged, PlacesOK
<1>6. CASE Disconnected
  BY <1>6 DEF Disconnected, Staged, PlacesOK
<1>7. CASE Ip4Input
  BY <1>7 DEF Ip4Input, Staged, PlacesOK
<1>8. CASE EnqTake
  BY <1>8 DEF EnqTake, Staged, PlacesOK
<1>9. CASE EnqFull
  BY <1>9 DEF EnqFull, EnqGiveUp, Staged, PlacesOK
<1>10. CASE EnqCheck
  BY <1>10 DEF EnqCheck, TooLong, Staged, PlacesOK
<1>11. CASE EnqAlloc("alloc_element", "alloc_data")
  BY <1>11 DEF EnqAlloc, Staged, PlacesOK
<1>12. CASE EnqNoElement
  BY <1>12 DEF EnqNoElement, EnqGiveUp, Staged, PlacesOK
<1>13. CASE EnqAlloc("alloc_data", "link")
  BY <1>13 DEF EnqAlloc, Staged, PlacesOK
<1>14. CASE EnqNoData
  BY <1>14 DEF EnqNoData, EnqGiveUp, Staged, PlacesOK
<1>15. CASE EnqLink
  BY <1>15 DEF EnqLink, Staged, PlacesOK
<1>16. CASE EnqCount
  BY <1>16 DEF EnqCount, Staged, PlacesOK
<1>17. CASE MainStart
  BY <1>17 DEF MainStart, Staged, PlacesOK
<1>18. CASE MainLoop
  BY <1>18 DEF MainLoop, Staged, PlacesOK
<1>19. CASE NotifyLinkDown
  BY <1>19 DEF NotifyLinkDown, Staged, PlacesOK
<1>20. CASE DeqTake
  BY <1>20 DEF DeqTake, Staged, PlacesOK
<1>21. CASE DeqEmpty
  BY <1>21 DEF DeqEmpty, Staged, PlacesOK
<1>22. CASE DeqUnlink
  BY <1>22 DEF DeqUnlink, Staged, PlacesOK
<1>23. CASE DeqCount
  BY <1>23 DEF DeqCount, Staged, PlacesOK
<1>24. CASE BuildFrame
  BY <1>24 DEF BuildFrame, Staged, PlacesOK
<1>25. CASE FillFifo
  BY <1>25 DEF FillFifo, Staged, PlacesOK
<1>26. CASE Transmit
  BY <1>26 DEF Transmit, Staged, PlacesOK
<1> QED
  BY <1>1, <1>2, <1>3, <1>4, <1>5, <1>6, <1>7, <1>8, <1>9, <1>10, <1>11, <1>12,
     <1>13, <1>14, <1>15, <1>16, <1>17, <1>18, <1>19, <1>20, <1>21, <1>22, <1>23,
     <1>24, <1>25, <1>26
  DEF Next, EventTask, Tcpip, Main

\* No step loses, repeats, reorders or mixes a byte.
LEMMA StepFlow == ASSUME IInv, Next PROVE Flow'
<1> USE DEF IInv, evVars, qVars, rxVars, mainVars, uartVars
<1>0. /\ wire \in Seq(Byte) /\ txfifo \in Seq(Byte) /\ infoLeft \in Seq(Byte)
      /\ sendbuf \in Seq(Byte) /\ Held \in Seq(Byte) /\ DataBytes(queue) \in Seq(Byte)
      /\ DataBytes(accepted) \in Seq(Byte) /\ Frame(NetifInfo, SPLIT_CMD) \in Seq(Byte)
      /\ Cat(wire, txfifo) \in Seq(Byte)
      /\ Cat(Cat(wire, txfifo), infoLeft) \in Seq(Byte)
      /\ Cat(Cat(Cat(wire, txfifo), infoLeft), sendbuf) \in Seq(Byte)
      /\ Cat(Cat(Cat(Cat(wire, txfifo), infoLeft), sendbuf), Held) \in Seq(Byte)
  BY FlowTypes
<1>1. CASE SendInfo
  <2>1. Len(txfifo) <= UART_FIFO_LEN /\ FillTxfifo(infoLeft)
    BY <1>1 DEF SendInfo, Packets
  <2>2. /\ txfifo' \in Seq(Byte) /\ infoLeft' \in Seq(Byte)
        /\ Cat(txfifo', infoLeft') = Cat(txfifo, infoLeft)
    BY <1>1, <1>0, <2>1, FillMoves DEF SendInfo
  <2>3. Cat(Cat(wire, txfifo'), infoLeft') = Cat(Cat(wire, txfifo), infoLeft)
    <3>1. wire \in Seq(Byte) /\ txfifo \in Seq(Byte) /\ infoLeft \in Seq(Byte)
      BY <1>0
    <3> QED BY <2>2, <3>1, Redivide
  <2>4. /\ wire' = wire /\ sendbuf' = sendbuf /\ Held' = Held
        /\ DataBytes(queue)' = DataBytes(queue) /\ DataBytes(accepted)' = DataBytes(accepted)
    BY <1>1 DEF SendInfo, Held
  <2> QED BY <2>3, <2>4 DEF Flow
<1>2. CASE InfoSent
  BY <1>2 DEF InfoSent, Flow, Held
<1>3. CASE EchoReceived
  BY <1>3 DEF EchoReceived, Flow, Held
<1>4. CASE Hook
  BY <1>4 DEF Hook, Flow, Held
<1>5. CASE Run
  BY <1>5 DEF Run, Flow, Held
<1>6. CASE Disconnected
  BY <1>6 DEF Disconnected, Flow, Held
<1>7. CASE Ip4Input
  BY <1>7 DEF Ip4Input, Flow, Held
<1>8. CASE EnqTake
  BY <1>8 DEF EnqTake, Flow, Held
<1>9. CASE EnqFull
  BY <1>9 DEF EnqFull, EnqGiveUp, Flow, Held
<1>10. CASE EnqCheck
  BY <1>10 DEF EnqCheck, TooLong, Flow, Held
<1>11. CASE EnqAlloc("alloc_element", "alloc_data")
  BY <1>11 DEF EnqAlloc, Flow, Held
<1>12. CASE EnqNoElement
  BY <1>12 DEF EnqNoElement, EnqGiveUp, Flow, Held
<1>13. CASE EnqAlloc("alloc_data", "link")
  BY <1>13 DEF EnqAlloc, Flow, Held
<1>14. CASE EnqNoData
  BY <1>14 DEF EnqNoData, EnqGiveUp, Flow, Held
<1>15. CASE EnqLink
  <2> DEFINE N == Frame(NetifInfo, SPLIT_CMD)
             F == Frame(packet, SPLIT_DATA)
             Z == Cat(Cat(Cat(Cat(wire, txfifo), infoLeft), sendbuf), Held)
             A == DataBytes(accepted)
             Q == DataBytes(queue)
  <2>1. packet \in Sendable /\ queue \in PacketSeq /\ accepted \in PacketSeq
    BY <1>15 DEF EnqLink, Packets
  <2>2. DataBytes(accepted)' = Cat(A, F) /\ DataBytes(queue)' = Cat(Q, F)
    BY <1>15, <2>1, DataBytesAppend DEF EnqLink
  <2>3. Z' = Z
    BY <1>15 DEF EnqLink, Held
  <2>4. F \in Seq(Byte) /\ Cat(N, A) = Cat(Z, Q)
    BY <2>1, DataFrame DEF Flow
  <2>5. /\ N \in Seq(Byte) /\ A \in Seq(Byte) /\ Z \in Seq(Byte) /\ Q \in Seq(Byte)
    BY <1>0
  <2> HIDE DEF N, F, Z, A, Q
  <2>6. Cat(N, Cat(A, F)) = Cat(Cat(N, A), F) /\ Cat(Z, Cat(Q, F)) = Cat(Cat(Z, Q), F)
    BY <2>4, <2>5, CatAssociative
  <2>7. Cat(N, DataBytes(accepted)') = Cat(Z', DataBytes(queue)')
    BY <2>2, <2>3, <2>4, <2>6
  <2> QED BY <2>7 DEF Flow, N, Z
<1>16. CASE EnqCount
  BY <1>16 DEF EnqCount, Flow, Held
<1>17. CASE MainStart
  BY <1>17 DEF MainStart, Flow, Held
<1>18. CASE MainLoop
  BY <1>18 DEF MainLoop, Flow, Held
<1>19. CASE NotifyLinkDown
  BY <1>19 DEF NotifyLinkDown, Flow, Held
<1>20. CASE DeqTake
  BY <1>20 DEF DeqTake, Flow, Held
<1>21. CASE DeqEmpty
  BY <1>21 DEF DeqEmpty, Flow, Held
<1>22. CASE DeqUnlink
  <2> DEFINE F == Frame(Head(queue), SPLIT_DATA)
             Y == Cat(Cat(Cat(wire, txfifo), infoLeft), sendbuf)
             D == DataBytes(Tail(queue))
  <2>1. queue \in PacketSeq /\ queue # <<>> /\ Held = <<>>
    BY <1>22 DEF DeqUnlink, Packets, Held
  <2>2. DataBytes(queue) = Cat(F, D)
    BY <2>1, DataBytesTail
  <2>3. Head(queue) \in Sendable /\ Tail(queue) \in PacketSeq
    BY <2>1, HeadTailProperties DEF PacketSeq
  <2>4. F \in Seq(Byte) /\ D \in Seq(Byte) /\ Y \in Seq(Byte)
    BY <1>0, <2>3, DataFrame, DataBytesType
  <2>5. Y' = Y /\ Held' = F /\ DataBytes(queue)' = D /\ DataBytes(accepted)' = DataBytes(accepted)
    BY <1>22 DEF DeqUnlink, Held
  <2>6. Cat(Frame(NetifInfo, SPLIT_CMD), DataBytes(accepted)) = Cat(Cat(Y, <<>>), Cat(F, D))
    BY <2>1, <2>2 DEF Flow
  <2> HIDE DEF F, Y, D
  <2>7. Cat(Cat(Y, <<>>), Cat(F, D)) = Cat(Cat(Y, F), D)
    BY <2>4, CatEmpty, CatAssociative
  <2>8. Cat(Frame(NetifInfo, SPLIT_CMD), DataBytes(accepted)') = Cat(Cat(Y', Held'), DataBytes(queue)')
    BY <2>5, <2>6, <2>7
  <2> QED BY <2>8 DEF Flow, Y
<1>23. CASE DeqCount
  BY <1>23 DEF DeqCount, Flow, Held
<1>24. CASE BuildFrame
  <2> DEFINE X == Cat(Cat(wire, txfifo), infoLeft)
             F == Frame(data, SPLIT_DATA)
  <2>1. sendbuf = <<>> /\ Held = F /\ sendbuf' = F /\ Held' = <<>>
    BY <1>24 DEF BuildFrame, Staged, Held
  <2>2. X \in Seq(Byte) /\ F \in Seq(Byte)
    BY <1>0, <2>1
  <2>3. X' = X /\ DataBytes(queue)' = DataBytes(queue) /\ DataBytes(accepted)' = DataBytes(accepted)
    BY <1>24 DEF BuildFrame
  <2> HIDE DEF X, F
  <2>4. Cat(X, F) \in Seq(Byte)
    BY <2>2, CatType
  <2>5. Cat(Cat(X, <<>>), F) = Cat(Cat(X, F), <<>>)
    BY <2>2, <2>4, CatEmpty
  <2>6. Cat(Cat(X', sendbuf'), Held') = Cat(Cat(X, sendbuf), Held)
    BY <2>1, <2>3, <2>5
  <2> QED BY <2>3, <2>6 DEF Flow, X
<1>25. CASE FillFifo
  <2>1. Len(txfifo) <= UART_FIFO_LEN /\ FillTxfifo(sendbuf) /\ infoLeft = <<>>
    BY <1>25 DEF FillFifo, Packets, Staged
  <2>2. /\ txfifo' \in Seq(Byte) /\ sendbuf' \in Seq(Byte)
        /\ Cat(txfifo', sendbuf') = Cat(txfifo, sendbuf)
    BY <1>25, <1>0, <2>1, FillMoves DEF FillFifo
  <2>3. Cat(Cat(wire, txfifo'), sendbuf') = Cat(Cat(wire, txfifo), sendbuf)
    <3>1. wire \in Seq(Byte) /\ txfifo \in Seq(Byte) /\ sendbuf \in Seq(Byte)
      BY <1>0
    <3> QED BY <2>2, <3>1, Redivide
  <2>4. /\ wire' = wire /\ infoLeft' = <<>> /\ Held' = Held
        /\ DataBytes(queue)' = DataBytes(queue) /\ DataBytes(accepted)' = DataBytes(accepted)
    BY <1>25, <2>1 DEF FillFifo, Held
  <2>5. Cat(wire, txfifo') \in Seq(Byte)
    BY <1>0, <2>2, CatType
  <2>6. /\ Cat(Cat(wire, txfifo'), <<>>) = Cat(wire, txfifo')
        /\ Cat(Cat(wire, txfifo), <<>>) = Cat(wire, txfifo)
    BY <1>0, <2>5, CatEmpty
  <2>7. Cat(Cat(Cat(wire', txfifo'), infoLeft'), sendbuf')
          = Cat(Cat(Cat(wire, txfifo), infoLeft), sendbuf)
    BY <2>1, <2>3, <2>4, <2>6
  <2> QED BY <2>4, <2>7 DEF Flow
<1>26. CASE Transmit
  <2>1. Cat(wire', txfifo') = Cat(wire, txfifo)
    BY <1>26, <1>0, ByteSent
  <2>2. /\ infoLeft' = infoLeft /\ sendbuf' = sendbuf /\ Held' = Held
        /\ DataBytes(queue)' = DataBytes(queue) /\ DataBytes(accepted)' = DataBytes(accepted)
    BY <1>26 DEF Transmit, Held
  <2> QED BY <2>1, <2>2 DEF Flow
<1> QED
  BY <1>1, <1>2, <1>3, <1>4, <1>5, <1>6, <1>7, <1>8, <1>9, <1>10, <1>11, <1>12,
     <1>13, <1>14, <1>15, <1>16, <1>17, <1>18, <1>19, <1>20, <1>21, <1>22, <1>23,
     <1>24, <1>25, <1>26
  DEF Next, EventTask, Tcpip, Main

-----------------------------------------------------------------------------
(* The theorems.                                                           *)

\* The invariant holds at the start.
LEMMA Initially == Init => IInv
<1> SUFFICES ASSUME Init PROVE IInv
  OBVIOUS
<1> USE DEF Init
<1>1. PlacesOK /\ OneInQueue /\ Staged
  BY DEF PlacesOK, OneInQueue, Staged
<1>2. FlagsOK
  BY DEF FlagsOK
<1>3. NumbersOK
  BY EspTxAssumption, LenProperties, SMT DEF NumbersOK, UInt16
<1>4. Frame(NetifInfo, SPLIT_CMD) \in Seq(Byte) /\ <<>> \in Seq(Byte) /\ <<>> \in PacketSeq
  <2>1. NetifInfo \in Seq(Byte) /\ Len(NetifInfo) <= MTU_LEN /\ SPLIT_CMD \in Byte
    BY EspTxAssumption, FrameAssumption, SMT
  <2> QED BY <2>1, FrameSize, EmptySeq DEF PacketSeq
<1>5. BuffersOK
  BY <1>4 DEF BuffersOK
<1>6. UART_FIFO_LEN \in Nat /\ MAX_QUEUE_LENGTH \in Nat
  BY EspTxAssumption, SMT
<1>7. Packets
  BY <1>4, <1>6 DEF Packets
<1>8. HeapBalanced
  BY DEF HeapBalanced
<1>9. Counted
  BY <1>6, TotalLengthEmpty DEF Counted
<1>10. Flow
  <2> DEFINE N == Frame(NetifInfo, SPLIT_CMD)
  <2>1. infoLeft = N /\ wire = <<>> /\ txfifo = <<>> /\ sendbuf = <<>> /\ Held = <<>>
        /\ DataBytes(queue) = <<>> /\ DataBytes(accepted) = <<>>
    BY DataBytesEmpty DEF Held
  <2>2. N \in Seq(Byte) /\ <<>> \in Seq(Byte)
    BY <1>4
  <2> HIDE DEF N
  <2>3. Cat(N, <<>>) = N /\ Cat(<<>>, <<>>) = <<>> /\ Cat(<<>>, N) = N
    BY <2>2, CatEmpty
  <2> QED BY <2>1, <2>3 DEF Flow, N
<1> QED BY <1>1, <1>2, <1>3, <1>5, <1>7, <1>8, <1>9, <1>10 DEF IInv

\* Every step keeps the invariant.
LEMMA StepKeeps == IInv /\ [Next]_vars => IInv'
<1>1. ASSUME IInv, UNCHANGED vars PROVE IInv'
  <2>1. /\ UNCHANGED evVars /\ UNCHANGED qVars /\ UNCHANGED rxVars
        /\ UNCHANGED mainVars /\ UNCHANGED uartVars /\ UNCHANGED accepted
    BY <1>1 DEF vars
  <2> USE <1>1, <2>1 DEF IInv, evVars, qVars, rxVars, mainVars, uartVars
  <2>2. PlacesOK' /\ OneInQueue'
    BY DEF PlacesOK, OneInQueue
  <2>3. FlagsOK'
    BY DEF FlagsOK
  <2>4. NumbersOK'
    BY DEF NumbersOK
  <2>5. BuffersOK' /\ Packets'
    BY DEF BuffersOK, Packets
  <2>6. HeapBalanced'
    BY DEF HeapBalanced
  <2>7. Counted'
    BY DEF Counted
  <2>8. Staged' /\ Flow'
    BY DEF Staged, Flow, Held
  <2> QED BY <2>2, <2>3, <2>4, <2>5, <2>6, <2>7, <2>8
<1>2. ASSUME IInv, Next PROVE IInv'
  BY <1>2, StepPlaces, StepFlags, StepNumbers, StepBuffers, StepPackets, StepMutex,
     StepHeap, StepCounted, StepStaged, StepFlow
  DEF IInv
<1> QED BY <1>1, <1>2

\* The inductive invariant holds in every reachable state.
THEOREM Invariant == Spec => []IInv
  BY Initially, StepKeeps, PTL DEF Spec

\* The queue's fields keep their types; in particular the free of queue_dequeue
\* and of wifi2uart is never of a block that was not allocated.
THEOREM TypeCorrect == Spec => []TypeOK
  BY Invariant, TypeParts, PTL

\* The tcpip and the main task are never both between take and give of the
\* queue's mutex, on any of the paths out of queue_enqueue and queue_dequeue.
THEOREM MutualExclusion ==
  Spec => [](~ (/\ tcpip \in {"check", "alloc_element", "alloc_data", "link", "count"}
                /\ main \in {"unlink", "count"}))
<1>1. IInv => ~ (/\ tcpip \in {"check", "alloc_element", "alloc_data", "link", "count"}
                 /\ main \in {"unlink", "count"})
  BY DEF IInv, OneInQueue
<1> QED BY <1>1, Invariant, PTL

\* No block of the queue is leaked or freed twice, whichever allocation fails.
THEOREM NoLeak == Spec => []HeapBalanced
<1>1. IInv => HeapBalanced
  BY DEF IInv
<1> QED BY <1>1, Invariant, PTL

\* The byte count of the queue is exact whenever the mutex is free, and within
\* the limit: the uint16_t never wraps.
THEOREM CountExact == Spec => []Accounted
<1>1. ASSUME IInv PROVE Accounted
  <2> SUFFICES ASSUME mutex = "free"
               PROVE  /\ current_total_length = TotalLength(queue)
                      /\ current_total_length <= MAX_QUEUE_LENGTH
    BY DEF Accounted
  <2>1. tcpip # "count" /\ main # "count"
    BY <1>1 DEF IInv, OneInQueue
  <2>2. current_total_length \in Nat
    BY <1>1, SMT DEF IInv, NumbersOK, UInt16
  <2>3. TotalLength(queue) \in Nat
    BY <1>1, TotalLengthType DEF IInv, Packets
  <2> QED BY <1>1, <2>1, <2>2, <2>3, SMT DEF IInv, Counted
<1> QED BY <1>1, Invariant, PTL

\* netif_info and then the frames of the accepted packets are, byte by byte and
\* in this order, on the wire or on their way to it.
THEOREM BytesConserved == Spec => []Conservation
<1>1. IInv => Conservation
  BY FlowConserves DEF IInv
<1> QED BY <1>1, Invariant, PTL
-----------------------------------------------------------------------------
(* What a receiver reads off a prefix of DataBytes.                        *)

\* The bytes of the first packets begin DataBytes, and grow by a frame.
LEMMA PrefixGrows ==
  ASSUME NEW ps \in PacketSeq, NEW f, PrefixBytes(ps, f), NEW n \in 1 .. Len(ps)
  PROVE  /\ f[n - 1] \in Seq(Byte) /\ f[n] \in Seq(Byte) /\ ps[n] \in Sendable
         /\ f[n] = Cat(f[n - 1], Frame(ps[n], SPLIT_DATA))
         /\ Len(f[n]) = Len(f[n - 1]) + Len(ps[n]) + 3
<1>1. n - 1 \in 0 .. Len(ps) /\ n \in 0 .. Len(ps) /\ ps[n] \in Sendable
  BY LenProperties, ElementOfSeq DEF PacketSeq
<1>2. f[n - 1] \in Seq(Byte) /\ f[n] \in Seq(Byte)
  BY <1>1 DEF PrefixBytes
<1>3. f[n] = Cat(f[n - 1], Frame(ps[n], SPLIT_DATA))
  BY DEF PrefixBytes, Cat
<1>4. Frame(ps[n], SPLIT_DATA) \in Seq(Byte) /\ Len(ps[n]) \in Nat
      /\ Len(Frame(ps[n], SPLIT_DATA)) = Len(ps[n]) + 3
  BY <1>1, DataFrame
<1>5. Len(f[n]) = Len(f[n - 1]) + Len(Frame(ps[n], SPLIT_DATA))
  BY <1>2, <1>3, <1>4, CatType
<1>6. Len(f[n - 1]) \in Nat
  BY <1>2, LenProperties
<1> DEFINE a == Len(f[n - 1])
           b == Len(Frame(ps[n], SPLIT_DATA))
           c == Len(ps[n])
<1>7. Len(f[n]) = Len(f[n - 1]) + Len(ps[n]) + 3
  <2>1. a \in Nat /\ c \in Nat /\ b = c + 3 /\ Len(f[n]) = a + b
    BY <1>4, <1>5, <1>6, Zenon
  <2> HIDE DEF a, b, c
  <2>2. Len(f[n]) = a + c + 3
    BY <2>1
  <2> QED BY <2>2 DEF a, c
<1> QED BY <1>1, <1>2, <1>3, <1>7, Zenon

\* The frames of fewer packets are a prefix of those of more.
LEMMA PrefixStarts ==
  ASSUME NEW ps \in PacketSeq, NEW f, PrefixBytes(ps, f), NEW j \in 0 .. Len(ps)
  PROVE  \A n \in j .. Len(ps) : Starts(f[j], f[n])
<1> DEFINE S == { m \in Nat : j + m <= Len(ps) => Starts(f[j], f[j + m]) }
<1>0. Len(ps) \in Nat /\ j \in Nat /\ j <= Len(ps)
      /\ \A n \in 0 .. Len(ps) : f[n] \in Seq(Byte)
  BY LenProperties DEF PrefixBytes
<1>1. 0 \in S
  <2>1. j + 0 = j /\ Len(f[j]) \in Nat
    BY <1>0, LenProperties
  <2> QED BY <1>0, <2>1 DEF Starts
<1>2. ASSUME NEW m \in Nat, m \in S PROVE m + 1 \in S
  <2> SUFFICES ASSUME j + (m + 1) <= Len(ps) PROVE Starts(f[j], f[j + (m + 1)])
    OBVIOUS
  <2> DEFINE n == j + (m + 1)
  <2>1. /\ n \in 1 .. Len(ps) /\ n - 1 = j + m /\ j + m <= Len(ps)
        /\ j + m \in 0 .. Len(ps) /\ n \in 0 .. Len(ps)
    BY <1>0
  <2> HIDE DEF n
  <2>2. Starts(f[j], f[n - 1])
    BY <1>2, <2>1
  <2>3. f[n] = Cat(f[n - 1], Frame(ps[n], SPLIT_DATA)) /\ ps[n] \in Sendable
        /\ f[n - 1] \in Seq(Byte) /\ f[n] \in Seq(Byte)
    BY <2>1, PrefixGrows
  <2>4. Frame(ps[n], SPLIT_DATA) \in Seq(Byte)
    BY <2>3, DataFrame
  <2>5. Starts(f[n - 1], Cat(f[n - 1], Frame(ps[n], SPLIT_DATA)))
    BY <2>3, <2>4, StartsCat
  <2>6. Starts(f[n - 1], f[n])
    BY <2>3, <2>5, Zenon
  <2>7. f[j] \in Seq(Byte)
    BY <1>0
  <2>8. Starts(f[j], f[n])
    BY <2>2, <2>3, <2>6, <2>7, StartsTransitive
  <2> QED BY <2>8 DEF n
<1> HIDE DEF S
<1>3. \A m \in Nat : m \in S
  BY <1>1, <1>2, SetInduction
<1>4. ASSUME NEW n \in j .. Len(ps) PROVE Starts(f[j], f[n])
  <2>1. n - j \in Nat /\ j + (n - j) = n /\ n <= Len(ps)
    BY <1>0
  <2>2. n - j \in S
    BY <1>3, <2>1
  <2>3. j + (n - j) <= Len(ps)
    BY <2>1, <1>0
  <2>4. Starts(f[j], f[j + (n - j)])
    BY <2>2, <2>3, Zenon DEF S
  <2> QED BY <2>1, <2>4, Zenon
<1> QED BY <1>4

\* The recursion in Reads has a solution, and Reads is its first value.
ReadsAt(bs, f) ==
  /\ f \in [0 .. Len(bs) -> Seq(Seq(Byte))]
  /\ \A i \in 0 .. Len(bs) :
       /\ StopsAt(bs, i) => f[i] = <<>>
       /\ ~StopsAt(bs, i) =>
            f[i] = Cat(<<Payload(Drop(bs, i), FrameSizeAt(bs, i))>>,
                       f[i + FrameSizeAt(bs, i) + 3])

\* Where the reader does not stop, a whole frame is there.
LEMMA FrameThere ==
  ASSUME NEW bs \in Seq(Byte), NEW i \in 0 .. Len(bs), ~StopsAt(bs, i)
  PROVE  /\ FrameSizeAt(bs, i) \in Nat /\ FrameSizeAt(bs, i) >= 1
         /\ i + FrameSizeAt(bs, i) + 3 \in (i + 1) .. Len(bs)
         /\ Payload(Drop(bs, i), FrameSizeAt(bs, i)) \in Seq(Byte)
<1> DEFINE d == Drop(bs, i)
           n == FrameSizeAt(bs, i)
<1>0. Len(bs) \in Nat /\ i \in Nat
  BY LenProperties
<1>1. d \in Seq(Byte) /\ Len(d) = Len(bs) - i
  BY DropProperties
<1>2. i + 2 <= Len(bs) /\ ~ (n < 1) /\ ~ (i + n + 3 > Len(bs))
  BY <1>0 DEF StopsAt
<1>3. n = FrameLen(d)
  BY DEF FrameSizeAt
<1> HIDE DEF d, n
<1>4. n \in Int
  BY <1>0, <1>1, <1>2, <1>3, FrameLenType
<1>5. n \in Nat /\ n >= 1 /\ i + n + 3 \in (i + 1) .. Len(bs) /\ n + 3 <= Len(d)
  BY <1>0, <1>1, <1>2, <1>4
<1>6. Payload(d, n) \in Seq(Byte)
  BY <1>1, <1>5, PayloadType
<1> QED BY <1>5, <1>6 DEF d, n

\* The recursion of the reader has a solution, and Reads is its first value.
LEMMA ReadsSolution ==
  ASSUME NEW bs \in Seq(Byte)
  PROVE  \E f : ReadsAt(bs, f) /\ Reads(bs) = f[0]
<1> DEFINE L == Len(bs)
           e == <<>>
           V == Seq(Seq(Byte))
           Stop == { i \in 0 .. L : StopsAt(bs, i) }
           nx(i) == i + FrameSizeAt(bs, i) + 3
           P(i) == <<Payload(Drop(bs, i), FrameSizeAt(bs, i))>>
           K(v, i) == P(i) \o v
           next == [i \in 0 .. L |-> IF i \in Stop THEN 0 ELSE nx(i)]
           h == [i \in 0 .. L |-> [v \in V |-> IF i \in Stop THEN e ELSE K(v, i)]]
           Rec(f) == f = [i \in 0 .. L |-> IF StopsAt(bs, i) THEN e ELSE K(f[nx(i)], i)]
           c == CHOOSE f : Rec(f)
<1>1. L \in Nat /\ e \in V
  BY LenProperties, EmptySeq
<1>2. \A i \in 0 .. L : i \notin Stop => nx(i) \in (i + 1) .. L
  BY FrameThere
<1>3. \A i \in 0 .. L : i \notin Stop => \A v \in V : K(v, i) \in V
  <2> SUFFICES ASSUME NEW i \in 0 .. L, i \notin Stop PROVE \A v \in V : K(v, i) \in V
    OBVIOUS
  <2> DEFINE p == Payload(Drop(bs, i), FrameSizeAt(bs, i))
  <2>1. p \in Seq(Byte)
    BY FrameThere
  <2> HIDE DEF p
  <2>2. <<p>> \in Seq(Seq(Byte))
    BY <2>1
  <2>3. \A v \in V : <<p>> \o v \in V
    BY <2>2, ConcatProperties
  <2> QED BY <2>3 DEF p
<1>4. Reads(bs) = c[0]
  BY DEF Reads
<1>4a. \A i \in 0 .. L : StopsAt(bs, i) <=> i \in Stop
  OBVIOUS
<1>5. /\ c \in [0 .. L -> V]
      /\ \A i \in 0 .. L : /\ StopsAt(bs, i) => c[i] = e
                           /\ ~StopsAt(bs, i) => c[i] = K(c[nx(i)], i)
  <2> HIDE DEF L, e, V, K, nx, P, Stop
  <2>1. h \in [0 .. L -> [V -> V]]
    BY <1>1, <1>3
  <2>1a. next \in [0 .. L -> Int] /\ \A i \in 0 .. L : i \notin Stop => next[i] = nx(i)
    BY <1>1, <1>2
  <2>1b. \A i \in 0 .. L : i \notin Stop => next[i] \in (i + 1) .. L
    BY <1>2, <2>1a
  <2>1c. PICK g : ForwardSolution(V, e, L, Stop, next, h, g)
    <3> HIDE DEF h, next, Rec, c
    <3>1. Forward(V, e, L, Stop, next, h)
      BY <1>1, <2>1, <2>1a, <2>1b, Zenon DEF Forward
    <3> QED BY <3>1, ForwardRecursionExists
  <2>2. /\ g \in [0 .. L -> V]
        /\ \A i \in 0 .. L : g[i] = IF i \in Stop THEN e ELSE h[i][g[next[i]]]
    BY <2>1c DEF ForwardSolution
  <2>3. ASSUME NEW i \in 0 .. L, i \notin Stop
        PROVE  h[i][g[next[i]]] = K(g[nx(i)], i)
    <3>1. next[i] = nx(i) /\ nx(i) \in 0 .. L
      BY <1>1, <1>2, <2>1a, <2>3
    <3>2. g[nx(i)] \in V
      BY <2>2, <3>1
    <3> HIDE DEF next
    <3> QED BY <2>3, <3>1, <3>2
  <2>4. Rec(g)
    <3>1. ASSUME NEW i \in 0 .. L
          PROVE  g[i] = IF StopsAt(bs, i) THEN e ELSE K(g[nx(i)], i)
      <4> HIDE DEF h, next
      <4>1. CASE i \in Stop
        BY <1>4a, <2>2, <4>1
      <4>2. CASE i \notin Stop
        BY <1>4a, <2>2, <2>3, <4>2
      <4> QED BY <4>1, <4>2
    <3> HIDE DEF h, next
    <3> QED BY <2>2, <3>1
  <2>5. Rec(c)
    BY <2>4
  <2> HIDE DEF c
  <2>6. /\ DOMAIN c = 0 .. L /\ c = [i \in 0 .. L |-> c[i]]
        /\ \A i \in 0 .. L : c[i] = IF StopsAt(bs, i) THEN e ELSE K(c[nx(i)], i)
    BY <1>1, <2>5
  <2>7. \A i \in 0 .. L : c[i] \in V
    <3> DEFINE S == { m \in Nat : \A i \in 0 .. L : i + m >= L => c[i] \in V }
    <3>1. 0 \in S
      <4> SUFFICES ASSUME NEW i \in 0 .. L, i + 0 >= L PROVE c[i] \in V
        OBVIOUS
      <4>1. i = L /\ (i + 1) .. L = {}
        BY <1>1
      <4>2. i \in Stop
        BY <1>2, <4>1
      <4> QED BY <1>1, <1>4a, <2>6, <4>2
    <3>2. ASSUME NEW m \in Nat, m \in S PROVE m + 1 \in S
      <4> SUFFICES ASSUME NEW i \in 0 .. L, i + (m + 1) >= L PROVE c[i] \in V
        OBVIOUS
      <4>1. CASE i \in Stop
        BY <1>1, <1>4a, <2>6, <4>1
      <4>2. CASE i \notin Stop
        <5>1. nx(i) \in (i + 1) .. L
          BY <1>2, <4>2
        <5>2. nx(i) \in 0 .. L /\ nx(i) + m >= L
          BY <1>1, <5>1
        <5>3. c[nx(i)] \in V
          BY <3>2, <5>2
        <5>4. c[i] = K(c[nx(i)], i)
          BY <1>4a, <2>6, <4>2
        <5> QED BY <1>3, <4>2, <5>3, <5>4, Zenon
      <4> QED BY <4>1, <4>2
    <3> HIDE DEF S
    <3>3. \A m \in Nat : m \in S
      BY <3>1, <3>2, SetInduction
    <3>4. L \in S
      BY <1>1, <3>3
    <3>5. \A i \in 0 .. L : i + L >= L
      BY <1>1
    <3> QED BY <3>4, <3>5 DEF S
  <2>8. c \in [0 .. L -> V]
    BY <2>6, <2>7
  <2> QED BY <2>6, <2>8, Zenon
<1> HIDE DEF c
<1>6. ReadsAt(bs, c)
  BY <1>5 DEF ReadsAt, Cat
<1> QED BY <1>4, <1>6

\* At the start of the j-th frame of DataBytes(ps), of which bs is a prefix, the
\* receiver finds exactly the j-th packet, if its frame is whole.
LEMMA ReadFrame ==
  ASSUME NEW ps \in PacketSeq, NEW f, PrefixBytes(ps, f), NEW bs \in Seq(Byte),
         Starts(bs, f[Len(ps)]), NEW j \in 1 .. Len(ps), Len(f[j - 1]) <= Len(bs)
  PROVE  /\ StopsAt(bs, Len(f[j - 1])) <=> Len(f[j]) > Len(bs)
         /\ Len(f[j]) <= Len(bs) =>
              /\ FrameSizeAt(bs, Len(f[j - 1])) = Len(ps[j])
              /\ Payload(Drop(bs, Len(f[j - 1])), Len(ps[j])) = ps[j]
<1> DEFINE i == Len(f[j - 1])
           n == Len(ps[j])
           L == Len(bs)
           D == f[Len(ps)]
           F == Frame(ps[j], SPLIT_DATA)
           d == Drop(bs, i)
<1>1. /\ f[j - 1] \in Seq(Byte) /\ f[j] \in Seq(Byte) /\ ps[j] \in Sendable
      /\ f[j] = Cat(f[j - 1], F) /\ Len(f[j]) = i + n + 3
  BY PrefixGrows
<1>2. /\ ps[j] \in Seq(Byte) /\ n \in Nat /\ n >= 1 /\ n <= 32764
      /\ F \in Seq(Byte) /\ Len(F) = n + 3
  BY <1>1, DataFrame, FrameAssumption
<1>3. i \in Nat /\ L \in Nat /\ i <= L
  BY <1>1, LenProperties
<1>4. \A x \in 1 .. n + 3 : f[j][i + x] = F[x]
  <2> DEFINE g == f[j - 1]
  <2>1. g \in Seq(Byte) /\ F \in Seq(Byte) /\ f[j] = Cat(g, F) /\ Len(F) = n + 3 /\ i = Len(g)
    <3> HIDE DEF F, n
    <3> QED BY <1>1, <1>2
  <2> HIDE DEF g, F, n, i
  <2>2. \A x \in 1 .. Len(F) : Cat(g, F)[Len(g) + x] = F[x]
    BY <2>1, StartsCat
  <2> QED BY <2>1, <2>2, Zenon
<1>5. Starts(f[j], D)
  <2>1. Len(ps) \in Nat /\ j \in 0 .. Len(ps) /\ Len(ps) \in j .. Len(ps)
    BY LenProperties DEF PacketSeq
  <2> QED BY <2>1, PrefixStarts
<1>6. L <= Len(D) /\ \A x \in 1 .. L : bs[x] = D[x]
  BY DEF Starts
<1>7. /\ F[1] = n % 256 /\ F[2] = n \div 256
      /\ \A x \in 1 .. n : F[2 + x] = ps[j][x]
  BY <1>1, FrameBytes
<1>8. \A x \in 1 .. n + 3 : i + x <= L => bs[i + x] = F[x]
  <2> SUFFICES ASSUME NEW x \in 1 .. n + 3, i + x <= L PROVE bs[i + x] = F[x]
    OBVIOUS
  <2> HIDE DEF i, n, L, D, F
  <2>1. i + x \in 1 .. L /\ i + x \in 1 .. Len(f[j])
    BY <1>1, <1>2, <1>3
  <2>2. D[i + x] = f[j][i + x]
    BY <1>5, <2>1 DEF Starts
  <2> QED BY <1>4, <1>6, <2>1, <2>2
<1>9. d \in Seq(Byte) /\ Len(d) = L - i /\ \A x \in 1 .. L - i : d[x] = bs[i + x]
  <2>1. i \in 0 .. Len(bs)
    BY <1>3
  <2> HIDE DEF i
  <2>2. \A k \in (i + 1) .. L : bs[k] \in Byte
    BY <1>3, ElementOfSeq
  <2>3. i + 1 \in Int /\ L \in Int
    BY <1>3
  <2>4. /\ d \in Seq(Byte) /\ Len(d) = L - i
    BY <2>1, DropProperties
  <2>5. \A x \in 1 .. Len(d) : d[x] = bs[i + 1 + x - 1]
    BY <2>2, <2>3, SubSeqProperties DEF Drop
  <2>6. \A x \in 1 .. L - i : i + 1 + x - 1 = i + x
    BY <1>3
  <2> QED BY <2>4, <2>5, <2>6
<1>10. i + 2 <= L => FrameSizeAt(bs, i) = n
  <2> SUFFICES ASSUME i + 2 <= L PROVE FrameSizeAt(bs, i) = n
    OBVIOUS
  <2>1. FrameSizeAt(bs, i) = Int16(d[1], d[2])
    BY DEF FrameSizeAt, FrameLen
  <2> HIDE DEF i, n, L, D, F, d
  <2>2. 1 \in 1 .. L - i /\ 2 \in 1 .. L - i /\ 1 \in 1 .. n + 3 /\ 2 \in 1 .. n + 3
        /\ i + 1 <= L
    BY <1>2, <1>3
  <2>3. d[1] = F[1] /\ d[2] = F[2]
    BY <1>8, <1>9, <2>2
  <2>4. Int16(n % 256, n \div 256) = n
    BY <1>2, LengthRead
  <2> QED BY <1>7, <2>1, <2>3, <2>4
<1>11. StopsAt(bs, i) <=> Len(f[j]) > L
  <2>1. StopsAt(bs, i) <=> i + 2 > L \/ FrameSizeAt(bs, i) < 1
                             \/ i + FrameSizeAt(bs, i) + 3 > L
    BY DEF StopsAt
  <2> HIDE DEF i, n, L, D, F, d
  <2>2. CASE i + 2 > L
    BY <1>1, <1>2, <1>3, <2>1, <2>2
  <2>3. CASE ~ (i + 2 > L)
    <3>1. FrameSizeAt(bs, i) = n
      BY <1>3, <1>10, <2>3
    <3> QED BY <1>1, <1>2, <1>3, <2>1, <2>3, <3>1
  <2> QED BY <2>2, <2>3
<1>12. ASSUME Len(f[j]) <= L PROVE FrameSizeAt(bs, i) = n /\ Payload(d, n) = ps[j]
  <2> HIDE DEF i, L, D, F, d
  <2>1. i + 2 <= L /\ i + n + 3 <= L
    BY <1>1, <1>2, <1>3, <1>12
  <2>2. \A x \in 3 .. n + 2 : d[x] \in Byte
    <3>1. n + 2 <= Len(d)
      BY <1>2, <1>3, <1>9, <2>1
    <3> QED BY <1>2, <1>9, <3>1, ElementOfSeq, LenProperties
  <2> DEFINE p == Payload(d, n)
  <2>3. /\ p \in Seq(Byte) /\ Len(p) = (n + 2) - 3 + 1
        /\ \A x \in 1 .. Len(p) : p[x] = d[3 + x - 1]
    BY <1>2, <2>2, SubSeqProperties DEF Payload
  <2> HIDE DEF p
  <2>4. ASSUME NEW x \in 1 .. n PROVE p[x] = ps[j][x]
    <3> HIDE DEF n
    <3>1. /\ x \in 1 .. Len(p) /\ 3 + x - 1 = 2 + x /\ 2 + x \in 1 .. L - i
          /\ 2 + x \in 1 .. n + 3 /\ i + (2 + x) <= L
      BY <1>2, <1>3, <2>1, <2>3
    <3>2. p[x] = d[2 + x]
      BY <2>3, <3>1
    <3>3. d[2 + x] = F[2 + x]
      BY <1>8, <1>9, <3>1
    <3> QED BY <1>7, <3>2, <3>3
  <2>5. p = ps[j]
    <3>1. Len(p) = n
      BY <1>2, <2>3
    <3>2. Len(p) = Len(ps[j]) /\ \A x \in 1 .. Len(p) : p[x] = ps[j][x]
      BY <2>4, <3>1
    <3>3. p \in Seq(Byte) /\ ps[j] \in Seq(Byte)
      BY <1>2, <2>3
    <3> QED BY <3>2, <3>3, SeqEqual
  <2> QED BY <1>10, <2>1, <2>5 DEF p
<1> QED BY <1>11, <1>12

\* k packets of ps are whole in the first L bytes of DataBytes(ps).
WholeIn(ps, f, L, k) ==
  /\ k \in 0 .. Len(ps)
  /\ Len(f[k]) <= L
  /\ k < Len(ps) => Len(f[k + 1]) > L

\* Every length holds some number of whole frames.
LEMMA SomeWhole ==
  ASSUME NEW ps \in PacketSeq, NEW f, PrefixBytes(ps, f), NEW L \in Nat
  PROVE  \E k : WholeIn(ps, f, L, k)
<1> DEFINE N == Len(ps)
           S == { m \in Nat : m >= N \/ Len(f[m + 1]) > L }
<1>0. /\ N \in Nat /\ f[0] = <<>> /\ \A m \in 0 .. N : f[m] \in Seq(Byte) /\ Len(f[m]) \in Nat
  BY LenProperties DEF PrefixBytes, PacketSeq
<1>1. N \in S
  BY <1>0
<1>2. PICK k \in S : \A m \in 0 .. (k - 1) : m \notin S
  <2> HIDE DEF N
  <2>1. S \subseteq Nat /\ S # {}
    BY <1>1
  <2> HIDE DEF S
  <2>2. PICK k \in S : \A m \in S : k <= m
    BY <2>1, LeastNat
  <2>3. \A m \in 0 .. (k - 1) : m \notin S
    BY <2>1, <2>2
  <2> QED BY <2>3
<1>3. k \in 0 .. N
  <2> HIDE DEF N
  <2>1. k \in Nat
    OBVIOUS
  <2>2. ~ (k > N)
    <3> SUFFICES ASSUME k > N PROVE FALSE
      OBVIOUS
    <3>1. N \in 0 .. (k - 1)
      BY <1>0, <2>1
    <3> QED BY <1>1, <1>2, <3>1
  <2> QED BY <1>0, <2>1, <2>2
<1>4. Len(f[k]) <= L
  <2>1. CASE k = 0
    <3>1. Len(f[k]) = 0
      BY <1>0, <2>1, EmptySeq
    <3> QED BY <3>1
  <2>2. CASE k # 0
    <3> HIDE DEF N
    <3>1. k - 1 \in Nat /\ k - 1 \in 0 .. (k - 1) /\ ~ (k - 1 >= N) /\ (k - 1) + 1 = k
      BY <1>0, <1>3, <2>2
    <3>2. ~ (Len(f[(k - 1) + 1]) > L)
      BY <1>2, <3>1
    <3>3. Len(f[k]) \in Nat
      BY <1>0, <1>3
    <3> QED BY <3>1, <3>2, <3>3
  <2> QED BY <2>1, <2>2
<1>5. k < N => Len(f[k + 1]) > L
  BY <1>0
<1> QED BY <1>3, <1>4, <1>5 DEF WholeIn

\* A range of a sequence is its first element and the rest of the range.
LEMMA SubSeqHead ==
  ASSUME NEW ps \in PacketSeq, NEW j \in 1 .. Len(ps), NEW k \in j .. Len(ps)
  PROVE  SubSeq(ps, j, k) = Cat(<<ps[j]>>, SubSeq(ps, j + 1, k))
<1>0. Len(ps) \in Nat
  BY LenProperties DEF PacketSeq
<1>1. \A i \in j .. k : ps[i] \in Sendable
  BY <1>0, ElementOfSeq DEF PacketSeq
<1>2. SubSeq(ps, j, j) = <<ps[j]>>
  <2> DEFINE o == SubSeq(ps, j, j)
  <2>1. /\ o \in Seq(Sendable) /\ Len(o) = 1 /\ o[1] = ps[j]
    BY <1>0, <1>1, SubSeqProperties
  <2> HIDE DEF o
  <2>2. o = <<ps[j]>>
    BY <2>1
  <2> QED BY <2>2 DEF o
<1>3. SubSeq(ps, j, j) \o SubSeq(ps, j + 1, k) = SubSeq(ps, j, k)
  <2>1. j \in 1 .. Len(ps) + 1 /\ j \in j - 1 .. Len(ps) /\ k \in j .. Len(ps)
    BY <1>0
  <2>2. ps \in Seq(Sendable)
    BY DEF PacketSeq
  <2> QED BY <2>1, <2>2, ConcatAdjacentSubSeq
<1> QED BY <1>2, <1>3, Zenon DEF Cat

\* The first k + 1 packets are the first k and the next one.
LEMMA TakeOneMore ==
  ASSUME NEW ps \in PacketSeq, NEW k \in 0 .. Len(ps), k + 1 \in 1 .. Len(ps)
  PROVE  SubSeq(ps, 1, k + 1) = Append(SubSeq(ps, 1, k), ps[k + 1])
<1> DEFINE s == SubSeq(ps, 1, k)
           t == SubSeq(ps, 1, k + 1)
           u == Append(s, ps[k + 1])
<1>0. Len(ps) \in Nat /\ k \in Nat /\ k + 1 \in 0 .. Len(ps)
  BY LenProperties DEF PacketSeq
<1>1. \A i \in 1 .. k + 1 : ps[i] \in Sendable
  BY <1>0, ElementOfSeq DEF PacketSeq
<1>2. s \in Seq(Sendable) /\ Len(s) = k /\ \A i \in 1 .. k : s[i] = ps[i]
  BY <1>0, <1>1, SubSeqProperties
<1>3. t \in Seq(Sendable) /\ Len(t) = k + 1 /\ \A i \in 1 .. k + 1 : t[i] = ps[i]
  BY <1>0, <1>1, SubSeqProperties
<1> HIDE DEF s, t
<1>4. /\ u \in Seq(Sendable) /\ Len(u) = k + 1 /\ u[k + 1] = ps[k + 1]
      /\ \A i \in 1 .. k : u[i] = s[i]
  BY <1>0, <1>1, <1>2, AppendProperties
<1> HIDE DEF u
<1>5. \A i \in 1 .. k + 1 : t[i] = u[i]
  BY <1>0, <1>2, <1>3, <1>4
<1>6. t = u
  BY <1>3, <1>4, <1>5, SeqEqual
<1> QED BY <1>6 DEF t, u, s

\* A receiver of a prefix of DataBytes(ps) reads the packets that are whole in it.
LEMMA ReadsPrefix ==
  ASSUME NEW ps \in PacketSeq, NEW f, PrefixBytes(ps, f), NEW bs \in Seq(Byte),
         Starts(bs, f[Len(ps)]), NEW k, WholeIn(ps, f, Len(bs), k)
  PROVE  Reads(bs) = SubSeq(ps, 1, k)
<1> DEFINE N == Len(ps)
           L == Len(bs)
<1>0. N \in Nat /\ L \in Nat /\ k \in 0 .. N /\ Len(f[k]) <= L
      /\ \A m \in 0 .. N : f[m] \in Seq(Byte) /\ Len(f[m]) \in Nat
  BY LenProperties DEF WholeIn, PrefixBytes, PacketSeq
<1>1. PICK r : ReadsAt(bs, r) /\ Reads(bs) = r[0]
  BY ReadsSolution
<1>2. ASSUME NEW j \in 0 .. k PROVE Len(f[j]) \in 0 .. L
  <2>1. j \in 0 .. N /\ k \in j .. N
    BY <1>0
  <2>2. Starts(f[j], f[k])
    BY <2>1, PrefixStarts
  <2> QED BY <1>0, <2>1, <2>2 DEF Starts
<1>3. r[Len(f[k])] = <<>>
  <2>1. Len(f[k]) \in 0 .. L
    BY <1>0, <1>2
  <2>2. StopsAt(bs, Len(f[k]))
    <3>1. CASE k < N
      <4>1. k + 1 \in 1 .. N /\ (k + 1) - 1 = k /\ Len(f[k + 1]) > L
        BY <1>0, <3>1 DEF WholeIn
      <4>2. Len(f[(k + 1) - 1]) <= Len(bs)
        BY <1>0, <4>1
      <4>3. StopsAt(bs, Len(f[(k + 1) - 1])) <=> Len(f[k + 1]) > Len(bs)
        BY <4>1, <4>2, ReadFrame
      <4> QED BY <4>1, <4>3
    <3>2. CASE k = N
      <4>1. L <= Len(f[k])
        BY <3>2 DEF Starts
      <4>2. Len(f[k]) + 2 > Len(bs)
        BY <1>0, <4>1
      <4> QED BY <4>2 DEF StopsAt
    <3> QED BY <1>0, <3>1, <3>2
  <2> QED BY <1>1, <2>1, <2>2 DEF ReadsAt
<1>4. ASSUME NEW j \in 1 .. k
      PROVE  r[Len(f[j - 1])] = Cat(<<ps[j]>>, r[Len(f[j])])
  <2>1. /\ j \in 1 .. N /\ j - 1 \in 0 .. k /\ j \in 0 .. k
    BY <1>0
  <2>2. /\ Len(f[j - 1]) \in 0 .. L /\ Len(f[j]) \in 0 .. L
        /\ Len(f[j]) <= L /\ Len(f[j - 1]) <= Len(bs) /\ ~ (Len(f[j]) > L)
    BY <1>0, <1>2, <2>1
  <2>3. /\ ~ StopsAt(bs, Len(f[j - 1]))
        /\ FrameSizeAt(bs, Len(f[j - 1])) = Len(ps[j])
        /\ Payload(Drop(bs, Len(f[j - 1])), Len(ps[j])) = ps[j]
    BY <2>1, <2>2, ReadFrame
  <2>4. Len(f[j]) = Len(f[j - 1]) + Len(ps[j]) + 3
    BY <2>1, PrefixGrows
  <2> DEFINE i == Len(f[j - 1])
             i2 == Len(f[j])
             n == Len(ps[j])
             q == ps[j]
  <2>5. i \in 0 .. L /\ ~ StopsAt(bs, i) /\ FrameSizeAt(bs, i) = n
        /\ Payload(Drop(bs, i), n) = q /\ i2 = i + n + 3
    BY <2>2, <2>3, <2>4, Zenon
  <2> HIDE DEF i, i2, n, q
  <2>6. r[i] = Cat(<<Payload(Drop(bs, i), FrameSizeAt(bs, i))>>,
                   r[i + FrameSizeAt(bs, i) + 3])
    BY <1>1, <2>5, Zenon DEF ReadsAt
  <2>7. r[i] = Cat(<<q>>, r[i2])
    BY <2>5, <2>6, Zenon
  <2> QED BY <2>7 DEF i, i2, q
<1> DEFINE S == { m \in Nat : m <= k => r[Len(f[k - m])] = SubSeq(ps, (k - m) + 1, k) }
<1>5. 0 \in S
  <2>1. k - 0 = k /\ k \in Int /\ k + 1 \in Int /\ k < k + 1
    BY <1>0
  <2>2. SubSeq(ps, k + 1, k) = <<>>
    BY <2>1, SubSeqEmpty
  <2> QED BY <1>3, <2>1, <2>2
<1>6. ASSUME NEW m \in Nat, m \in S PROVE m + 1 \in S
  <2> SUFFICES ASSUME m + 1 <= k
               PROVE  r[Len(f[k - (m + 1)])] = SubSeq(ps, (k - (m + 1)) + 1, k)
    OBVIOUS
  <2> DEFINE j == k - m
  <2>1. /\ j \in 1 .. k /\ k - (m + 1) = j - 1 /\ (k - (m + 1)) + 1 = j /\ m <= k
        /\ k \in j .. N /\ j \in 1 .. N
    BY <1>0
  <2>2. r[Len(f[j])] = SubSeq(ps, j + 1, k)
    BY <1>6, <2>1
  <2> HIDE DEF j
  <2>3. r[Len(f[j - 1])] = Cat(<<ps[j]>>, SubSeq(ps, j + 1, k))
    BY <1>4, <2>1, <2>2
  <2>4. SubSeq(ps, j, k) = Cat(<<ps[j]>>, SubSeq(ps, j + 1, k))
    BY <2>1, SubSeqHead
  <2> QED BY <2>1, <2>3, <2>4
<1> HIDE DEF S
<1>7. \A m \in Nat : m \in S
  BY <1>5, <1>6, SetInduction
<1>8. k \in S /\ k <= k /\ k - k = 0 /\ (k - k) + 1 = 1
  BY <1>0, <1>7
<1>9. r[Len(f[k - k])] = SubSeq(ps, (k - k) + 1, k)
  BY <1>8 DEF S
<1>10. f[0] = <<>> /\ Len(<<>>) = 0
  BY EmptySeq DEF PrefixBytes
<1>11. r[Len(f[0])] = SubSeq(ps, 1, k)
  BY <1>8, <1>9, Zenon
<1> QED BY <1>1, <1>10, <1>11, Zenon

\* One byte more completes at most one packet more.
LEMMA WholeNext ==
  ASSUME NEW ps \in PacketSeq, NEW f, PrefixBytes(ps, f), NEW L \in Nat, NEW M \in Nat,
         L <= M, M <= L + 1, NEW k, WholeIn(ps, f, L, k), NEW l, WholeIn(ps, f, M, l)
  PROVE  l = k \/ (l = k + 1 /\ k < Len(ps))
<1> DEFINE N == Len(ps)
<1>0. /\ N \in Nat /\ \A m \in 0 .. N : f[m] \in Seq(Byte) /\ Len(f[m]) \in Nat
  BY LenProperties DEF PrefixBytes, PacketSeq
<1>1. k \in 0 .. N /\ l \in 0 .. N /\ Len(f[k]) <= L /\ Len(f[l]) <= M
      /\ (k < N => Len(f[k + 1]) > L) /\ (l < N => Len(f[l + 1]) > M)
  BY DEF WholeIn
<1>2. \A a, b \in 0 .. N : a <= b => Len(f[a]) <= Len(f[b])
  <2> SUFFICES ASSUME NEW a \in 0 .. N, NEW b \in 0 .. N, a <= b
               PROVE  Len(f[a]) <= Len(f[b])
    OBVIOUS
  <2>1. b \in a .. N
    BY <1>0
  <2> QED BY <2>1, PrefixStarts DEF Starts
<1>3. \A a \in 1 .. N : Len(f[a]) > Len(f[a - 1]) + 3
  <2> TAKE a \in 1 .. N
  <2>1. Len(f[a]) = Len(f[a - 1]) + Len(ps[a]) + 3 /\ ps[a] \in Sendable
    BY PrefixGrows
  <2>2. Len(ps[a]) \in Nat /\ Len(ps[a]) >= 1
    BY <2>1, DataFrame
  <2>3. a - 1 \in 0 .. N
    BY <1>0
  <2>4. Len(f[a - 1]) \in Nat
    BY <1>0, <2>3
  <2> DEFINE x == Len(f[a - 1])
             y == Len(ps[a])
  <2>5. x \in Nat /\ y \in Nat /\ y >= 1 /\ Len(f[a]) = x + y + 3
    BY <2>1, <2>2, <2>4
  <2> HIDE DEF x, y
  <2>6. Len(f[a]) > x + 3
    BY <2>5
  <2> QED BY <2>6 DEF x
<1> HIDE DEF N
<1>4. ~ (l < k)
  <2> SUFFICES ASSUME l < k PROVE FALSE
    OBVIOUS
  <2>1. l + 1 \in 0 .. N /\ l + 1 <= k /\ l < N
    BY <1>0, <1>1
  <2>2. Len(f[l + 1]) <= Len(f[k]) /\ Len(f[l + 1]) \in Nat /\ Len(f[k]) \in Nat
    BY <1>0, <1>1, <1>2, <2>1
  <2> QED BY <1>1, <2>1, <2>2
<1>5. ~ (l > k + 1)
  <2> SUFFICES ASSUME l > k + 1 PROVE FALSE
    OBVIOUS
  <2>1. /\ k + 2 \in 1 .. N /\ (k + 2) - 1 = k + 1 /\ k + 1 \in 0 .. N /\ k + 2 \in 0 .. N
        /\ k + 2 <= l /\ k < N
    BY <1>0, <1>1
  <2>2. Len(f[k + 2]) > Len(f[(k + 2) - 1]) + 3 /\ Len(f[k + 2]) <= Len(f[l])
    BY <1>1, <1>2, <1>3, <2>1
  <2>3. Len(f[k + 2]) \in Nat /\ Len(f[k + 1]) \in Nat /\ Len(f[l]) \in Nat
    BY <1>0, <1>1, <2>1
  <2>4. Len(f[k + 2]) > Len(f[k + 1]) + 3 /\ Len(f[k + 1]) > L
    BY <1>1, <2>1, <2>2
  <2> QED BY <1>1, <2>2, <2>3, <2>4
<1>6. l = k \/ (l = k + 1 /\ k < N)
  BY <1>0, <1>1, <1>4, <1>5
<1> QED BY <1>6 DEF N

-----------------------------------------------------------------------------
(* The packet pipe.                                                        *)

\* How many bytes of w are behind the netif_info frame, and what is read there.
Behind(w) == IF Len(w) < INFO_LEN + 3 THEN 0 ELSE Len(w) - (INFO_LEN + 3)
ReadOff(w) == IF Len(w) < INFO_LEN + 3 THEN <<>> ELSE Reads(Drop(w, INFO_LEN + 3))

\* What a reader gets from a prefix of the stream is a prefix of the packets.
LEMMA ReadOffPrefix ==
  ASSUME NEW ps \in PacketSeq, NEW f, PrefixBytes(ps, f), NEW w \in Seq(Byte),
         Starts(w, Cat(Frame(NetifInfo, SPLIT_CMD), f[Len(ps)]))
  PROVE  /\ Behind(w) \in Nat
         /\ \E k : WholeIn(ps, f, Behind(w), k) /\ ReadOff(w) = SubSeq(ps, 1, k)
<1> DEFINE H == INFO_LEN + 3
           I == Frame(NetifInfo, SPLIT_CMD)
           D == f[Len(ps)]
           L == Len(w)
<1>0. /\ I \in Seq(Byte) /\ Len(I) = H /\ H \in Nat
  <2>1. /\ NetifInfo \in Seq(Byte) /\ Len(NetifInfo) = INFO_LEN /\ Len(NetifInfo) <= MTU_LEN
        /\ SPLIT_CMD \in Byte /\ INFO_LEN \in Nat
    BY EspTxAssumption, FrameAssumption, SMT
  <2>2. I \in Seq(Byte) /\ Len(I) = Len(NetifInfo) + 3
    BY <2>1, FrameSize
  <2> QED BY <2>1, <2>2
<1>1. L \in Nat /\ D \in Seq(Byte) /\ Len(D) \in Nat /\ Len(ps) \in Nat
  BY LenProperties DEF PrefixBytes, PacketSeq
<1>2. /\ L <= Len(Cat(I, D)) /\ Len(Cat(I, D)) = H + Len(D)
      /\ \A i \in 1 .. L : w[i] = Cat(I, D)[i]
      /\ \A i \in 1 .. Len(D) : Cat(I, D)[H + i] = D[i]
  <2>1. /\ Len(Cat(I, D)) = Len(I) + Len(D)
        /\ \A i \in 1 .. Len(D) : Cat(I, D)[Len(I) + i] = D[i]
    <3>1. I \in Seq(Byte) /\ D \in Seq(Byte)
      BY <1>0, <1>1
    <3> HIDE DEF I, D
    <3> QED BY <3>1, CatType, StartsCat
  <2>2. L <= Len(Cat(I, D)) /\ \A i \in 1 .. L : w[i] = Cat(I, D)[i]
    BY DEF Starts
  <2> HIDE DEF I, D, H
  <2> QED BY <1>0, <2>1, <2>2
<1>3. CASE L < H
  <2>1. Behind(w) = 0 /\ ReadOff(w) = <<>>
    BY <1>3 DEF Behind, ReadOff
  <2>2. WholeIn(ps, f, 0, 0)
    <3>1. f[0] = <<>> /\ Len(f[0]) = 0 /\ 0 \in 0 .. Len(ps)
      BY <1>1, EmptySeq DEF PrefixBytes
    <3>2. ASSUME 0 < Len(ps) PROVE Len(f[0 + 1]) > 0
      <4>1. 1 \in 1 .. Len(ps) /\ 0 + 1 = 1 /\ 1 - 1 = 0
        BY <1>1, <3>2
      <4>2. Len(f[1]) = Len(f[1 - 1]) + Len(ps[1]) + 3 /\ ps[1] \in Sendable
        BY <4>1, PrefixGrows
      <4>3. Len(ps[1]) \in Nat
        BY <4>2, DataFrame
      <4>4. Len(f[1]) = 0 + Len(ps[1]) + 3
        BY <3>1, <4>1, <4>2, Zenon
      <4>5. Len(f[1]) > 0
        BY <4>3, <4>4
      <4> QED BY <4>1, <4>5
    <3> QED BY <3>1, <3>2 DEF WholeIn
  <2>3. SubSeq(ps, 1, 0) = <<>>
    BY SubSeqEmpty
  <2> QED BY <2>1, <2>2, <2>3
<1>4. CASE ~ (L < H)
  <2> DEFINE bs == Drop(w, H)
  <2>1. Behind(w) = L - H /\ ReadOff(w) = Reads(bs)
    BY <1>4 DEF Behind, ReadOff
  <2> HIDE DEF I, D, H, L
  <2>2. H \in 0 .. L /\ L - H \in Nat
    BY <1>0, <1>1, <1>4
  <2>3. bs \in Seq(Byte) /\ Len(bs) = L - H /\ \A i \in 1 .. L - H : bs[i] = w[H + i]
    <3>1. bs \in Seq(Byte) /\ Len(bs) = L - H
      BY <2>2, DropProperties DEF L
    <3>2. \A i \in (H + 1) .. L : w[i] \in Byte
      BY <1>0, <1>1, ElementOfSeq DEF L
    <3>3. \A i \in 1 .. L - (H + 1) + 1 : bs[i] = w[(H + 1) + i - 1]
      BY <1>0, <1>1, <3>2, SubSeqProperties DEF Drop, L
    <3>4. \A i \in 1 .. L - H : i \in 1 .. L - (H + 1) + 1 /\ (H + 1) + i - 1 = H + i
      BY <1>0, <1>1
    <3> QED BY <3>1, <3>3, <3>4
  <2> HIDE DEF bs
  <2>4. Starts(bs, D)
    <3>1. Len(bs) <= Len(D)
      BY <1>0, <1>1, <1>2, <2>3
    <3>2. ASSUME NEW i \in 1 .. Len(bs) PROVE D[i] = bs[i]
      <4>1. i \in 1 .. L - H /\ i \in 1 .. Len(D) /\ H + i \in 1 .. L
        BY <1>0, <1>1, <2>3, <3>1
      <4> QED BY <1>2, <2>3, <4>1
    <3> QED BY <3>1, <3>2 DEF Starts
  <2>5. PICK k : WholeIn(ps, f, L - H, k)
    BY <2>2, SomeWhole
  <2>6. Reads(bs) = SubSeq(ps, 1, k)
    BY <2>3, <2>4, <2>5, ReadsPrefix DEF D
  <2> QED BY <2>1, <2>2, <2>5, <2>6
<1> QED BY <1>3, <1>4

\* What the host can read off the wire.
LEMMA ReceivedIs == Received = ReadOff(wire)
BY DEF Received, ReadOff

\* What has left the fifo, and what is in it, begin netif_info and the data frames.
LEMMA WireStarts ==
  ASSUME BuffersOK, Packets, Flow
  PROVE  Starts(Cat(wire, txfifo), Cat(Frame(NetifInfo, SPLIT_CMD), DataBytes(accepted)))
<1> DEFINE a == Cat(wire, txfifo)
           b == Cat(a, infoLeft)
           c == Cat(b, sendbuf)
           d == Cat(c, Held)
           e == Cat(d, DataBytes(queue))
<1>1. /\ a \in Seq(Byte) /\ b \in Seq(Byte) /\ c \in Seq(Byte) /\ d \in Seq(Byte)
      /\ infoLeft \in Seq(Byte) /\ sendbuf \in Seq(Byte) /\ Held \in Seq(Byte)
      /\ DataBytes(queue) \in Seq(Byte)
  BY FlowTypes
<1>2. e = Cat(Frame(NetifInfo, SPLIT_CMD), DataBytes(accepted))
  BY DEF Flow
<1> HIDE DEF a
<1>3. Starts(a, b)
  BY <1>1, StartsCat
<1> HIDE DEF b
<1>4. Starts(b, c)
  BY <1>1, StartsCat
<1> HIDE DEF c
<1>5. Starts(c, d)
  BY <1>1, StartsCat
<1> HIDE DEF d
<1>6. Starts(d, e) /\ e \in Seq(Byte)
  BY <1>1, StartsCat, CatType
<1> HIDE DEF e
<1>7. Starts(a, c)
  BY <1>1, <1>3, <1>4, StartsTransitive
<1>8. Starts(a, d)
  BY <1>1, <1>5, <1>7, StartsTransitive
<1>9. Starts(a, e)
  BY <1>1, <1>6, <1>8, StartsTransitive
<1> QED BY <1>2, <1>9 DEF a

\* A byte that leaves the fifo delivers the next packet or none.
LEMMA TransmitDelivers ==
  ASSUME IInv, Transmit
  PROVE  [Pipe!Next]_<<accepted, Received>>
<1> DEFINE A == Cat(wire, txfifo)
           G == Cat(Frame(NetifInfo, SPLIT_CMD), DataBytes(accepted))
           N == Len(accepted)
           H == INFO_LEN + 3
<1>1. /\ accepted \in PacketSeq /\ wire \in Seq(Byte) /\ txfifo \in Seq(Byte)
      /\ A \in Seq(Byte) /\ G \in Seq(Byte) /\ Starts(A, G)
  <2>1. BuffersOK /\ Packets /\ Flow
    BY DEF IInv
  <2>2. Frame(NetifInfo, SPLIT_CMD) \in Seq(Byte) /\ DataBytes(accepted) \in Seq(Byte)
    BY <2>1, FlowTypes
  <2> QED BY <2>1, <2>2, FlowTypes, WireStarts, CatType DEF Packets
<1>2. /\ wire' \in Seq(Byte) /\ txfifo' \in Seq(Byte) /\ Len(wire') = Len(wire) + 1
      /\ Cat(wire', txfifo') = A
  BY <1>1, ByteSent
<1>3. Starts(wire, A) /\ Starts(wire', A)
  <2>1. Starts(wire', Cat(wire', txfifo'))
    BY <1>2, StartsCat
  <2>2. Starts(wire, A)
    BY <1>1, StartsCat
  <2> QED BY <1>2, <2>1, <2>2, Zenon
<1> HIDE DEF A
<1>4. Starts(wire, G) /\ Starts(wire', G)
  <2> HIDE DEF G
  <2> QED BY <1>1, <1>2, <1>3, StartsTransitive
<1>5. PICK f : PrefixBytes(accepted, f) /\ DataBytes(accepted) = f[N]
  BY <1>1, DataBytesPrefix
<1>6. G = Cat(Frame(NetifInfo, SPLIT_CMD), f[N])
  BY <1>5, Zenon
<1> HIDE DEF G
<1>7. Behind(wire) \in Nat /\ Behind(wire') \in Nat
  BY <1>1, <1>2, <1>4, <1>5, <1>6, ReadOffPrefix
<1>8. PICK k : WholeIn(accepted, f, Behind(wire), k) /\ ReadOff(wire) = SubSeq(accepted, 1, k)
  BY <1>1, <1>4, <1>5, <1>6, ReadOffPrefix
<1>9. PICK l : WholeIn(accepted, f, Behind(wire'), l) /\ ReadOff(wire') = SubSeq(accepted, 1, l)
  BY <1>1, <1>2, <1>4, <1>5, <1>6, ReadOffPrefix
<1>10. Behind(wire) <= Behind(wire') /\ Behind(wire') <= Behind(wire) + 1
  <2>1. Len(wire) \in Nat /\ H \in Nat
    BY <1>1, LenProperties, FrameAssumption, SMT
  <2>2. Behind(wire) = IF Len(wire) < H THEN 0 ELSE Len(wire) - H
    BY DEF Behind
  <2>3. Behind(wire') = IF Len(wire') < H THEN 0 ELSE Len(wire') - H
    BY DEF Behind
  <2> HIDE DEF H
  <2> QED BY <1>2, <2>1, <2>2, <2>3
<1>11. l = k \/ (l = k + 1 /\ k < N)
  BY <1>1, <1>5, <1>7, <1>8, <1>9, <1>10, WholeNext
<1>12. Received = SubSeq(accepted, 1, k) /\ Received' = SubSeq(accepted, 1, l)
  <2>1. Received' = ReadOff(wire')
    BY DEF Received, ReadOff
  <2> QED BY <1>8, <1>9, <2>1, ReceivedIs
<1>13. accepted' = accepted
  BY DEF Transmit
<1>14. CASE l = k
  BY <1>12, <1>13, <1>14
<1>15. CASE l = k + 1 /\ k < N
  <2>1. k \in 0 .. N /\ N \in Nat /\ k + 1 \in 1 .. N
    BY <1>1, <1>8, <1>15, LenProperties DEF WholeIn, PacketSeq
  <2>2. Len(SubSeq(accepted, 1, k)) = k
    BY <1>1, <2>1, CutAt DEF PacketSeq
  <2>3. SubSeq(accepted, 1, k + 1) = Append(SubSeq(accepted, 1, k), accepted[k + 1])
    BY <1>1, <2>1, TakeOneMore
  <2>4. /\ Len(Received) < Len(accepted)
        /\ Received' = Append(Received, accepted[Len(Received) + 1])
    BY <1>12, <1>15, <2>2, <2>3
  <2> QED BY <1>13, <2>4 DEF Pipe!Next, Pipe!Deliver
<1> QED BY <1>11, <1>14, <1>15

\* The packet the tcpip task works on is one ip4_input was called with.
Handed == tcpip # "idle" => packet \in { Incoming[i] : i \in 1 .. Len(Incoming) }

\* Every step keeps it so.
LEMMA HandedKept ==
  ASSUME NumbersOK, Handed, [Next]_vars
  PROVE  Handed'
<1>1. CASE Ip4Input
  <2>1. arrived + 1 \in 1 .. Len(Incoming)
    <3>1. Len(Incoming) \in Nat
      BY EspTxAssumption, LenProperties
    <3> QED BY <1>1, <3>1 DEF Ip4Input, NumbersOK
  <2>2. packet' = Incoming[arrived + 1]
    BY <1>1 DEF Ip4Input
  <2> QED BY <2>1, <2>2 DEF Handed
<1>2. CASE UNCHANGED rxVars
  BY <1>2 DEF Handed, rxVars
<1>3. CASE Tcpip
  <2>1. tcpip # "idle" /\ packet' = packet
    BY <1>3 DEF Tcpip, EnqTake, EnqFull, EnqCheck, EnqAlloc, EnqNoElement, EnqNoData,
         EnqLink, EnqCount, EnqGiveUp
  <2> QED BY <2>1 DEF Handed
<1>4. [Next]_vars => Ip4Input \/ Tcpip \/ UNCHANGED rxVars
  <2>1. CASE UNCHANGED vars
    BY <2>1 DEF vars
  <2>2. CASE EventTask \/ Disconnected \/ Transmit
    BY <2>2 DEF EventTask, SendInfo, InfoSent, EchoReceived, Hook, Run, Disconnected, Transmit
  <2>3. CASE Main
    BY <2>3 DEF Main, MainStart, MainLoop, NotifyLinkDown, DeqTake, DeqEmpty, DeqUnlink,
         DeqCount, BuildFrame, FillFifo
  <2> QED BY <2>1, <2>2, <2>3 DEF Next
<1> QED BY <1>1, <1>2, <1>3, <1>4

\* Every step of the three tasks is a step of the pipe or none.
LEMMA StepRefines ==
  ASSUME IInv, Handed, [Next]_vars
  PROVE  [Pipe!Next]_<<accepted, Received>>
<1>1. CASE Transmit
  BY <1>1, TransmitDelivers
<1>2. CASE UNCHANGED <<wire, accepted>>
  <2>1. Received' = Received
    BY <1>2 DEF Received
  <2> QED BY <1>2, <2>1
<1>3. CASE EnqLink
  <2>1. /\ packet \in { Incoming[i] : i \in 1 .. Len(Incoming) }
        /\ accepted' = Append(accepted, packet) /\ wire' = wire
    BY <1>3 DEF EnqLink, Handed, uartVars
  <2>2. Received' = Received
    BY <2>1 DEF Received
  <2> QED BY <2>1, <2>2 DEF Pipe!Next, Pipe!Accept
<1>4. Transmit \/ EnqLink \/ UNCHANGED <<wire, accepted>>
  <2>1. CASE UNCHANGED vars
    BY <2>1 DEF vars, uartVars
  <2>2. CASE EventTask \/ Disconnected \/ Ip4Input
    BY <2>2 DEF EventTask, SendInfo, InfoSent, EchoReceived, Hook, Run, Disconnected,
         Ip4Input, uartVars
  <2>3. CASE Main
    BY <2>3 DEF Main, MainStart, MainLoop, NotifyLinkDown, DeqTake, DeqEmpty, DeqUnlink,
         DeqCount, BuildFrame, FillFifo, uartVars
  <2>4. CASE Tcpip
    BY <2>4 DEF Tcpip, EnqTake, EnqFull, EnqCheck, EnqAlloc, EnqNoElement, EnqNoData,
         EnqCount, EnqGiveUp, uartVars
  <2> QED BY <2>1, <2>2, <2>3, <2>4 DEF Next
<1> QED BY <1>1, <1>2, <1>3, <1>4

\* The three tasks implement the packet pipe: what a receiver reads off the wire
\* is a prefix of what queue_enqueue accepted, and grows one packet at a time.
THEOREM Refines == Spec => ImplementsPipe
<1>1. Init => Pipe!Init
  <2> SUFFICES ASSUME Init PROVE Pipe!Init
    OBVIOUS
  <2>1. wire = <<>> /\ accepted = <<>>
    BY DEF Init
  <2>2. Len(wire) < INFO_LEN + 3
    BY <2>1, FrameAssumption, EmptySeq, SMT
  <2> QED BY <2>1, <2>2 DEF Received, Pipe!Init
<1>2. Init => Handed
  BY DEF Init, Handed
<1>3. IInv /\ Handed /\ [Next]_vars => Handed'
  BY HandedKept DEF IInv
<1>4. IInv /\ Handed /\ [Next]_vars => [Pipe!Next]_<<accepted, Received>>
  BY StepRefines
<1> QED BY <1>1, <1>2, <1>3, <1>4, Invariant, PTL DEF Spec, ImplementsPipe, Pipe!Spec
=============================================================================
