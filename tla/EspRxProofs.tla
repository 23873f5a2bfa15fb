---------------------------- MODULE EspRxProofs -----------------------------
(***************************************************************************)
(* Proofs about EspRx, for every frame limit, fifo depth and byte stream.  *)
(***************************************************************************)
EXTENDS EspRx, FramesProofs

\* While a frame is being collected its length was found in range, by
\* whichever function is reading: DATA bounds every read by MTU_LEN + 3.
LengthInRange == status = "DATA" => uartDataLen \in 1 .. MTU_LEN

\* RetryCoherent, with what keeps it: the terminator was checked before the
\* pbuf was allocated, and only uart2wifi allocates.
RetryInv ==
  send_pbuf # NoPbuf =>
    /\ fn \in {"uart2wifi", "read_uart0"}
    /\ status = "DATA" /\ Len(buf) >= uartDataLen + 3
    /\ buf[uartDataLen + 3] = SPLIT_DATA
    /\ send_pbuf = Payload(buf, uartDataLen)

\* The inductive invariant.
IInv == TypeOK /\ BufferFits /\ LengthInRange /\ RetryInv

\* A length no function refuses is between 1 and MTU_LEN.
LEMMA LenBadBounds ==
  ASSUME NEW f, NEW n \in Int, ~LenBad(f, n)
  PROVE  n \in 1 .. MTU_LEN
BY FrameAssumption, EspRxAssumption DEF LenBad

\* The invariant holds at the start.
THEOREM InitIInv == Init => IInv
<1> SUFFICES ASSUME Init PROVE IInv
  OBVIOUS
<1>1. TypeOK
  <2>1. <<>> \in Seq(Byte) /\ <<>> \in Seq(Seq(Byte))
    BY EmptySeq
  <2>2. sent \in Scenarios /\ line \in Seq(Byte)
    BY EspRxAssumption DEF Init
  <2>3. fn \in Readers /\ status \in Statuses /\ uartDataLen \in Int
    BY DEF Init, Readers, Statuses
  <2>4. returned \in BOOLEAN /\ runFlag \in BOOLEAN
    BY Zenon DEF Init
  <2> QED
    BY <2>1, <2>2, <2>3, <2>4 DEF Init, TypeOK
<1>2. BufferFits
  BY FrameAssumption, EspRxAssumption DEF Init, BufferFits, MAX_FRAME_LEN
<1> QED
  BY <1>1, <1>2 DEF Init, IInv, LengthInRange, RetryInv

\* Bytes reaching the fifo keep the invariant: RTS bounds the fifo.
LEMMA ArriveIInv == ASSUME IInv, NEW n \in 1 .. UART_FIFO_LEN, Arrive(n)
                    PROVE  IInv'
<1> USE DEF IInv
<1>0. n \in 0 .. Len(line)
  BY EspRxAssumption, LenProperties DEF Arrive, TypeOK
<1>1. line' \in Seq(Byte)
  BY <1>0, DropProperties DEF Arrive, TypeOK
<1>2. SubSeq(line, 1, n) \in Seq(Byte) /\ Len(SubSeq(line, 1, n)) = n
  <2>1. \A i \in 1 .. n : line[i] \in Byte
    BY <1>0, ElementOfSeq DEF TypeOK
  <2> QED
    BY <1>0, <2>1, SubSeqProperties
<1>3. fifo' \in Seq(Byte) /\ Len(fifo') = Len(fifo) + n
  BY <1>2, ConcatProperties DEF Arrive, TypeOK
<1>4. TypeOK'
  BY <1>1, <1>3 DEF Arrive, TypeOK
<1>5. BufferFits'
  BY <1>3 DEF Arrive, BufferFits
<1> QED
  BY <1>4, <1>5 DEF Arrive, LengthInRange, RetryInv

\* Reading the fifo keeps the invariant: it happens only below MAX_FRAME_LEN.
LEMMA FillIInv == ASSUME IInv, Fill PROVE IInv'
<1> USE DEF IInv
<1>1. buf' \in Seq(Byte) /\ Len(buf') = Len(buf) + Len(fifo)
  BY ConcatProperties DEF Fill, TypeOK
<1>2. TypeOK'
  BY <1>1, EmptySeq DEF Fill, TypeOK
<1>3. Len(buf) < MAX_FRAME_LEN
  <2>1. CASE status = "DATA"
    BY <2>1, FrameAssumption, LenProperties
    DEF Fill, Hungry, LengthInRange, MAX_FRAME_LEN, TypeOK
  <2>2. CASE status # "DATA"
    BY <2>2, FrameAssumption, EmptySeq
    DEF Fill, Hungry, MAX_FRAME_LEN, TypeOK
  <2> QED
    BY <2>1, <2>2
<1>4. BufferFits'
  <2>1. Len(fifo) \in Nat /\ Len(buf) \in Nat
    BY LenProperties DEF TypeOK
  <2>2. fifo' = <<>>
    BY DEF Fill
  <2>3. Len(fifo') = 0
    BY <2>2, EmptySeq
  <2> QED
    BY <1>1, <1>3, <2>1, <2>3, FrameAssumption, EspRxAssumption
    DEF BufferFits, MAX_FRAME_LEN
<1>5. RetryInv'
  <2>1. send_pbuf = NoPbuf
    BY LenProperties DEF Fill, Hungry, RetryInv, LengthInRange, TypeOK
  <2> QED
    BY <2>1 DEF Fill, RetryInv
<1> QED
  BY <1>2, <1>4, <1>5 DEF Fill, LengthInRange

\* Reading the length keeps the invariant: a bad one leads to STATUS_SPLIT.
LEMMA ReadLenIInv == ASSUME IInv, ReadLen PROVE IInv'
<1> USE DEF IInv
<1>1. FrameLen(buf) \in Int
  BY FrameLenType DEF ReadLen, TypeOK
<1>2. TypeOK'
  BY <1>1 DEF ReadLen, TypeOK, Statuses
<1>3. LengthInRange'
  BY <1>1, LenBadBounds DEF ReadLen, LengthInRange
<1>4. RetryInv'
  BY DEF ReadLen, RetryInv
<1> QED
  BY <1>2, <1>3, <1>4 DEF ReadLen, BufferFits

\* A step that consumes the frame at the head of the buffer.
LEMMA ConsumeProperties ==
  ASSUME IInv, Complete, Consume
  PROVE  /\ buf' \in Seq(Byte) /\ Len(buf') <= MAX_FRAME_LEN + UART_FIFO_LEN
         /\ status' = "LEN" /\ uartDataLen' \in Int
<1> USE DEF IInv
<1>1. Len(buf) \in Nat /\ uartDataLen + 3 \in 0 .. Len(buf)
  BY LenProperties, FrameAssumption DEF Complete, LengthInRange, TypeOK
<1>2. buf' \in Seq(Byte) /\ Len(buf') = Len(buf) - (uartDataLen + 3)
  BY <1>1, DropProperties DEF Consume, TypeOK
<1> QED
  BY <1>1, <1>2, FrameAssumption, EspRxAssumption
  DEF Consume, BufferFits, TypeOK, MAX_FRAME_LEN

\* The payload of a complete frame is a sequence of bytes.
LEMMA CompletePayload ==
  ASSUME IInv, Complete
  PROVE  Payload(buf, uartDataLen) \in Seq(Byte)
BY PayloadType, FrameAssumption DEF IInv, Complete, LengthInRange, TypeOK

\* Accepting ssid, password or echo keeps the invariant.
LEMMA AcceptIInv ==
  ASSUME IInv, AcceptSsid \/ AcceptPasswd \/ AcceptEcho
  PROVE  IInv'
<1> USE DEF IInv
<1>1. Complete /\ Consume
  BY DEF AcceptSsid, AcceptPasswd, AcceptEcho
<1>2. Payload(buf, uartDataLen) \in Seq(Byte)
  BY <1>1, CompletePayload
<1>3. /\ buf' \in Seq(Byte) /\ Len(buf') <= MAX_FRAME_LEN + UART_FIFO_LEN
      /\ status' = "LEN" /\ uartDataLen' \in Int
  BY <1>1, ConsumeProperties
<1>4. /\ fn' \in Readers /\ returned' \in BOOLEAN /\ runFlag' \in BOOLEAN
      /\ UNCHANGED <<line, fifo, send_pbuf, output, sent>>
      /\ ssid' \in Seq(Byte) /\ passwd' \in Seq(Byte)
  BY <1>2 DEF AcceptSsid, AcceptPasswd, AcceptEcho, TypeOK, Readers
<1>5. TypeOK'
  BY <1>3, <1>4 DEF TypeOK, Statuses
<1>6. send_pbuf = NoPbuf
  BY DEF AcceptSsid, AcceptPasswd, AcceptEcho, RetryInv
<1> QED
  BY <1>3, <1>4, <1>5, <1>6 DEF BufferFits, LengthInRange, RetryInv

\* A successful netif->output keeps the invariant: frame and pbuf go together.
LEMMA OutputIInv == ASSUME IInv, Output PROVE IInv'
<1> USE DEF IInv
<1>1. /\ buf' \in Seq(Byte) /\ Len(buf') <= MAX_FRAME_LEN + UART_FIFO_LEN
      /\ status' = "LEN" /\ uartDataLen' \in Int
  BY ConsumeProperties DEF Output, DataReady
<1>2. output' \in Seq(Seq(Byte))
  BY AppendProperties DEF Output, TypeOK
<1>3. TypeOK'
  BY <1>1, <1>2 DEF Output, TypeOK, Statuses
<1> QED
  BY <1>1, <1>3 DEF Output, BufferFits, LengthInRange, RetryInv

\* Allocating the pbuf keeps the invariant: it is the frame in the buffer.
LEMMA AllocIInv == ASSUME IInv, Alloc PROVE IInv'
<1> USE DEF IInv
<1>1. Complete /\ fn = "uart2wifi" /\ buf[uartDataLen + 3] = SPLIT_DATA
  BY DEF Alloc, DataReady, EndBad
<1>2. Payload(buf, uartDataLen) \in Seq(Byte)
  BY <1>1, CompletePayload
<1>3. TypeOK'
  BY <1>2 DEF Alloc, TypeOK
<1>4. RetryInv'
  BY <1>1 DEF Alloc, Complete, RetryInv, Payload
<1> QED
  BY <1>3, <1>4 DEF Alloc, BufferFits, LengthInRange

\* Skipping behind a terminator keeps the invariant.
LEMMA ResyncIInv == ASSUME IInv, NEW i \in 1 .. Len(buf), Resync(i) PROVE IInv'
<1> USE DEF IInv
<1>1. Len(buf) \in Nat /\ i \in 0 .. Len(buf)
  BY LenProperties DEF TypeOK
<1>2. buf' \in Seq(Byte) /\ Len(buf') = Len(buf) - i
  BY <1>1, DropProperties DEF Resync, TypeOK
<1>3. TypeOK'
  BY <1>2 DEF Resync, TypeOK, Statuses
<1>4. BufferFits'
  BY <1>1, <1>2, FrameAssumption, EspRxAssumption
  DEF Resync, BufferFits, MAX_FRAME_LEN
<1> QED
  BY <1>3, <1>4 DEF Resync, LengthInRange, RetryInv

\* Throwing the buffer away keeps the invariant.
LEMMA DiscardIInv == ASSUME IInv, Discard PROVE IInv'
<1> USE DEF IInv
<1>1. buf' \in Seq(Byte) /\ Len(buf') = 0
  BY EmptySeq DEF Discard
<1>2. TypeOK'
  BY <1>1 DEF Discard, TypeOK
<1>3. BufferFits'
  BY <1>1, FrameAssumption, EspRxAssumption DEF Discard, BufferFits, MAX_FRAME_LEN
<1> QED
  BY <1>2, <1>3 DEF Discard, LengthInRange, RetryInv

\* The steps that only move control: they leave every buffer alone.
LEMMA ControlIInv ==
  ASSUME IInv,
         FillNothing \/ Reject \/ AllocFails \/ OutputFails \/ GotIp
           \/ MainLoop \/ Disconnected
  PROVE  IInv'
<1> USE DEF IInv
<1>1. TypeOK'
  BY DEF FillNothing, Reject, AllocFails, OutputFails, GotIp, MainLoop,
         Disconnected, TypeOK, Readers, Statuses
<1>2. BufferFits' /\ LengthInRange'
  BY DEF FillNothing, Reject, AllocFails, OutputFails, GotIp, MainLoop,
         Disconnected, BufferFits, LengthInRange
<1>3. RetryInv'
  <2>1. CASE Reject
    BY <2>1 DEF Reject, Complete, Parsing, Parsers, EndBad, RetryInv
  <2>2. CASE ~Reject
    BY <2>2 DEF FillNothing, AllocFails, OutputFails, GotIp, MainLoop,
                Disconnected, RetryInv, Payload
  <2> QED
    BY <2>1, <2>2
<1> QED
  BY <1>1, <1>2, <1>3

\* read_uart0 keeps the invariant.
LEMMA DummyReadIInv == ASSUME IInv, DummyRead PROVE IInv'
<1> USE DEF IInv
<1>1. fifo' \in Seq(Byte) /\ Len(fifo') = 0
  BY EmptySeq DEF DummyRead
<1> QED
  BY <1>1, EspRxAssumption
  DEF DummyRead, TypeOK, BufferFits, LengthInRange, RetryInv

\* Every step keeps the invariant.
THEOREM NextIInv == IInv /\ [Next]_vars => IInv'
<1> SUFFICES ASSUME IInv, [Next]_vars PROVE IInv'
  OBVIOUS
<1>1. CASE UNCHANGED vars
  BY <1>1 DEF vars, IInv, TypeOK, BufferFits, LengthInRange, RetryInv
<1>2. CASE \E n \in 1 .. UART_FIFO_LEN : Arrive(n)
  BY <1>2, ArriveIInv
<1>3. CASE Parse
  <2>1. CASE \E i \in 1 .. Len(buf) : Resync(i)
    BY <2>1, ResyncIInv
  <2> QED
    BY <1>3, <2>1, FillIInv, ReadLenIInv, AcceptIInv, OutputIInv, AllocIInv,
       DiscardIInv, ControlIInv DEF Parse
<1> QED
  BY <1>1, <1>2, <1>3, ControlIInv, DummyReadIInv DEF Next

\* The parser's variables keep their types for every byte stream.
THEOREM TypeCorrect == Spec => []TypeOK
<1>1. IInv => TypeOK
  BY DEF IInv
<1> QED
  BY <1>1, InitIInv, NextIInv, PTL DEF Spec

\* uartRecvBuffer never overflows, for every MTU_LEN, UART_FIFO_LEN and
\* every byte stream.
THEOREM BufferSafe == Spec => []BufferFits
<1>1. IInv => BufferFits
  BY DEF IInv
<1> QED
  BY <1>1, InitIInv, NextIInv, PTL DEF Spec

\* A retried pbuf is always the frame at the head of the buffer.
THEOREM RetrySafe == Spec => []RetryCoherent
<1>1. IInv => RetryCoherent
  BY DEF IInv, RetryInv, RetryCoherent
<1> QED
  BY <1>1, InitIInv, NextIInv, PTL DEF Spec

-----------------------------------------------------------------------------
(* The credentials.                                                        *)

\* The bytes the parser has not consumed, in the order the host wrote them.
Stream == Cat(buf, Cat(fifo, line))

\* The parser stands at the frame of credential d, behind which comes w.
AtFrame(d, w) ==
  /\ Stream = Cat(Frame(d, SPLIT_CMD), w)
  /\ status \in {"LEN", "DATA"} /\ (status = "DATA" => uartDataLen = Len(d))
  /\ returned = FALSE

\* What the host writes behind its credentials.
Rest(s) == Drop(s.line, Len(Cat(Frame(s.ssid, SPLIT_CMD), Frame(s.passwd, SPLIT_CMD))))

\* The inductive invariant: recv_ssid stands at the ssid frame, recv_passwd at
\* the password frame, so that neither ever skips to a terminator.
Creds ==
  /\ fn = "recv_ssid" =>
       AtFrame(sent.ssid, Cat(Frame(sent.passwd, SPLIT_CMD), Rest(sent)))
  /\ fn = "recv_passwd" => ssid = sent.ssid /\ AtFrame(sent.passwd, Rest(sent))
  /\ fn \notin {"recv_ssid", "recv_passwd"} => ssid = sent.ssid /\ passwd = sent.passwd

\* What the host is assumed to write, in terms of Cat.
LEMMA CredentialHead ==
  ASSUME CredentialsFirst, NEW s \in Scenarios
  PROVE  /\ s.ssid \in Sendable /\ s.passwd \in Sendable
         /\ ~LenBad("recv_ssid", Len(s.ssid)) /\ ~LenBad("recv_passwd", Len(s.passwd))
         /\ Frame(s.ssid, SPLIT_CMD) \in Seq(Byte) /\ Frame(s.passwd, SPLIT_CMD) \in Seq(Byte)
         /\ Rest(s) \in Seq(Byte)
         /\ Cat(Frame(s.passwd, SPLIT_CMD), Rest(s)) \in Seq(Byte)
         /\ s.line = Cat(Frame(s.ssid, SPLIT_CMD), Cat(Frame(s.passwd, SPLIT_CMD), Rest(s)))
<1> DEFINE F == Frame(s.ssid, SPLIT_CMD)
           G == Frame(s.passwd, SPLIT_CMD)
           h == Cat(F, G)
           w == Drop(s.line, Len(h))
<1>1. /\ s.line \in Seq(Byte) /\ s.ssid \in Seq(Byte) /\ s.passwd \in Seq(Byte)
      /\ Len(s.ssid) \in WPA_MIN_SSID_LEN .. WPA_MAX_SSID_LEN
      /\ Len(s.passwd) \in WPA_MIN_PASSWD_LEN .. WPA_MAX_PASSWD_LEN
  BY EspRxAssumption DEF CredentialsFirst
<1>2. Len(h) <= Len(s.line) /\ SubSeq(s.line, 1, Len(h)) = h
  BY Zenon DEF CredentialsFirst, Cat
<1>3. s.ssid \in Sendable /\ s.passwd \in Sendable
  BY <1>1, EspRxAssumption, FrameAssumption DEF Sendable
<1>4. ~LenBad("recv_ssid", Len(s.ssid)) /\ ~LenBad("recv_passwd", Len(s.passwd))
  BY <1>1, EspRxAssumption DEF LenBad
<1>5. F \in Seq(Byte) /\ G \in Seq(Byte)
  BY <1>3, AnyFrameBytes, FrameAssumption
<1>10. w = Rest(s)
  BY DEF Rest
<1> HIDE DEF F, G
<1>6. h \in Seq(Byte) /\ Len(h) \in Nat
  BY <1>5, CatType, LenProperties
<1>7. Len(h) \in 0 .. Len(s.line)
  BY <1>1, <1>2, <1>6, LenProperties
<1> HIDE DEF h
<1>8. w \in Seq(Byte) /\ s.line = Cat(h, w)
  <2>1. w \in Seq(Byte) /\ Cat(SubSeq(s.line, 1, Len(h)), w) = s.line
    BY <1>1, <1>7, DropCut
  <2> QED BY <1>2, <2>1
<1> HIDE DEF w
<1>9. s.line = Cat(F, Cat(G, w)) /\ Cat(G, w) \in Seq(Byte)
  BY <1>5, <1>8, CatAssociative, CatType DEF h
<1> QED BY <1>3, <1>4, <1>5, <1>8, <1>9, <1>10 DEF F, G

\* The invariant holds at the start.
LEMMA InitCreds == ASSUME CredentialsFirst, Init PROVE Creds
<1>1. sent \in Scenarios /\ line = sent.line /\ buf = <<>> /\ fifo = <<>>
  BY DEF Init
<1>2. line \in Seq(Byte)
  BY <1>1, EspRxAssumption
<1>3. Stream = line
  BY <1>1, <1>2, CatEmpty DEF Stream
<1>4. AtFrame(sent.ssid, Cat(Frame(sent.passwd, SPLIT_CMD), Rest(sent)))
  BY <1>1, <1>3, CredentialHead DEF Init, AtFrame
<1> QED BY <1>4 DEF Init, Creds

\* Bytes on their way from the line to the buffer keep their order.
LEMMA StreamKept ==
  ASSUME IInv, (\E n \in 1 .. UART_FIFO_LEN : Arrive(n)) \/ Fill
  PROVE  Stream' = Stream
<1>0. buf \in Seq(Byte) /\ fifo \in Seq(Byte) /\ line \in Seq(Byte)
  BY DEF IInv, TypeOK
<1>1. ASSUME NEW n \in 1 .. UART_FIFO_LEN, Arrive(n) PROVE Stream' = Stream
  <2> DEFINE t == SubSeq(line, 1, n)
             d == Drop(line, n)
  <2>1. n \in 0 .. Len(line)
    BY <1>0, <1>1, EspRxAssumption, LenProperties DEF Arrive
  <2>2. d \in Seq(Byte) /\ t \in Seq(Byte) /\ Cat(t, d) = line
    BY <1>0, <2>1, DropCut
  <2>3. fifo' = Cat(fifo, t) /\ line' = d /\ buf' = buf
    BY <1>1 DEF Arrive, Cat
  <2> HIDE DEF t, d
  <2>4. Cat(Cat(fifo, t), d) = Cat(fifo, Cat(t, d))
    BY <1>0, <2>2, CatAssociative
  <2> QED BY <2>2, <2>3, <2>4 DEF Stream
<1>2. ASSUME Fill PROVE Stream' = Stream
  <2>1. buf' = Cat(buf, fifo) /\ fifo' = <<>> /\ line' = line
    BY <1>2 DEF Fill, Cat
  <2>2. Cat(<<>>, line) = line
    BY <1>0, CatEmpty
  <2>3. Cat(Cat(buf, fifo), line) = Cat(buf, Cat(fifo, line))
    BY <1>0, CatAssociative
  <2> QED BY <2>1, <2>2, <2>3 DEF Stream
<1> QED BY <1>1, <1>2

\* The buffer and what is still to be read.
LEMMA StreamParts ==
  ASSUME IInv
  PROVE  /\ buf \in Seq(Byte) /\ Cat(fifo, line) \in Seq(Byte)
         /\ Stream = Cat(buf, Cat(fifo, line)) /\ Stream \in Seq(Byte)
<1>1. buf \in Seq(Byte) /\ fifo \in Seq(Byte) /\ line \in Seq(Byte)
  BY DEF IInv, TypeOK
<1>2. Cat(fifo, line) \in Seq(Byte)
  BY <1>1, CatType
<1> QED BY <1>1, <1>2, CatType DEF Stream

\* d is what the function fn waits for: any ssid or password, or the echo.
Awaits(d) ==
  /\ d \in Sendable /\ ~LenBad(fn, Len(d))
  /\ \/ fn \in {"recv_ssid", "recv_passwd"}
     \/ fn = "recv_netif_info" /\ d = NetifInfo

\* Reading the length of a command frame: it is the payload's own.
LEMMA CommandLength ==
  ASSUME IInv, ReadLen, NEW d \in Sendable, NEW w \in Seq(Byte), AtFrame(d, w), Awaits(d)
  PROVE  status' = "DATA" /\ uartDataLen' = Len(d)
<1>1. buf \in Seq(Byte) /\ Cat(fifo, line) \in Seq(Byte) /\ SPLIT_CMD \in Byte
  BY StreamParts, FrameAssumption
<1>2. Cat(buf, Cat(fifo, line)) = Cat(Frame(d, SPLIT_CMD), w) /\ Len(buf) >= 2
  BY DEF AtFrame, Stream, ReadLen
<1>3. FrameLen(buf) = Len(d)
  BY <1>1, <1>2, FrontLength
<1> QED BY <1>3, Zenon DEF ReadLen, Awaits

\* A command frame that is complete is accepted, and its payload is what was sent.
LEMMA CommandFrame ==
  ASSUME IInv, Complete, NEW d \in Sendable, NEW w \in Seq(Byte), AtFrame(d, w), Awaits(d)
  PROVE  /\ ~EndBad(fn, buf, uartDataLen) /\ Payload(buf, uartDataLen) = d
         /\ Cat(Drop(buf, uartDataLen + 3), Cat(fifo, line)) = w
<1>1. buf \in Seq(Byte) /\ Cat(fifo, line) \in Seq(Byte) /\ SPLIT_CMD \in Byte
  BY StreamParts, FrameAssumption
<1>2. /\ Cat(buf, Cat(fifo, line)) = Cat(Frame(d, SPLIT_CMD), w)
      /\ uartDataLen = Len(d) /\ Len(buf) >= uartDataLen + 3
  BY DEF AtFrame, Stream, Complete
<1>3. /\ SubSeq(buf, 1, Len(d) + 3) = Frame(d, SPLIT_CMD)
      /\ Payload(buf, Len(d)) = d /\ buf[Len(d) + 3] = SPLIT_CMD
      /\ Cat(Drop(buf, Len(d) + 3), Cat(fifo, line)) = w
  BY <1>1, <1>2, FrontFrame
<1>4. CASE fn \in {"recv_ssid", "recv_passwd"}
  <2>1. ~EndBad(fn, buf, uartDataLen)
    BY <1>2, <1>3, <1>4, Zenon DEF EndBad, CredentialBad
  <2> QED BY <1>2, <1>3, <2>1, Zenon
<1>5. CASE fn = "recv_netif_info" /\ d = NetifInfo
  <2>1. Len(d) = INFO_LEN
    BY <1>5, EspRxAssumption
  <2>2. ~EchoBad(buf, Len(d))
    BY <1>3, <1>5, <2>1, Zenon DEF EchoBad
  <2>3. ~EndBad(fn, buf, Len(d))
    BY <1>5, <2>2 DEF EndBad
  <2> QED BY <1>2, <1>3, <2>3, Zenon
<1> QED BY <1>4, <1>5 DEF Awaits

\* Until the frame is accepted only Arrive, Fill and ReadLen move the parser, and
\* they keep it at its frame.
LEMMA AtFrameKept ==
  ASSUME IInv, [Next]_vars, NEW d \in Sendable, NEW w \in Seq(Byte), AtFrame(d, w), Awaits(d),
         ~AcceptSsid, ~AcceptPasswd, ~AcceptEcho
  PROVE  /\ Stream' = Cat(Frame(d, SPLIT_CMD), w)
         /\ status' \in {"LEN", "DATA"} /\ (status' = "DATA" => uartDataLen' = Len(d))
         /\ returned' = FALSE /\ fn' = fn /\ ssid' = ssid /\ output' = output /\ sent' = sent
<1>0. /\ Stream = Cat(Frame(d, SPLIT_CMD), w) /\ status \in {"LEN", "DATA"}
      /\ (status = "DATA" => uartDataLen = Len(d)) /\ returned = FALSE
  BY DEF AtFrame
<1>1. CASE UNCHANGED vars
  BY <1>0, <1>1 DEF vars, Stream
<1>2. CASE (\E n \in 1 .. UART_FIFO_LEN : Arrive(n)) \/ Fill
  <2>1. Stream' = Stream
    BY <1>2, StreamKept
  <2>2. UNCHANGED <<fn, returned, status, uartDataLen, ssid, output, sent>>
    BY <1>2 DEF Arrive, Fill
  <2> QED BY <1>0, <2>1, <2>2
<1>3. CASE ReadLen
  <2>1. status' = "DATA" /\ uartDataLen' = Len(d)
    BY <1>3, CommandLength
  <2>2. UNCHANGED <<buf, fifo, line, fn, returned, ssid, output, sent>>
    BY <1>3 DEF ReadLen
  <2> QED BY <1>0, <2>1, <2>2 DEF Stream
<1>4. CASE Disconnected
  BY <1>0, <1>4 DEF Disconnected, Stream
<1>5. ~Reject
  BY CommandFrame DEF Reject
<1>6. /\ ~FillNothing /\ ~AllocFails /\ ~Alloc /\ ~OutputFails /\ ~Output
      /\ ~Discard /\ ~GotIp /\ ~MainLoop /\ ~DummyRead
      /\ ~ \E i \in 1 .. Len(buf) : Resync(i)
  BY <1>0 DEF Awaits, FillNothing, AllocFails, Alloc, OutputFails, Output, DataReady,
              Discard, GotIp, MainLoop, DummyRead, Resync
<1> QED BY <1>1, <1>2, <1>3, <1>4, <1>5, <1>6 DEF Next, Parse

\* What each credential's reader waits for.
LEMMA CredentialAwaited ==
  ASSUME CredentialsFirst, IInv
  PROVE  /\ sent \in Scenarios /\ sent.ssid \in Sendable /\ sent.passwd \in Sendable
         /\ Rest(sent) \in Seq(Byte)
         /\ Cat(Frame(sent.passwd, SPLIT_CMD), Rest(sent)) \in Seq(Byte)
         /\ fn = "recv_ssid" => Awaits(sent.ssid)
         /\ fn = "recv_passwd" => Awaits(sent.passwd)
<1>1. sent \in Scenarios
  BY DEF IInv, TypeOK
<1> QED BY <1>1, CredentialHead DEF Awaits

\* The ssid accepted: recv_passwd starts at the password frame.
LEMMA SsidAccepted ==
  ASSUME CredentialsFirst, IInv, Creds, AcceptSsid
  PROVE  Creds'
<1>1. fn = "recv_ssid" /\ Complete
  BY DEF AcceptSsid
<1>2. AtFrame(sent.ssid, Cat(Frame(sent.passwd, SPLIT_CMD), Rest(sent)))
  BY <1>1 DEF Creds
<1>3. /\ Payload(buf, uartDataLen) = sent.ssid
      /\ Cat(Drop(buf, uartDataLen + 3), Cat(fifo, line))
           = Cat(Frame(sent.passwd, SPLIT_CMD), Rest(sent))
  BY <1>1, <1>2, CredentialAwaited, CommandFrame
<1>4. /\ ssid' = sent.ssid /\ sent' = sent /\ fn' = "recv_passwd" /\ status' = "LEN"
      /\ buf' = Drop(buf, uartDataLen + 3) /\ fifo' = fifo /\ line' = line
  BY <1>3 DEF AcceptSsid, Consume
<1>5. returned' = FALSE
  BY <1>2 DEF AcceptSsid, AtFrame
<1>6. AtFrame(sent.passwd, Rest(sent))'
  BY <1>3, <1>4, <1>5 DEF AtFrame, Stream, Rest
<1> QED BY <1>4, <1>6 DEF Creds

\* The password accepted: what is left is what the host wrote behind it.
LEMMA PasswdAccepted ==
  ASSUME CredentialsFirst, IInv, Creds, AcceptPasswd
  PROVE  Creds' /\ Stream' = Rest(sent) /\ status' = "LEN" /\ returned' = FALSE
<1>1. fn = "recv_passwd" /\ Complete
  BY DEF AcceptPasswd
<1>2. AtFrame(sent.passwd, Rest(sent)) /\ ssid = sent.ssid
  BY <1>1 DEF Creds
<1>3. /\ Payload(buf, uartDataLen) = sent.passwd
      /\ Cat(Drop(buf, uartDataLen + 3), Cat(fifo, line)) = Rest(sent)
  BY <1>1, <1>2, CredentialAwaited, CommandFrame
<1>4. /\ passwd' = sent.passwd /\ ssid' = ssid /\ sent' = sent /\ fn' = "connecting"
      /\ buf' = Drop(buf, uartDataLen + 3) /\ fifo' = fifo /\ line' = line /\ status' = "LEN"
  BY <1>3 DEF AcceptPasswd, Consume
<1>5. returned' = FALSE
  BY <1>2 DEF AcceptPasswd, AtFrame
<1> QED BY <1>2, <1>3, <1>4, <1>5 DEF Creds, Stream

\* Every step keeps the invariant.
LEMMA NextCreds == ASSUME CredentialsFirst, IInv, Creds, [Next]_vars PROVE Creds'
<1>1. CASE fn = "recv_ssid" /\ ~AcceptSsid
  <2>1. AtFrame(sent.ssid, Cat(Frame(sent.passwd, SPLIT_CMD), Rest(sent)))
    BY <1>1 DEF Creds
  <2>2. ~AcceptPasswd /\ ~AcceptEcho
    BY <1>1 DEF AcceptPasswd, AcceptEcho
  <2>3. /\ Stream' = Cat(Frame(sent.ssid, SPLIT_CMD), Cat(Frame(sent.passwd, SPLIT_CMD), Rest(sent)))
        /\ status' \in {"LEN", "DATA"} /\ (status' = "DATA" => uartDataLen' = Len(sent.ssid))
        /\ returned' = FALSE /\ fn' = fn /\ sent' = sent
    BY <1>1, <2>1, <2>2, CredentialAwaited, AtFrameKept
  <2>4. AtFrame(sent.ssid, Cat(Frame(sent.passwd, SPLIT_CMD), Rest(sent)))'
    BY <2>3 DEF AtFrame, Rest
  <2> QED BY <1>1, <2>3, <2>4 DEF Creds
<1>2. CASE fn = "recv_passwd" /\ ~AcceptPasswd
  <2>1. AtFrame(sent.passwd, Rest(sent)) /\ ssid = sent.ssid
    BY <1>2 DEF Creds
  <2>2. ~AcceptSsid /\ ~AcceptEcho
    BY <1>2 DEF AcceptSsid, AcceptEcho
  <2>3. /\ Stream' = Cat(Frame(sent.passwd, SPLIT_CMD), Rest(sent))
        /\ status' \in {"LEN", "DATA"} /\ (status' = "DATA" => uartDataLen' = Len(sent.passwd))
        /\ returned' = FALSE /\ fn' = fn /\ ssid' = ssid /\ sent' = sent
    BY <1>2, <2>1, <2>2, CredentialAwaited, AtFrameKept
  <2>4. AtFrame(sent.passwd, Rest(sent))'
    BY <2>3 DEF AtFrame, Rest
  <2> QED BY <1>2, <2>1, <2>3, <2>4 DEF Creds
<1>3. CASE fn \notin {"recv_ssid", "recv_passwd"}
  <2>1. ssid = sent.ssid /\ passwd = sent.passwd
    BY <1>3 DEF Creds
  <2>2. ~AcceptSsid /\ ~AcceptPasswd
    BY <1>3 DEF AcceptSsid, AcceptPasswd
  <2>3. UNCHANGED <<ssid, passwd, sent>> /\ fn' \notin {"recv_ssid", "recv_passwd"}
    BY <1>3, <2>2 DEF Next, vars, Arrive, Parse, Fill, FillNothing, ReadLen, Reject, AcceptEcho,
       AllocFails, Alloc, OutputFails, Output, Resync, Discard, GotIp, MainLoop, Disconnected, DummyRead
  <2> QED BY <2>1, <2>3 DEF Creds
<1> QED BY <1>1, <1>2, <1>3, SsidAccepted, PasswdAccepted

\* The station connects with the credentials the host sent, for every pair of
\* credentials, every line behind them and every way the bytes are portioned out.
THEOREM CredentialsArrive ==
  ASSUME CredentialsFirst
  PROVE  Spec => []CredentialsIntact
<1>1. Init => IInv /\ Creds
  BY InitIInv, InitCreds
<1>2. IInv /\ Creds /\ [Next]_vars => IInv' /\ Creds'
  BY NextIInv, NextCreds
<1>3. Creds => CredentialsIntact
  BY DEF Creds, CredentialsIntact
<1> QED
  BY <1>1, <1>2, <1>3, PTL DEF Spec

-----------------------------------------------------------------------------
(* The packets of a quiet line.                                            *)

\* Packets that uart2wifi accepts.
Whole == { d \in Sendable : Len(d) >= MIN_DATA_LEN }

\* What the host writes behind the echo's frame.
After(s) == Cat(s.tail, DataBytes(s.packets))

\* SPLIT_DATA is the last byte of x, and no other.
OneSplit(x) ==
  /\ Len(x) >= 1 /\ x[Len(x)] = SPLIT_DATA
  /\ \A i \in 1 .. Len(x) - 1 : x[i] # SPLIT_DATA

\* uart2wifi before it has read the length it finds in the rest of the array,
Before ==
  /\ status = "LEN" /\ output = <<>>
  /\ sent.tail # <<>> /\ Stream = After(sent)

\* in search of the end of the first data frame,
Skipping ==
  /\ status = "SPLIT" /\ output = <<>>
  /\ \E x \in Seq(Byte) :
       OneSplit(x) /\ Stream = Cat(x, DataBytes(Tail(sent.packets)))

\* and in step: what it has not read are the frames of the packets r that it has
\* not handed on.
Passing ==
  /\ status \in {"LEN", "DATA"}
  /\ \E r \in Seq(Whole) :
       /\ Stream = DataBytes(r)
       /\ Cat(output, r) = sent.packets \/ Cat(output, r) = Tail(sent.packets)
       /\ status = "DATA" => r # <<>> /\ uartDataLen = Len(Head(r))

\* The inductive invariant.
Quiet ==
  sent.quiet =>
    /\ fn \in {"recv_ssid", "recv_passwd", "connecting", "recv_netif_info"} => output = <<>>
    /\ fn = "connecting" => Stream = Rest(sent) /\ status = "LEN" /\ returned = FALSE
    /\ fn = "recv_netif_info" => AtFrame(NetifInfo, After(sent))
    /\ fn = "uart2wifi" => Before \/ Skipping \/ Passing
    /\ fn = "read_uart0" => returned = FALSE /\ OnlyFirstFrameLost

\* Sequences over a smaller set.
LEMMA SeqMonotone ==
  ASSUME NEW S, NEW T, S \subseteq T, NEW s \in Seq(S)
  PROVE  s \in Seq(T)
<1>1. s \in [1 .. Len(s) -> S] /\ Len(s) \in Nat
  BY LenProperties
<1>2. s \in [1 .. Len(s) -> T]
  BY <1>1
<1> QED BY <1>1, <1>2, SeqDef

\* Packets that uart2wifi accepts can be sent.
LEMMA WholePackets ==
  ASSUME NEW r \in Seq(Whole)
  PROVE  /\ r \in PacketSeq /\ DataBytes(r) \in Seq(Byte)
         /\ r # <<>> =>
              /\ Head(r) \in Sendable /\ Head(r) \in Whole /\ Tail(r) \in Seq(Whole)
              /\ ~LenBad("uart2wifi", Len(Head(r)))
              /\ DataBytes(Tail(r)) \in Seq(Byte)
              /\ DataBytes(r) = Cat(Frame(Head(r), SPLIT_DATA), DataBytes(Tail(r)))
<1>0. Whole \subseteq Sendable
  BY DEF Whole
<1>1. \A t \in Seq(Whole) : t \in PacketSeq /\ DataBytes(t) \in Seq(Byte)
  BY <1>0, SeqMonotone, DataBytesType DEF PacketSeq
<1>2. ASSUME r # <<>>
      PROVE  /\ Head(r) \in Sendable /\ Head(r) \in Whole /\ Tail(r) \in Seq(Whole)
             /\ ~LenBad("uart2wifi", Len(Head(r)))
             /\ DataBytes(Tail(r)) \in Seq(Byte)
             /\ DataBytes(r) = Cat(Frame(Head(r), SPLIT_DATA), DataBytes(Tail(r)))
  <2>1. Head(r) \in Whole /\ Tail(r) \in Seq(Whole)
    BY <1>2, HeadTailProperties
  <2>2. ~LenBad("uart2wifi", Len(Head(r)))
    <3>1. Len(Head(r)) \in 1 .. MTU_LEN /\ Len(Head(r)) >= MIN_DATA_LEN
      BY <2>1 DEF Whole, Sendable
    <3> QED BY <3>1, FrameAssumption DEF LenBad
  <2>3. DataBytes(r) = Cat(Frame(Head(r), SPLIT_DATA), DataBytes(Tail(r)))
    BY <1>1, <1>2, DataBytesTail
  <2> QED BY <1>0, <1>1, <2>1, <2>2, <2>3
<1> QED BY <1>1, <1>2

\* What QuietLines says of a scenario, in terms of Cat.
LEMMA QuietParts ==
  ASSUME CredentialsFirst, QuietLines, NEW s \in Scenarios, s.quiet
  PROVE  /\ s.packets \in Seq(Whole) /\ s.packets # <<>> /\ s.tail \in Seq(Byte)
         /\ After(s) \in Seq(Byte) /\ Rest(s) = Cat(Frame(NetifInfo, SPLIT_CMD), After(s))
         /\ NetifInfo \in Sendable
<1> DEFINE F == Frame(s.ssid, SPLIT_CMD)
           G == Frame(s.passwd, SPLIT_CMD)
           I == Frame(NetifInfo, SPLIT_CMD)
           h == Cat(F, G)
           D == DataBytes(s.packets)
<1>1. /\ s.line = Cat(h, Cat(I, Cat(s.tail, D))) /\ s.packets # <<>>
      /\ \A i \in 1 .. Len(s.packets) : Len(s.packets[i]) \in MIN_DATA_LEN .. MTU_LEN
  BY Zenon DEF QuietLines, Cat
<1>2. s.tail \in Seq(Byte) /\ s.packets \in Seq(Seq(Byte))
  BY EspRxAssumption
<1>3. s.packets \in Seq(Whole)
  <2> DEFINE p == s.packets
  <2>1. p \in [1 .. Len(p) -> Seq(Byte)] /\ Len(p) \in Nat
    BY <1>2, LenProperties
  <2>2. ASSUME NEW i \in 1 .. Len(p) PROVE p[i] \in Whole
    <3>1. p[i] \in Seq(Byte) /\ Len(p[i]) \in MIN_DATA_LEN .. MTU_LEN
      BY <1>1, <2>1
    <3> QED BY <3>1, FrameAssumption DEF Whole, Sendable
  <2> HIDE DEF p
  <2>3. p \in [1 .. Len(p) -> Whole]
    BY <2>1, <2>2
  <2>4. p \in Seq(Whole)
    BY <2>1, <2>3, SeqDef
  <2> QED BY <2>4 DEF p
<1>4. NetifInfo \in Sendable
  BY EspRxAssumption, FrameAssumption DEF Sendable
<1>5. F \in Seq(Byte) /\ G \in Seq(Byte) /\ I \in Seq(Byte) /\ D \in Seq(Byte)
  BY <1>3, <1>4, CredentialHead, WholePackets, AnyFrameBytes, FrameAssumption
<1>6. After(s) = Cat(s.tail, D) /\ Rest(s) = Drop(s.line, Len(h))
  BY DEF After, Rest
<1> HIDE DEF F, G, D
<1>7. h \in Seq(Byte) /\ Cat(s.tail, D) \in Seq(Byte)
  BY <1>2, <1>5, CatType
<1> HIDE DEF I, h
<1>8. Cat(I, Cat(s.tail, D)) \in Seq(Byte)
  BY <1>5, <1>7, CatType
<1>9. Drop(Cat(h, Cat(I, Cat(s.tail, D))), Len(h)) = Cat(I, Cat(s.tail, D))
  BY <1>7, <1>8, DropFront
<1>10. Rest(s) = Cat(I, After(s))
  BY <1>1, <1>6, <1>9
<1> QED BY <1>1, <1>2, <1>3, <1>4, <1>6, <1>7, <1>10 DEF I

\* In step means that nothing else was handed on.
LEMMA PhasesMeanOrder ==
  ASSUME IInv, CredentialsFirst, QuietLines, sent.quiet, Before \/ Skipping \/ Passing
  PROVE  OnlyFirstFrameLost
<1>1. sent \in Scenarios /\ output \in Seq(Seq(Byte))
  BY DEF IInv, TypeOK
<1>2. sent.packets \in Seq(Whole) /\ sent.packets # <<>>
  BY <1>1, QuietParts
<1>3. ASSUME NEW r \in Seq(Whole), NEW P, Cat(output, r) = P
      PROVE  IsPrefixOf(output, P)
  <2>1. r \in Seq(Seq(Byte))
    <3>1. Whole \subseteq Seq(Byte)
      BY DEF Whole, Sendable
    <3> QED BY <3>1, SeqMonotone
  <2>2. P \in Seq(Seq(Byte)) /\ Len(P) = Len(output) + Len(r)
    BY <1>1, <1>3, <2>1, CatType
  <2>3. Len(output) \in Nat /\ Len(r) \in Nat
    BY <1>1, <2>1, LenProperties
  <2>4. Len(output) \in 0 .. Len(P) /\ Len(output) <= Len(P)
    BY <2>2, <2>3
  <2> DEFINE u == SubSeq(P, 1, Len(output))
             v == Drop(P, Len(output))
  <2>5. /\ u \in Seq(Seq(Byte)) /\ v \in Seq(Seq(Byte)) /\ Len(u) = Len(output)
        /\ Cat(u, v) = P
    BY <2>2, <2>4, DropCut
  <2> HIDE DEF u, v
  <2>6. Cat(u, v) = Cat(output, r)
    BY <1>3, <2>5
  <2>7. u = output
    BY <1>1, <2>1, <2>5, <2>6, CatCancel
  <2> QED BY <2>4, <2>7 DEF IsPrefixOf, u
<1>4. CASE output = <<>>
  <2>1. Cat(output, sent.packets) = sent.packets
    BY <1>2, <1>4, CatEmpty
  <2>2. IsPrefixOf(output, sent.packets)
    BY <1>2, <1>3, <2>1
  <2> QED BY <2>2 DEF OnlyFirstFrameLost
<1>5. CASE Passing
  BY <1>2, <1>3, <1>5 DEF Passing, OnlyFirstFrameLost
<1> QED BY <1>4, <1>5 DEF Before, Skipping

\* A step that keeps the stream, the state and the output keeps the phase.
LEMMA PhaseKept ==
  ASSUME Before \/ Skipping \/ Passing, Stream' = Stream,
         UNCHANGED <<status, uartDataLen, output, sent>>
  PROVE  (Before \/ Skipping \/ Passing)'
<1>1. CASE Before
  <2>1. Before'
    BY <1>1 DEF Before, After
  <2> QED BY <2>1
<1>2. CASE Skipping
  <2>1. Skipping'
    BY <1>2 DEF Skipping
  <2> QED BY <2>1
<1>3. CASE Passing
  <2>1. Passing'
    BY <1>3 DEF Passing
  <2> QED BY <2>1
<1> QED BY <1>1, <1>2, <1>3

\* The length that uart2wifi reads: in the rest of the array it is none of a data
\* frame, and from then on it is that of the next packet.
LEMMA ReadLenPhase ==
  ASSUME IInv, CredentialsFirst, QuietLines, FirstFramePlain, sent.quiet,
         fn = "uart2wifi", ReadLen, Before \/ Passing
  PROVE  (Skipping \/ Passing)'
<1>1. sent \in Scenarios
  BY DEF IInv, TypeOK
<1>2. /\ sent.packets \in Seq(Whole) /\ sent.packets # <<>> /\ sent.tail \in Seq(Byte)
  BY <1>1, QuietParts
<1>3. /\ buf \in Seq(Byte) /\ Cat(fifo, line) \in Seq(Byte)
      /\ Stream = Cat(buf, Cat(fifo, line)) /\ Len(buf) >= 2 /\ Len(buf) \in Nat
  BY StreamParts, LenProperties DEF ReadLen
<1>4. Stream' = Stream /\ sent' = sent /\ output' = output /\ uartDataLen' = FrameLen(buf)
  BY DEF ReadLen, Stream
<1>5. CASE Before
  <2> DEFINE t == sent.tail
             h == Head(sent.packets)
             F == Frame(h, SPLIT_DATA)
             R == DataBytes(Tail(sent.packets))
             D == DataBytes(sent.packets)
  <2>1. /\ t # <<>> /\ Len(t) >= 2 /\ FrameLen(t) \notin MIN_DATA_LEN .. MTU_LEN
        /\ \A i \in 1 .. Len(t) : t[i] # SPLIT_DATA
    BY <1>1, <1>5, Zenon DEF Before, QuietLines, Absent
  <2>2. F \in Seq(Byte) /\ R \in Seq(Byte) /\ D = Cat(F, R)
    BY <1>2, WholePackets, DataFrame
  <2>3. OneSplit(F)
    <3>1. h = sent.packets[1]
      BY <1>2
    <3>2. FirstAt(F, SPLIT_DATA, 1, Len(F))
      BY <1>1, <2>1, <3>1, Zenon DEF FirstFramePlain
    <3> QED BY <3>2, <2>2, LenProperties DEF FirstAt, OneSplit
  <2>4. Stream = Cat(t, D) /\ output = <<>>
    BY <1>5 DEF Before, After
  <2> HIDE DEF t, F, R, D
  <2>5. t \in Seq(Byte) /\ Len(t) \in Nat /\ D \in Seq(Byte)
    BY <1>2, <2>2, LenProperties, CatType DEF t
  <2>6. FrameLen(buf) = FrameLen(t)
    <3>1. Starts(buf, Cat(buf, Cat(fifo, line))) /\ Starts(t, Cat(t, D))
      BY <1>3, <2>5, StartsCat
    <3>2. 1 \in 1 .. Len(buf) /\ 2 \in 1 .. Len(buf) /\ 1 \in 1 .. Len(t) /\ 2 \in 1 .. Len(t)
      BY <1>3, <2>1, <2>5
    <3>3. buf[1] = t[1] /\ buf[2] = t[2]
      BY <1>3, <2>4, <3>1, <3>2 DEF Starts
    <3> QED BY <3>3 DEF FrameLen
  <2>7. status' = "SPLIT"
    <3>1. FrameLen(buf) \in Int
      BY <1>3, FrameLenType
    <3>2. LenBad("uart2wifi", FrameLen(buf))
      BY <2>1, <2>6, <3>1, FrameAssumption DEF LenBad
    <3> QED BY <3>2 DEF ReadLen
  <2>8. Stream = Cat(Cat(t, F), R)
    BY <2>2, <2>4, <2>5, CatAssociative
  <2>9. Cat(t, F) \in Seq(Byte) /\ OneSplit(Cat(t, F))
    <3> DEFINE x == Cat(t, F)
    <3>1. x \in Seq(Byte) /\ Len(x) = Len(t) + Len(F) /\ Len(F) \in Nat
      BY <2>2, <2>5, CatType, LenProperties
    <3>2. Starts(t, x) /\ \A i \in 1 .. Len(F) : x[Len(t) + i] = F[i]
      BY <2>2, <2>5, StartsCat
    <3> HIDE DEF x
    <3>3. /\ Len(F) >= 1 /\ F[Len(F)] = SPLIT_DATA
          /\ \A i \in 1 .. Len(F) - 1 : F[i] # SPLIT_DATA
      BY <2>3 DEF OneSplit
    <3>4. Len(x) >= 1 /\ x[Len(x)] = SPLIT_DATA
      <4>1. Len(F) \in 1 .. Len(F)
        BY <3>1, <3>3
      <4> QED BY <2>5, <3>1, <3>2, <3>3, <4>1
    <3>5. ASSUME NEW i \in 1 .. Len(x) - 1 PROVE x[i] # SPLIT_DATA
      <4>1. CASE i <= Len(t)
        BY <2>1, <2>5, <3>1, <3>2, <4>1 DEF Starts
      <4>2. CASE i > Len(t)
        <5>1. i - Len(t) \in 1 .. Len(F) - 1 /\ i - Len(t) \in 1 .. Len(F)
              /\ Len(t) + (i - Len(t)) = i
          BY <2>5, <3>1, <4>2
        <5>2. x[Len(t) + (i - Len(t))] = F[i - Len(t)] /\ F[i - Len(t)] # SPLIT_DATA
          BY <3>2, <3>3, <5>1
        <5> QED BY <5>1, <5>2
      <4> QED BY <2>5, <3>1, <4>1, <4>2
    <3>6. OneSplit(x)
      BY <3>4, <3>5 DEF OneSplit
    <3> QED BY <3>1, <3>6 DEF x
  <2>10. Skipping'
    BY <1>4, <2>4, <2>7, <2>8, <2>9 DEF Skipping, R
  <2> QED BY <2>10
<1>6. CASE Passing
  <2>1. PICK r \in Seq(Whole) :
          /\ Stream = DataBytes(r)
          /\ Cat(output, r) = sent.packets \/ Cat(output, r) = Tail(sent.packets)
    BY <1>6 DEF Passing
  <2>2. r # <<>> /\ FrameLen(buf) = Len(Head(r))
    BY <1>3, <2>1, WholePackets, FirstLength
  <2>3. status' = "DATA"
    BY <2>2, WholePackets DEF ReadLen
  <2>4. Passing'
    BY <1>4, <2>1, <2>2, <2>3 DEF Passing
  <2> QED BY <2>4
<1> QED BY <1>5, <1>6

\* A whole frame in step: the next packet, with its terminator.
LEMMA PassingFrame ==
  ASSUME IInv, fn = "uart2wifi", Complete, NEW r \in Seq(Whole), Stream = DataBytes(r),
         r # <<>>, uartDataLen = Len(Head(r))
  PROVE  /\ ~EndBad(fn, buf, uartDataLen) /\ Payload(buf, uartDataLen) = Head(r)
         /\ Cat(Drop(buf, uartDataLen + 3), Cat(fifo, line)) = DataBytes(Tail(r))
<1>1. buf \in Seq(Byte) /\ Cat(fifo, line) \in Seq(Byte) /\ SPLIT_DATA \in Byte
  BY StreamParts, FrameAssumption
<1>2. /\ Head(r) \in Sendable /\ DataBytes(Tail(r)) \in Seq(Byte)
      /\ Cat(buf, Cat(fifo, line)) = Cat(Frame(Head(r), SPLIT_DATA), DataBytes(Tail(r)))
  BY WholePackets DEF Stream
<1>3. Len(buf) >= Len(Head(r)) + 3
  BY DEF Complete
<1>4. /\ Payload(buf, Len(Head(r))) = Head(r) /\ buf[Len(Head(r)) + 3] = SPLIT_DATA
      /\ Cat(Drop(buf, Len(Head(r)) + 3), Cat(fifo, line)) = DataBytes(Tail(r))
  BY <1>1, <1>2, <1>3, FrontFrame
<1>5. ~EndBad(fn, buf, uartDataLen)
  BY <1>4 DEF EndBad
<1> QED BY <1>4, <1>5

\* The packet in step, as Passing names it.
LEMMA PassingData ==
  ASSUME Before \/ Skipping \/ Passing, status = "DATA"
  PROVE  \E r \in Seq(Whole) :
           /\ Stream = DataBytes(r) /\ r # <<>> /\ uartDataLen = Len(Head(r))
           /\ Cat(output, r) = sent.packets \/ Cat(output, r) = Tail(sent.packets)
BY DEF Before, Skipping, Passing

\* netif->output takes the next packet.
LEMMA OutputPhase ==
  ASSUME IInv, Before \/ Skipping \/ Passing, Output
  PROVE  Passing'
<1>1. Complete /\ fn = "uart2wifi" /\ status = "DATA" /\ send_pbuf # NoPbuf
  BY DEF Output, DataReady, Complete
<1>2. PICK r \in Seq(Whole) :
        /\ Stream = DataBytes(r) /\ r # <<>> /\ uartDataLen = Len(Head(r))
        /\ Cat(output, r) = sent.packets \/ Cat(output, r) = Tail(sent.packets)
  BY <1>1, PassingData
<1>3. /\ Payload(buf, uartDataLen) = Head(r)
      /\ Cat(Drop(buf, uartDataLen + 3), Cat(fifo, line)) = DataBytes(Tail(r))
  BY <1>1, <1>2, PassingFrame
<1>4. send_pbuf = Head(r)
  BY <1>1, <1>3 DEF IInv, RetryInv
<1>5. /\ output' = Append(output, send_pbuf) /\ status' = "LEN" /\ sent' = sent
      /\ buf' = Drop(buf, uartDataLen + 3) /\ fifo' = fifo /\ line' = line
  BY DEF Output, Consume
<1>6. Stream' = DataBytes(Tail(r)) /\ Tail(r) \in Seq(Whole) /\ Head(r) \in Whole
  BY <1>2, <1>3, <1>5, WholePackets DEF Stream
<1>7. Cat(output', Tail(r)) = Cat(output, r)
  <2> DEFINE S == Seq(Byte)
             o == <<Head(r)>>
             q == Tail(r)
  <2>0. Whole \subseteq S
    BY DEF Whole, Sendable
  <2>1. output \in Seq(S) /\ r \in Seq(S) /\ Head(r) \in S
    BY <1>6, <2>0, SeqMonotone DEF IInv, TypeOK
  <2>2. o \in Seq(S) /\ q \in Seq(S) /\ Cat(o, q) = r
    BY <1>2, <2>1, CutHead
  <2>3. output' = Cat(output, o)
    BY <1>4, <1>5, <2>1, CatOne
  <2> HIDE DEF o, q, S
  <2>4. Cat(Cat(output, o), q) = Cat(output, r)
    BY <2>1, <2>2, MoveFront
  <2> QED BY <2>3, <2>4 DEF q
<1> QED BY <1>2, <1>5, <1>6, <1>7 DEF Passing

\* The buffer against the bytes that are skipped: it agrees with them as far as
\* both reach.
LEMMA SkippedPart ==
  ASSUME IInv, NEW x \in Seq(Byte), NEW w \in Seq(Byte), Stream = Cat(x, w)
  PROVE  \A i \in 1 .. Len(buf) : i <= Len(x) => buf[i] = x[i]
<1>1. /\ buf \in Seq(Byte) /\ Cat(fifo, line) \in Seq(Byte)
      /\ Stream = Cat(buf, Cat(fifo, line)) /\ Len(buf) \in Nat /\ Len(x) \in Nat
  BY StreamParts, LenProperties
<1>2. Starts(buf, Cat(buf, Cat(fifo, line))) /\ Starts(x, Cat(x, w))
  BY <1>1, StartsCat
<1>3. /\ \A i \in 1 .. Len(buf) : Stream[i] = buf[i]
      /\ \A i \in 1 .. Len(x) : Stream[i] = x[i]
  BY <1>1, <1>2 DEF Starts
<1>4. \A i \in 1 .. Len(buf) : i <= Len(x) => i \in 1 .. Len(x)
  BY <1>1
<1> QED BY <1>3, <1>4

\* The first terminator found is the end of the first data frame.
LEMMA ResyncPhase ==
  ASSUME IInv, CredentialsFirst, QuietLines, sent.quiet, Skipping, fn = "uart2wifi",
         NEW i \in 1 .. Len(buf), Resync(i)
  PROVE  Passing'
<1> DEFINE T == Tail(sent.packets)
           R == DataBytes(T)
<1>1. sent \in Scenarios
  BY DEF IInv, TypeOK
<1>2. sent.packets \in Seq(Whole) /\ sent.packets # <<>>
  BY <1>1, QuietParts
<1>3. T \in Seq(Whole) /\ R \in Seq(Byte)
  BY <1>2, WholePackets
<1>4. PICK x \in Seq(Byte) : OneSplit(x) /\ Stream = Cat(x, R)
  BY DEF Skipping
<1>5. output = <<>> /\ output' = output /\ status' = "LEN" /\ sent' = sent
      /\ buf' = Drop(buf, i) /\ fifo' = fifo /\ line' = line
  BY DEF Skipping, Resync
<1>6. buf[i] = SPLIT_DATA /\ \A j \in 1 .. i - 1 : buf[j] # SPLIT_DATA
  BY DEF Resync, FirstAt, SplitOf
<1>13. Cat(<<>>, T) = T
  BY <1>3, CatEmpty
<1> HIDE DEF R, T
<1>7. /\ buf \in Seq(Byte) /\ Cat(fifo, line) \in Seq(Byte)
      /\ Stream = Cat(buf, Cat(fifo, line)) /\ Len(buf) \in Nat /\ Len(x) \in Nat
  BY StreamParts, LenProperties
<1>8. \A j \in 1 .. Len(buf) : j <= Len(x) => buf[j] = x[j]
  BY <1>3, <1>4, SkippedPart
<1>9. /\ Len(x) >= 1 /\ x[Len(x)] = SPLIT_DATA
      /\ \A j \in 1 .. Len(x) - 1 : x[j] # SPLIT_DATA
  BY <1>4 DEF OneSplit
<1>10. i = Len(x)
  <2>1. ~ (i < Len(x))
    <3> SUFFICES ASSUME i < Len(x) PROVE FALSE
      OBVIOUS
    <3>1. i \in 1 .. Len(x) - 1 /\ i <= Len(x)
      BY <1>7
    <3> QED BY <1>6, <1>8, <1>9, <3>1
  <2>2. ~ (Len(x) < i)
    <3> SUFFICES ASSUME Len(x) < i PROVE FALSE
      OBVIOUS
    <3>1. Len(x) \in 1 .. i - 1 /\ Len(x) \in 1 .. Len(buf) /\ Len(x) <= Len(x)
      BY <1>7, <1>9
    <3> QED BY <1>6, <1>8, <1>9, <3>1
  <2> QED BY <1>7, <2>1, <2>2
<1>11. Cat(Drop(buf, i), Cat(fifo, line)) = R
  <2> DEFINE q == Cat(fifo, line)
  <2>1. i \in 0 .. Len(buf)
    BY <1>7
  <2>2. Drop(Cat(buf, q), i) = Cat(Drop(buf, i), q)
    BY <1>7, <2>1, DropCat
  <2>3. Drop(Cat(x, R), Len(x)) = R
    BY <1>3, DropFront
  <2> HIDE DEF q
  <2>4. Cat(buf, q) = Cat(x, R)
    BY <1>4, <1>7 DEF q
  <2> QED BY <1>10, <2>2, <2>3, <2>4 DEF q
<1>12. Stream' = DataBytes(T)
  BY <1>5, <1>11 DEF Stream, R
<1> QED BY <1>3, <1>5, <1>12, <1>13 DEF Passing, T

\* A buffer without a terminator ends before the first data frame does.
LEMMA DiscardPhase ==
  ASSUME IInv, CredentialsFirst, QuietLines, sent.quiet, Skipping, fn = "uart2wifi", Discard
  PROVE  Skipping'
<1> DEFINE R == DataBytes(Tail(sent.packets))
           n == Len(buf)
<1>1. sent \in Scenarios
  BY DEF IInv, TypeOK
<1>2. R \in Seq(Byte)
  BY <1>1, QuietParts, WholePackets
<1>3. PICK x \in Seq(Byte) : OneSplit(x) /\ Stream = Cat(x, R)
  BY DEF Skipping
<1>4. output = <<>> /\ output' = output /\ status = "SPLIT" /\ status' = status /\ sent' = sent
      /\ buf' = <<>> /\ fifo' = fifo /\ line' = line
  BY DEF Skipping, Discard
<1>5. \A j \in 1 .. n : buf[j] # SPLIT_DATA
  BY DEF Discard, Absent, SplitOf
<1>6. /\ buf \in Seq(Byte) /\ Cat(fifo, line) \in Seq(Byte)
      /\ Stream = Cat(buf, Cat(fifo, line)) /\ n \in Nat /\ Len(x) \in Nat
  BY StreamParts, LenProperties
<1>14. R' = R
  BY <1>4
<1> HIDE DEF R
<1>7. \A j \in 1 .. Len(buf) : j <= Len(x) => buf[j] = x[j]
  BY <1>2, <1>3, SkippedPart
<1>8. /\ Len(x) >= 1 /\ x[Len(x)] = SPLIT_DATA
      /\ \A j \in 1 .. Len(x) - 1 : x[j] # SPLIT_DATA
  BY <1>3 DEF OneSplit
<1>9. n < Len(x)
  <2> SUFFICES ASSUME ~ (n < Len(x)) PROVE FALSE
    OBVIOUS
  <2>1. Len(x) \in 1 .. n /\ Len(x) <= Len(x)
    BY <1>6, <1>8
  <2> QED BY <1>5, <1>7, <1>8, <2>1
<1> DEFINE y == Drop(x, n)
<1>10. n \in 0 .. Len(x)
  BY <1>6, <1>9
<1>11. y \in Seq(Byte) /\ Len(y) = Len(x) - n /\ Cat(fifo, line) = Cat(y, R)
  <2>1. y \in Seq(Byte) /\ Len(y) = Len(x) - n
    BY <1>10, DropCut
  <2> DEFINE q == Cat(fifo, line)
  <2>2. Drop(Cat(x, R), n) = Cat(y, R)
    BY <1>2, <1>10, DropCat
  <2>3. Drop(Cat(buf, q), n) = q
    BY <1>6, DropFront
  <2> HIDE DEF q, y
  <2>4. Cat(buf, q) = Cat(x, R)
    BY <1>3, <1>6 DEF q
  <2> QED BY <2>1, <2>2, <2>3, <2>4 DEF q
<1>12. OneSplit(y)
  <2>1. \A j \in 1 .. Len(x) - n : y[j] = x[j + n]
    <3>1. \A j \in n + 1 .. Len(x) : x[j] \in Byte
      BY <1>6, ElementOfSeq
    <3>2. \A j \in 1 .. Len(x) - (n + 1) + 1 : y[j] = x[(n + 1) + j - 1]
      BY <1>6, <1>9, <3>1, SubSeqProperties DEF Drop
    <3> HIDE DEF y, n
    <3>3. ASSUME NEW j \in 1 .. Len(x) - n PROVE y[j] = x[j + n]
      <4>1. j \in 1 .. Len(x) - (n + 1) + 1 /\ (n + 1) + j - 1 = j + n
        BY <1>6
      <4>2. y[j] = x[(n + 1) + j - 1]
        BY <3>2, <4>1
      <4> QED BY <4>1, <4>2
    <3> QED BY <3>3
  <2> HIDE DEF y, n
  <2>2. Len(y) >= 1 /\ y[Len(y)] = SPLIT_DATA
    <3>1. Len(y) \in 1 .. Len(x) - n /\ Len(y) + n = Len(x) /\ Len(y) >= 1
      BY <1>6, <1>9, <1>11
    <3>2. y[Len(y)] = x[Len(y) + n]
      BY <2>1, <3>1
    <3> QED BY <1>8, <3>1, <3>2
  <2>3. ASSUME NEW j \in 1 .. Len(y) - 1 PROVE y[j] # SPLIT_DATA
    <3>1. j \in 1 .. Len(x) - n /\ j + n \in 1 .. Len(x) - 1
      BY <1>6, <1>9, <1>11
    <3> QED BY <1>8, <2>1, <3>1
  <2> QED BY <2>2, <2>3 DEF OneSplit
<1>13. Stream' = Cat(y, R)
  <2> HIDE DEF y
  <2>1. Stream' = Cat(<<>>, Cat(fifo, line))
    BY <1>4 DEF Stream
  <2> QED BY <1>6, <1>11, <2>1, CatEmpty
<1> HIDE DEF y
<1> QED BY <1>4, <1>11, <1>12, <1>13 DEF Skipping, R

\* A step of uart2wifi, or of its surroundings, keeps the phase.
LEMMA DataStep ==
  ASSUME IInv, CredentialsFirst, QuietLines, FirstFramePlain, sent.quiet, [Next]_vars,
         fn = "uart2wifi", Before \/ Skipping \/ Passing
  PROVE  (Before \/ Skipping \/ Passing)'
<1>1. CASE (\E n \in 1 .. UART_FIFO_LEN : Arrive(n)) \/ Fill
  <2>1. Stream' = Stream
    BY <1>1, StreamKept
  <2>2. UNCHANGED <<status, uartDataLen, output, sent>>
    BY <1>1 DEF Arrive, Fill
  <2> QED BY <2>1, <2>2, PhaseKept
<1>2. CASE UNCHANGED vars \/ FillNothing \/ AllocFails \/ Alloc \/ OutputFails \/ MainLoop
             \/ Disconnected
  <2>1. UNCHANGED <<buf, fifo, line, status, uartDataLen, output, sent>>
    BY <1>2 DEF vars, FillNothing, AllocFails, Alloc, OutputFails, MainLoop, Disconnected
  <2>2. Stream' = Stream
    BY <2>1 DEF Stream
  <2> QED BY <2>1, <2>2, PhaseKept
<1>3. CASE ReadLen
  <2>1. Before \/ Passing
    BY <1>3 DEF ReadLen, Skipping
  <2> QED BY <1>3, <2>1, ReadLenPhase
<1>4. ~Reject
  <2> SUFFICES ASSUME Reject PROVE FALSE
    OBVIOUS
  <2>1. Complete /\ status = "DATA" /\ EndBad(fn, buf, uartDataLen)
    BY DEF Reject, Complete
  <2>2. \E r \in Seq(Whole) :
          Stream = DataBytes(r) /\ r # <<>> /\ uartDataLen = Len(Head(r))
    BY <2>1, PassingData
  <2> QED BY <2>1, <2>2, PassingFrame
<1>5. CASE Output
  BY <1>5, OutputPhase
<1>6. CASE \E i \in 1 .. Len(buf) : Resync(i)
  <2>1. Skipping
    BY <1>6 DEF Resync, Before, Passing
  <2> QED BY <1>6, <2>1, ResyncPhase
<1>7. CASE Discard
  <2>1. Skipping
    BY <1>7 DEF Discard, Before, Passing
  <2> QED BY <1>7, <2>1, DiscardPhase
<1>8. ~AcceptSsid /\ ~AcceptPasswd /\ ~AcceptEcho /\ ~GotIp /\ ~DummyRead
  BY DEF AcceptSsid, AcceptPasswd, AcceptEcho, GotIp, DummyRead
<1> QED BY <1>1, <1>2, <1>3, <1>4, <1>5, <1>6, <1>7, <1>8 DEF Next, Parse

\* The echo accepted: uart2wifi starts in step, or before the rest of the array.
LEMMA EchoAccepted ==
  ASSUME IInv, CredentialsFirst, QuietLines, sent.quiet, Quiet, AcceptEcho
  PROVE  (Before \/ Passing)' /\ sent' = sent /\ fn' = "uart2wifi"
<1>1. fn = "recv_netif_info" /\ Complete /\ sent \in Scenarios
  BY DEF AcceptEcho, IInv, TypeOK
<1>2. AtFrame(NetifInfo, After(sent)) /\ output = <<>>
  BY <1>1 DEF Quiet
<1>3. /\ NetifInfo \in Sendable /\ After(sent) \in Seq(Byte)
      /\ sent.packets \in Seq(Whole) /\ sent.packets # <<>>
  BY <1>1, QuietParts
<1>4. Awaits(NetifInfo)
  BY <1>1, <1>3, EspRxAssumption DEF Awaits, LenBad
<1>5. Cat(Drop(buf, uartDataLen + 3), Cat(fifo, line)) = After(sent)
  BY <1>1, <1>2, <1>3, <1>4, CommandFrame
<1>6. /\ output' = output /\ status' = "LEN" /\ sent' = sent /\ fn' = "uart2wifi"
      /\ buf' = Drop(buf, uartDataLen + 3) /\ fifo' = fifo /\ line' = line
  BY DEF AcceptEcho, Consume
<1>7. Stream' = After(sent)
  BY <1>5, <1>6 DEF Stream
<1>8. CASE sent.tail # <<>>
  <2>1. Before'
    BY <1>2, <1>6, <1>7, <1>8 DEF Before, After
  <2> QED BY <1>6, <2>1
<1>9. CASE sent.tail = <<>>
  <2>1. DataBytes(sent.packets) \in Seq(Byte)
    BY <1>3, WholePackets
  <2>2. After(sent) = DataBytes(sent.packets)
    BY <1>9, <2>1, CatEmpty DEF After
  <2>3. Cat(output', sent.packets) = sent.packets
    BY <1>2, <1>3, <1>6, CatEmpty
  <2>4. Passing'
    BY <1>3, <1>6, <1>7, <2>2, <2>3 DEF Passing
  <2> QED BY <1>6, <2>4
<1> QED BY <1>8, <1>9

\* Steps while the two credentials are read.
LEMMA QuietCredentials ==
  ASSUME IInv, CredentialsFirst, Creds, Quiet, [Next]_vars, sent.quiet,
         fn \in {"recv_ssid", "recv_passwd"}
  PROVE  Quiet'
<1>0. output = <<>>
  BY DEF Quiet
<1>1. CASE AcceptSsid
  BY <1>0, <1>1 DEF AcceptSsid, Quiet
<1>2. CASE AcceptPasswd
  <2>1. Stream' = Rest(sent) /\ status' = "LEN" /\ returned' = FALSE
    BY <1>2, PasswdAccepted
  <2>2. output' = output /\ fn' = "connecting" /\ sent' = sent
    BY <1>2 DEF AcceptPasswd
  <2> QED BY <1>0, <2>1, <2>2 DEF Quiet, Rest
<1>3. CASE ~AcceptSsid /\ ~AcceptPasswd
  <2>1. ~AcceptEcho
    BY DEF AcceptEcho
  <2>2. output' = output /\ fn' = fn
    <3>1. CASE fn = "recv_ssid"
      <4>1. AtFrame(sent.ssid, Cat(Frame(sent.passwd, SPLIT_CMD), Rest(sent)))
        BY <3>1 DEF Creds
      <4> QED BY <1>3, <2>1, <3>1, <4>1, CredentialAwaited, AtFrameKept
    <3>2. CASE fn = "recv_passwd"
      <4>1. AtFrame(sent.passwd, Rest(sent))
        BY <3>2 DEF Creds
      <4> QED BY <1>3, <2>1, <3>2, <4>1, CredentialAwaited, AtFrameKept
    <3> QED BY <3>1, <3>2
  <2> QED BY <1>0, <2>2 DEF Quiet
<1> QED BY <1>1, <1>2, <1>3

\* Steps between the password and the echo.
LEMMA QuietHandshake ==
  ASSUME IInv, CredentialsFirst, QuietLines, Quiet, [Next]_vars, sent.quiet,
         fn \in {"connecting", "recv_netif_info"}
  PROVE  Quiet'
<1>0. output = <<>> /\ sent \in Scenarios
  BY DEF Quiet, IInv, TypeOK
<1>1. /\ NetifInfo \in Sendable /\ After(sent) \in Seq(Byte)
      /\ Rest(sent) = Cat(Frame(NetifInfo, SPLIT_CMD), After(sent))
  BY <1>0, QuietParts
<1>2. CASE fn = "connecting"
  <2>0. Stream = Rest(sent) /\ status = "LEN" /\ returned = FALSE
    BY <1>2 DEF Quiet
  <2>1. CASE GotIp
    <3>1. /\ UNCHANGED <<buf, fifo, line, status, returned, output, sent>>
          /\ fn' = "recv_netif_info"
      BY <2>1 DEF GotIp
    <3>2. AtFrame(NetifInfo, After(sent))'
      BY <1>1, <2>0, <3>1 DEF AtFrame, Stream, After
    <3> QED BY <1>0, <3>1, <3>2 DEF Quiet
  <2>2. CASE ~GotIp
    <3>1. /\ UNCHANGED <<status, returned, output, sent, fn>>
          /\ (\E n \in 1 .. UART_FIFO_LEN : Arrive(n)) \/ UNCHANGED <<buf, fifo, line>>
      BY <1>2, <2>0, <2>2 DEF Next, vars, Arrive, Parse, Parsing, Parsers, Complete, DataReady,
         Fill, FillNothing, ReadLen, Reject, AcceptSsid, AcceptPasswd, AcceptEcho, AllocFails,
         Alloc, OutputFails, Output, Resync, Discard, MainLoop, Disconnected, DummyRead
    <3>2. Stream' = Stream
      BY <3>1, StreamKept DEF Stream
    <3> QED BY <1>0, <1>2, <2>0, <3>1, <3>2 DEF Quiet, Rest
  <2> QED BY <2>1, <2>2
<1>3. CASE fn = "recv_netif_info"
  <2>1. AtFrame(NetifInfo, After(sent))
    BY <1>3 DEF Quiet
  <2>2. Awaits(NetifInfo)
    BY <1>1, <1>3, EspRxAssumption DEF Awaits, LenBad
  <2>3. CASE AcceptEcho
    BY <2>3, EchoAccepted DEF Quiet
  <2>4. CASE ~AcceptEcho
    <3>1. ~AcceptSsid /\ ~AcceptPasswd
      BY <1>3 DEF AcceptSsid, AcceptPasswd
    <3>2. /\ Stream' = Cat(Frame(NetifInfo, SPLIT_CMD), After(sent))
          /\ status' \in {"LEN", "DATA"} /\ (status' = "DATA" => uartDataLen' = Len(NetifInfo))
          /\ returned' = FALSE /\ fn' = fn /\ output' = output /\ sent' = sent
      BY <1>1, <2>1, <2>2, <2>4, <3>1, AtFrameKept
    <3>3. AtFrame(NetifInfo, After(sent))'
      BY <3>2 DEF AtFrame, After
    <3> QED BY <1>0, <1>3, <3>2, <3>3 DEF Quiet
  <2> QED BY <2>3, <2>4
<1> QED BY <1>2, <1>3

\* Steps of the main loop, and after it.
LEMMA QuietLoop ==
  ASSUME IInv, CredentialsFirst, QuietLines, FirstFramePlain, Quiet, [Next]_vars, sent.quiet,
         fn \in {"uart2wifi", "read_uart0"}
  PROVE  Quiet'
<1>1. sent' = sent
  BY DEF Next, vars, Arrive, Parse, Fill, FillNothing, ReadLen, Reject, AcceptSsid, AcceptPasswd,
     AcceptEcho, AllocFails, Alloc, OutputFails, Output, Resync, Discard, GotIp, MainLoop,
     Disconnected, DummyRead
<1>2. CASE fn = "uart2wifi"
  <2>1. (Before \/ Skipping \/ Passing)'
    BY <1>2, DataStep DEF Quiet
  <2>2. CASE fn' = "uart2wifi"
    BY <2>1, <2>2 DEF Quiet
  <2>3. CASE fn' # "uart2wifi"
    <3>1. MainLoop
      BY <1>2, <2>3 DEF Next, vars, Arrive, Parse, Fill, FillNothing, ReadLen, Reject, AcceptSsid,
         AcceptPasswd, AcceptEcho, AllocFails, Alloc, OutputFails, Output, Resync, Discard, GotIp,
         Disconnected, DummyRead
    <3>2. fn' = "read_uart0" /\ returned' = FALSE /\ output' = output
      BY <2>3, <3>1 DEF MainLoop
    <3>3. OnlyFirstFrameLost
      BY <1>2, PhasesMeanOrder DEF Quiet
    <3>4. OnlyFirstFrameLost'
      BY <1>1, <3>2, <3>3 DEF OnlyFirstFrameLost, IsPrefixOf
    <3> QED BY <3>2, <3>4 DEF Quiet
  <2> QED BY <2>2, <2>3
<1>3. CASE fn = "read_uart0"
  <2>1. returned = FALSE /\ OnlyFirstFrameLost
    BY <1>3 DEF Quiet
  <2>2. UNCHANGED <<fn, output, returned>>
    BY <1>3, <2>1 DEF Next, vars, Arrive, Parse, Parsing, Parsers, Complete, DataReady,
       Fill, FillNothing, ReadLen, Reject, AcceptSsid, AcceptPasswd, AcceptEcho, AllocFails,
       Alloc, OutputFails, Output, Resync, Discard, GotIp, MainLoop, Disconnected, DummyRead
  <2>3. OnlyFirstFrameLost'
    BY <1>1, <2>1, <2>2 DEF OnlyFirstFrameLost, IsPrefixOf
  <2> QED BY <1>3, <2>1, <2>2, <2>3 DEF Quiet
<1> QED BY <1>2, <1>3

\* Every step keeps the invariant.
LEMMA NextQuiet ==
  ASSUME CredentialsFirst, QuietLines, FirstFramePlain, IInv, Creds, Quiet, [Next]_vars
  PROVE  Quiet'
<1>1. sent' = sent
  BY DEF Next, vars, Arrive, Parse, Fill, FillNothing, ReadLen, Reject, AcceptSsid, AcceptPasswd,
     AcceptEcho, AllocFails, Alloc, OutputFails, Output, Resync, Discard, GotIp, MainLoop,
     Disconnected, DummyRead
<1>2. fn \in Readers
  BY DEF IInv, TypeOK
<1>3. CASE ~sent.quiet
  BY <1>1, <1>3 DEF Quiet
<1>4. CASE sent.quiet
  BY <1>2, <1>4, QuietCredentials, QuietHandshake, QuietLoop DEF Readers
<1> QED BY <1>3, <1>4

\* On a quiet line no packet goes out twice, altered or out of order, and the rest
\* of the echoed array costs at most the first data frame, when that frame has no
\* 0x55 inside: for any packets and any way the bytes are portioned out.
THEOREM OnlyFirstLost ==
  ASSUME CredentialsFirst, QuietLines, FirstFramePlain
  PROVE  Spec => []OnlyFirstFrameLost
<1>1. Init => IInv /\ Creds /\ Quiet
  <2>1. Init => Quiet
    BY DEF Init, Quiet
  <2> QED BY <2>1, InitIInv, InitCreds
<1>2. IInv /\ Creds /\ Quiet /\ [Next]_vars => IInv' /\ Creds' /\ Quiet'
  BY NextIInv, NextCreds, NextQuiet
<1>3. IInv /\ Quiet => OnlyFirstFrameLost
  <2> SUFFICES ASSUME IInv, Quiet, sent.quiet PROVE OnlyFirstFrameLost
    BY DEF OnlyFirstFrameLost
  <2>1. sent \in Scenarios /\ fn \in Readers
    BY DEF IInv, TypeOK
  <2>2. CASE output = <<>>
    <3>1. sent.packets \in Seq(Whole)
      BY <2>1, QuietParts
    <3>2. Len(sent.packets) \in Nat /\ Len(output) = 0
      BY <2>2, <3>1, LenProperties, EmptySeq
    <3>3. SubSeq(sent.packets, 1, 0) = <<>>
      BY <3>1, SubSeqEmpty
    <3> QED BY <2>2, <3>2, <3>3 DEF OnlyFirstFrameLost, IsPrefixOf
  <2>3. CASE fn = "uart2wifi"
    BY <2>3, PhasesMeanOrder DEF Quiet
  <2> QED BY <2>1, <2>2, <2>3 DEF Quiet, Readers
<1> QED
  BY <1>1, <1>2, <1>3, PTL DEF Spec
=============================================================================
