---------------------------- MODULE HostTxProofs ----------------------------
(***************************************************************************)
(* Proofs about HostTx for every sequence of packets, in any pieces, every *)
(* size of the tty's buffer that holds the longest frame and the three     *)
(* commands, and any number of resets: the buffer and its bytes, that      *)
(* frames stay whole until a link that was up is lost, and that no packet  *)
(* is sent twice.                                                          *)
(***************************************************************************)
EXTENDS HostTx, InductionProofs

\* What uart_wifi_xmit has written and has still to write is its packet's frame.
InFrame ==
  /\ xmit # "idle" => next <= Len(Packets)
  /\ xmit = "write" => written + SumOf(parts) = FrameSize(next)

\* A packet's byte that was handed to the tty, and <<0, 0>> before the first, is
\* one of an earlier packet or one uart_wifi_xmit has just written.
Written(b, place, p, n) == b[1] < p \/ (place = "write" /\ b[1] = p /\ b[2] <= n)

AllWritten ==
  /\ Written(gone, xmit, next, written)
  /\ \A i \in 1 .. Len(circ) : Written(circ[i], xmit, next, written)

\* Until a link that was up is lost, the work writes only while uart_wifi_xmit is
\* not called, and each of them has the room it needs.
Alone ==
  losses = 0 =>
    /\ carrier => work = "up"
    /\ xmit # "idle" => carrier
    /\ xmit = "write" => Len(circ) + SumOf(parts) <= ROOM
    /\ work \in {"reset", "ssid"} => circ = <<>>
    /\ work = "passwd" => Len(circ) <= CmdLen
    /\ work = "echo" => Len(circ) <= 2 * CmdLen

\* The last byte that was written and not flushed.
Newest == IF circ = <<>> THEN last ELSE circ[Len(circ)]

\* It ends a frame, or uart_wifi_xmit is right behind it.
Joined ==
  losses = 0 /\ work # "reset" =>
    IF xmit = "write" /\ written > 0 THEN Newest = <<next, written>>
                                     ELSE Newest[2] = FrameSize(Newest[1])

\* FramesWhole, by the positions in the buffer.
Chained ==
  /\ circ # <<>> => Follows(last, circ[1])
  /\ \A i \in 1 .. Len(circ) - 1 : Follows(circ[i], circ[i + 1])

Whole == losses = 0 => Chained

IInv ==
  /\ BufferOK /\ XmitOK /\ FlagsOK /\ WorkOK
  /\ InFrame /\ AllWritten /\ SentOnce /\ Alone /\ Joined /\ Whole

-----------------------------------------------------------------------------
(* Sizes.                                                                  *)

ByteSeq == Seq(Int \X Int)

\* What the assumptions on the constants give the steps below.
LEMMA Constants ==
  /\ Packets \in Seq(Seq(Nat)) /\ Len(Packets) \in Nat
  /\ CmdLen \in Nat /\ CmdLen >= 1 /\ ROOM \in Nat /\ ROOM >= 3 * CmdLen /\ MaxResets \in Nat
  /\ SSID = 0 /\ PASSWD = -1 /\ ECHO = -2
<1>1. Len(Packets) \in Nat
  BY HostTxAssumption, LenProperties
<1> QED BY <1>1, HostTxAssumption DEF SSID, PASSWD, ECHO

\* The frame of a packet is three bytes longer than its parts together.
LEMMA PacketSize ==
  ASSUME NEW p \in 1 .. Len(Packets)
  PROVE  /\ Packets[p] \in Seq(Nat) /\ send_len(p) \in Nat
         /\ FrameSize(p) = send_len(p) + 3 /\ FrameSize(p) \in Nat
<1>1. Packets[p] \in Seq(Nat)
  BY HostTxAssumption, ElementOfSeq
<1>2. send_len(p) \in Nat
  BY <1>1, SumOfType DEF send_len
<1>3. p > 0
  BY Constants
<1> QED BY <1>1, <1>2, <1>3 DEF FrameSize

\* The frames of the link work all have the same length.
LEMMA CommandSize ==
  ASSUME NEW f \in {SSID, PASSWD, ECHO}
  PROVE  f \in Int /\ ~ (f > 0) /\ f >= ECHO /\ f \in ECHO .. Len(Packets) /\ FrameSize(f) = CmdLen
<1>1. f \in Int /\ ~ (f > 0) /\ f >= ECHO /\ f \in ECHO .. Len(Packets)
  BY Constants
<1> QED BY <1>1 DEF FrameSize

\* The writes of a frame: the length field, the parts of the packet, the split.
LEMMA PartsOfFrame ==
  ASSUME NEW p \in 1 .. Len(Packets)
  PROVE  /\ <<2>> \o Append(Packets[p], 1) \in Seq(Nat)
         /\ SumOf(<<2>> \o Append(Packets[p], 1)) = FrameSize(p)
<1> DEFINE a == Append(Packets[p], 1)
           s == <<2>> \o a
<1>1. Packets[p] \in Seq(Nat) /\ send_len(p) \in Nat /\ FrameSize(p) = send_len(p) + 3
  BY PacketSize
<1>2. a \in Seq(Nat) /\ SumOf(a) = send_len(p) + 1
  BY <1>1, AppendProperties, SumOfAppend DEF send_len
<1> HIDE DEF a
<1>3. <<2>> \in Seq(Nat) /\ Len(<<2>>) = 1 /\ <<2>>[1] = 2
  OBVIOUS
<1>4. s \in Seq(Nat) /\ s # <<>> /\ Head(s) = 2 /\ Tail(s) = a
  <2>1. s \in Seq(Nat) /\ Len(s) = 1 + Len(a) /\ Len(a) \in Nat
    BY <1>2, <1>3, ConcatProperties, LenProperties
  <2>2. Head(s) = 2 /\ Tail(s) = a
    BY <1>2
  <2>3. s # <<>>
    BY <2>1
  <2> QED BY <2>1, <2>2, <2>3
<1> HIDE DEF s
<1>5. SumOf(s) = Head(s) + SumOf(Tail(s))
  BY <1>4, SumOfTail
<1>6. SumOf(s) = FrameSize(p)
  <2>1. SumOf(s) = 2 + SumOf(a)
    BY <1>4, <1>5, Zenon
  <2> QED BY <1>1, <1>2, <2>1
<1> QED BY <1>4, <1>6 DEF s, a

-----------------------------------------------------------------------------
(* What the operations do to the buffer.                                   *)

\* Write: a part of the bytes, all of them if there is room, behind the others.
Adds(f, from, n) ==
  /\ circ' \in ByteSeq /\ Len(circ) \in Nat /\ Len(circ') \in Nat
  /\ Len(circ) <= Len(circ') /\ Len(circ') <= ROOM /\ Len(circ') <= Len(circ) + n
  /\ Len(circ) + n <= ROOM => Len(circ') = Len(circ) + n
  /\ \A i \in 1 .. Len(circ) : circ'[i] = circ[i]
  /\ \A i \in (Len(circ) + 1) .. Len(circ') : circ'[i] = <<f, from + (i - Len(circ))>>

\* A tty write adds its bytes at the end of the buffer.
LEMMA WriteAdds ==
  ASSUME BufferOK, NEW f \in Int, NEW from \in Nat, NEW n \in Nat, Write(Bytes(f, from, n))
  PROVE  Adds(f, from, n)
<1> DEFINE b == Bytes(f, from, n)
           L == Len(circ)
           m == IF n <= ROOM - L THEN n ELSE ROOM - L
           t == SubSeq(b, 1, m)
<1>1. circ \in ByteSeq /\ L \in Nat /\ L <= ROOM /\ ROOM \in Nat
  BY Constants, LenProperties DEF BufferOK, ByteSeq
<1>2. b \in ByteSeq /\ Len(b) = n /\ \A k \in 1 .. n : b[k] = <<f, from + k>>
  BY DEF Bytes, ByteSeq
<1>3. circ' = circ \o t
  BY <1>2 DEF Write
<1> HIDE DEF b, L
<1>4. m \in 0 .. n /\ L + m <= ROOM /\ (L + n <= ROOM => m = n) /\ m \in Nat
  BY <1>1
<1> HIDE DEF m
<1>5. t \in ByteSeq /\ Len(t) = m /\ \A k \in 1 .. m : t[k] = <<f, from + k>>
  <2>1. \A k \in 1 .. m : b[k] \in Int \X Int
    <3> TAKE k \in 1 .. m
    <3>1. k \in 1 .. n /\ from + k \in Int
      BY <1>4
    <3>2. <<f, from + k>> \in Int \X Int
      BY <3>1
    <3> QED BY <1>2, <3>1, <3>2
  <2>2. t \in Seq(Int \X Int) /\ Len(t) = m /\ \A k \in 1 .. m : t[k] = b[k]
    BY <1>4, <2>1, SubSeqProperties
  <2> HIDE DEF t
  <2> QED BY <1>2, <1>4, <2>2 DEF ByteSeq
<1> HIDE DEF t
<1>6. /\ circ' \in ByteSeq /\ Len(circ') = L + m
      /\ \A i \in 1 .. L + m : circ'[i] = IF i <= L THEN circ[i] ELSE t[i - L]
  <2>1. /\ circ \o t \in Seq(Int \X Int) /\ Len(circ \o t) = Len(circ) + Len(t)
        /\ \A i \in 1 .. Len(circ) + Len(t) :
             (circ \o t)[i] = IF i <= Len(circ) THEN circ[i] ELSE t[i - Len(circ)]
    BY <1>1, <1>5, ConcatProperties DEF ByteSeq
  <2> QED BY <1>3, <1>5, <2>1, Zenon DEF L, ByteSeq
<1>7. \A i \in 1 .. L : circ'[i] = circ[i]
  BY <1>1, <1>4, <1>6
<1>8. ASSUME NEW i \in (L + 1) .. L + m PROVE circ'[i] = <<f, from + (i - L)>>
  <2>1. i \in 1 .. L + m /\ ~ (i <= L) /\ i - L \in 1 .. m
    BY <1>1, <1>4
  <2> QED BY <1>5, <1>6, <2>1
<1>9. L <= L + m /\ L + m <= ROOM /\ L + m <= L + n /\ L + m \in Nat
      /\ (L + n <= ROOM => L + m = L + n)
  BY <1>1, <1>4
<1> QED BY <1>1, <1>6, <1>7, <1>8, <1>9, Zenon DEF Adds, L

\* The last byte of a packet in s, if there is one.
LEMMA LastOfPacketIs ==
  ASSUME NEW s \in ByteSeq
  PROVE  \/ LastOfPacket(s) = gone /\ \A i \in 1 .. Len(s) : ~ (s[i][1] > 0)
         \/ \E m \in 1 .. Len(s) :
              /\ LastOfPacket(s) = s[m] /\ s[m][1] > 0
              /\ \A i \in 1 .. Len(s) : s[i][1] > 0 => i <= m
<1> DEFINE of == { i \in 1 .. Len(s) : s[i][1] > 0 }
           c == CHOOSE i \in of : \A j \in of : j <= i
<1>1. LastOfPacket(s) = IF of = {} THEN gone ELSE s[c]
  BY DEF LastOfPacket
<1>2. CASE of = {}
  BY <1>1, <1>2
<1>3. CASE of # {}
  <2>0. Len(s) \in Nat
    BY LenProperties DEF ByteSeq
  <2>1. \E i \in of : \A j \in of : j <= i
    <3> DEFINE T == { k \in Nat : \E i \in of : k = Len(s) - i }
    <3>1. T \subseteq Nat /\ T # {}
      <4>1. PICK i \in of : TRUE
        BY <1>3
      <4>2. Len(s) - i \in T
        BY <2>0, <4>1
      <4> QED BY <4>2
    <3>2. PICK k \in T : \A y \in T : k <= y
      <4> HIDE DEF T
      <4> QED BY <3>1, LeastNat
    <3>3. PICK i \in of : k = Len(s) - i
      BY <3>2
    <3>4. ASSUME NEW j \in of PROVE j <= i
      <4>1. Len(s) - j \in T
        BY <2>0
      <4>2. k <= Len(s) - j
        BY <3>2, <4>1
      <4> QED BY <2>0, <3>3, <4>2
    <3> QED BY <3>4
  <2>2. c \in of /\ \A j \in of : j <= c
    <3> HIDE DEF of
    <3> QED BY <2>1
  <2>3. LastOfPacket(s) = s[c]
    BY <1>1, <1>3
  <2> HIDE DEF c
  <2> QED BY <2>2, <2>3
<1> QED BY <1>2, <1>3

\* The three commands of the link's start-up.
Command(place, f, then) ==
  \/ place = "ssid" /\ f = SSID /\ then = "passwd"
  \/ place = "passwd" /\ f = PASSWD /\ then = "echo"
  \/ place = "echo" /\ f = ECHO /\ then = "carrier_on"

\* The three writes of the link work.
LEMMA Commands ==
  ASSUME WriteCmd("ssid", SSID, "passwd") \/ WriteCmd("passwd", PASSWD, "echo")
           \/ WriteCmd("echo", ECHO, "carrier_on")
  PROVE  \E place, f, then : Command(place, f, then) /\ WriteCmd(place, f, then)
BY Zenon DEF Command

\* What a write of the link work changes.
LEMMA CommandFacts ==
  ASSUME BufferOK, NEW place, NEW f, NEW then, Command(place, f, then),
         WriteCmd(place, f, then)
  PROVE  /\ f \in {SSID, PASSWD, ECHO} /\ Adds(f, 0, CmdLen)
         /\ UNCHANGED <<last, gone, txVars, wakeVars, carrier, resets, losses>>
         /\ work = place /\ work' = then
<1>1. f \in {SSID, PASSWD, ECHO}
  BY DEF Command
<1>2. f \in Int /\ CmdLen \in Nat
  BY <1>1, CommandSize, Constants
<1>3. Write(Bytes(f, 0, CmdLen))
  BY DEF WriteCmd
<1>4. Adds(f, 0, CmdLen)
  BY <1>2, <1>3, WriteAdds
<1> QED BY <1>1, <1>4 DEF WriteCmd

\* What a write of the transmit path changes.
LEMMA XmitWriteFacts ==
  ASSUME BufferOK, XmitOK, InFrame, XmitWrite
  PROVE  /\ next \in 1 .. Len(Packets) /\ Head(parts) \in Nat
         /\ Adds(next, written, Head(parts))
         /\ written' = written + Head(parts) /\ parts' = Tail(parts) /\ Tail(parts) \in Seq(Nat)
         /\ SumOf(parts') \in Nat /\ SumOf(parts) = Head(parts) + SumOf(parts')
         /\ written + Head(parts) <= FrameSize(next)
         /\ xmit = "write" /\ UNCHANGED <<last, gone, xmit, next, wakeVars, linkVars>>
<1>1. /\ xmit = "write" /\ parts # <<>> /\ parts \in Seq(Nat) /\ written \in Nat
      /\ next \in 1 .. Len(Packets) /\ Write(Bytes(next, written, Head(parts)))
      /\ written' = written + Head(parts) /\ parts' = Tail(parts)
  BY Constants DEF XmitWrite, XmitOK, InFrame
<1>2. Head(parts) \in Nat /\ Tail(parts) \in Seq(Nat)
  BY <1>1, HeadTailProperties
<1>3. Adds(next, written, Head(parts))
  <2>1. next \in Int
    BY <1>1, Constants
  <2> QED BY <1>1, <1>2, <2>1, WriteAdds
<1>4. SumOf(parts) = Head(parts) + SumOf(Tail(parts)) /\ SumOf(Tail(parts)) \in Nat
  BY <1>1, <1>2, SumOfTail, SumOfType
<1>5. written + SumOf(parts) = FrameSize(next)
  BY <1>1 DEF InFrame
<1>6. written + Head(parts) <= FrameSize(next)
  BY <1>1, <1>2, <1>4, <1>5
<1> QED BY <1>1, <1>2, <1>3, <1>4, <1>6 DEF XmitWrite

\* Drain: the first n bytes are gone.
Drained(n) ==
  /\ n \in 1 .. Len(circ) /\ Len(circ) \in Nat
  /\ last' = circ[n]
  /\ circ' \in ByteSeq /\ Len(circ') = Len(circ) - n
  /\ \A i \in 1 .. Len(circ') : circ'[i] = circ[n + i]
  /\ \/ gone' = gone /\ \A i \in 1 .. n : ~ (circ[i][1] > 0)
     \/ \E m \in 1 .. n : gone' = circ[m] /\ circ[m][1] > 0
  /\ UNCHANGED <<txVars, qstopped, linkVars>>

\* The uart takes bytes off the front of the buffer.
LEMMA DrainFacts ==
  ASSUME BufferOK, Drain
  PROVE  \E n : Drained(n)
<1>1. PICK n \in 1 .. Len(circ) :
        /\ last' = circ[n] /\ gone' = LastOfPacket(SubSeq(circ, 1, n))
        /\ circ' = SubSeq(circ, n + 1, Len(circ))
        /\ UNCHANGED <<txVars, qstopped, linkVars>>
  BY DEF Drain
<1>2. circ \in ByteSeq /\ Len(circ) \in Nat /\ n \in Nat
      /\ \A i \in 1 .. Len(circ) : circ[i] \in Int \X Int
  BY LenProperties, ElementOfSeq DEF BufferOK, ByteSeq
<1> DEFINE s == SubSeq(circ, 1, n)
           t == SubSeq(circ, n + 1, Len(circ))
<1>3. s \in ByteSeq /\ Len(s) = n /\ \A i \in 1 .. n : s[i] = circ[i]
  <2>1. \A i \in 1 .. n : circ[i] \in Int \X Int
    BY <1>2
  <2>2. /\ s \in Seq(Int \X Int) /\ Len(s) = IF 1 <= n THEN n - 1 + 1 ELSE 0
        /\ \A i \in 1 .. n - 1 + 1 : s[i] = circ[1 + i - 1]
    BY <1>2, <2>1, SubSeqProperties
  <2> HIDE DEF s
  <2>3. n - 1 + 1 = n /\ \A i \in 1 .. n : 1 + i - 1 = i
    BY <1>2
  <2> QED BY <1>2, <2>2, <2>3 DEF ByteSeq
<1>4. t \in ByteSeq /\ Len(t) = Len(circ) - n /\ \A i \in 1 .. Len(t) : t[i] = circ[n + i]
  <2>1. \A i \in (n + 1) .. Len(circ) : circ[i] \in Int \X Int
    BY <1>2
  <2>2. /\ t \in Seq(Int \X Int)
        /\ Len(t) = IF n + 1 <= Len(circ) THEN Len(circ) - (n + 1) + 1 ELSE 0
        /\ \A i \in 1 .. Len(circ) - (n + 1) + 1 : t[i] = circ[(n + 1) + i - 1]
    BY <1>2, <2>1, SubSeqProperties
  <2> HIDE DEF t
  <2>3. Len(t) = Len(circ) - n
    BY <1>2, <2>2
  <2>4. \A i \in 1 .. Len(t) : i \in 1 .. Len(circ) - (n + 1) + 1 /\ (n + 1) + i - 1 = n + i
    BY <1>2, <2>3
  <2>5. \A i \in 1 .. Len(t) : t[i] = circ[n + i]
    BY <2>2, <2>4
  <2> QED BY <2>2, <2>3, <2>5 DEF ByteSeq
<1> HIDE DEF s, t
<1>5. \/ gone' = gone /\ \A i \in 1 .. n : ~ (circ[i][1] > 0)
      \/ \E m \in 1 .. n : gone' = circ[m] /\ circ[m][1] > 0
  <2>1. \/ LastOfPacket(s) = gone /\ \A i \in 1 .. Len(s) : ~ (s[i][1] > 0)
        \/ \E m \in 1 .. Len(s) : LastOfPacket(s) = s[m] /\ s[m][1] > 0
    BY <1>3, LastOfPacketIs
  <2>2. gone' = LastOfPacket(s)
    BY <1>1 DEF s
  <2> QED BY <1>3, <2>1, <2>2
<1>6. circ' = t
  BY <1>1 DEF t
<1>7. Drained(n)
  BY <1>1, <1>2, <1>4, <1>5, <1>6 DEF Drained
<1> QED BY <1>7

\* Flush: the last byte of a packet that was in the buffer is the last that is gone.
LEMMA FlushFacts ==
  ASSUME BufferOK, Flush
  PROVE  /\ circ' = <<>> /\ circ' \in ByteSeq /\ Len(circ') = 0 /\ last' = last
         /\ gone' = gone \/ \E m \in 1 .. Len(circ) : gone' = circ[m] /\ circ[m][1] > 0
<1>1. circ' = <<>> /\ gone' = LastOfPacket(circ) /\ last' = last
  BY DEF Flush
<1>2. circ \in ByteSeq
  BY DEF BufferOK, ByteSeq
<1>3. gone' = gone \/ \E m \in 1 .. Len(circ) : gone' = circ[m] /\ circ[m][1] > 0
  BY <1>1, <1>2, LastOfPacketIs
<1>4. <<>> \in ByteSeq /\ Len(<<>>) = 0
  BY EmptySeq DEF ByteSeq
<1> QED BY <1>1, <1>3, <1>4

\* The steps that touch the buffer or its history.
LEMMA BufferSteps ==
  ASSUME Next
  PROVE  \/ UNCHANGED <<circ, last, gone>> \/ XmitWrite \/ Drain \/ Flush \/ Reset
         \/ \E place, f, then : Command(place, f, then) /\ WriteCmd(place, f, then)
<1>1. CASE Xmit
  BY <1>1 DEF Xmit, XmitStart, XmitStopQueue, XmitSetBit, XmitDone
<1>2. CASE Drain
  BY <1>2
<1>3. CASE Wakeup
  BY <1>3 DEF Wakeup, WriteWakeup
<1>4. CASE LinkWork
  BY <1>4, Commands DEF LinkWork, CarrierOn
<1>5. CASE LinkDown
  BY <1>5 DEF LinkDown
<1> QED BY <1>1, <1>2, <1>3, <1>4, <1>5 DEF Next

-----------------------------------------------------------------------------
(* Every step keeps the invariant.                                         *)

\* Every step keeps the flags in their types,
LEMMA StepFlags == ASSUME FlagsOK, Next PROVE FlagsOK'
<1> USE DEF FlagsOK, wakeVars, linkVars
<1>1. CASE Xmit
  BY <1>1 DEF Xmit, XmitStart, XmitStopQueue, XmitSetBit, XmitWrite, XmitDone
<1>2. CASE Drain
  <2>1. UNCHANGED <<qstopped, carrier>>
    BY <1>2 DEF Drain
  <2>2. do_wakeup' \in BOOLEAN /\ waking' \subseteq {"uart", "work"}
    BY <1>2 DEF Drain, TtyWakeup
  <2> QED BY <2>1, <2>2
<1>3. CASE Wakeup
  <2>1. PICK who \in {"uart", "work"} : WriteWakeup(who)
    BY <1>3 DEF Wakeup
  <2>2. qstopped' \in BOOLEAN /\ UNCHANGED <<do_wakeup, carrier>>
    BY <2>1 DEF WriteWakeup
  <2>3. waking' \subseteq {"uart", "work"}
    BY <2>1 DEF WriteWakeup
  <2> QED BY <2>2, <2>3
<1>4. CASE LinkWork
  BY <1>4 DEF LinkWork, Flush, TtyWakeup, Reset, WriteCmd, CarrierOn
<1>5. CASE LinkDown
  BY <1>5 DEF LinkDown
<1> QED BY <1>1, <1>2, <1>3, <1>4, <1>5 DEF Next

\* the link work at one of its places,
LEMMA StepWork == ASSUME WorkOK, Next PROVE WorkOK'
<1> USE DEF WorkOK, linkVars
<1>1. CASE Xmit
  BY <1>1 DEF Xmit, XmitStart, XmitStopQueue, XmitSetBit, XmitWrite, XmitDone
<1>2. CASE Drain
  BY <1>2 DEF Drain
<1>3. CASE Wakeup
  BY <1>3 DEF Wakeup, WriteWakeup
<1>4. CASE LinkWork
  BY <1>4 DEF LinkWork, Flush, Reset, WriteCmd, CarrierOn
<1>5. CASE LinkDown
  <2>1. MaxResets \in Nat
    BY Constants
  <2> QED BY <1>5, <2>1 DEF LinkDown
<1> QED BY <1>1, <1>2, <1>3, <1>4, <1>5 DEF Next

\* the transmit path within its frame,
LEMMA StepXmit == ASSUME BufferOK, XmitOK, InFrame, Next PROVE XmitOK' /\ InFrame'
<1>0. Len(Packets) \in Nat
  BY Constants
<1>1. CASE XmitStart
  <2>1. next \in 1 .. Len(Packets)
    BY <1>0, <1>1 DEF XmitStart, XmitOK
  <2> DEFINE s == <<2>> \o Append(Packets[next], 1)
  <2>2. s \in Seq(Nat) /\ SumOf(s) = FrameSize(next)
    BY <2>1, PartsOfFrame
  <2>3. /\ parts' = s /\ written' = 0 /\ next' = next /\ xmit' \in {"write", "stop"}
    BY <1>1 DEF XmitStart
  <2> HIDE DEF s
  <2>4. FrameSize(next) \in Nat /\ 0 + SumOf(s) = FrameSize(next)
    BY <2>1, <2>2, PacketSize
  <2>5. XmitOK'
    BY <2>1, <2>2, <2>3 DEF XmitOK
  <2>6. InFrame'
    <3>1. next' <= Len(Packets)
      BY <1>0, <2>1, <2>3
    <3>2. written' + SumOf(parts') = FrameSize(next')
      BY <2>3, <2>4
    <3> QED BY <3>1, <3>2 DEF InFrame
  <2> QED BY <2>5, <2>6
<1>2. CASE XmitStopQueue \/ XmitSetBit
  BY <1>2 DEF XmitStopQueue, XmitSetBit, XmitOK, InFrame
<1>3. CASE XmitWrite
  <2>1. /\ next \in 1 .. Len(Packets) /\ Head(parts) \in Nat
        /\ written' = written + Head(parts) /\ parts' \in Seq(Nat)
        /\ SumOf(parts') \in Nat /\ SumOf(parts) = Head(parts) + SumOf(parts')
        /\ xmit = "write" /\ next' = next /\ xmit' = xmit
    BY <1>3, XmitWriteFacts
  <2>2. written \in Nat /\ written + SumOf(parts) = FrameSize(next)
    BY <2>1 DEF XmitOK, InFrame
  <2>3. written' \in Nat /\ written' + SumOf(parts') = FrameSize(next)
    BY <2>1, <2>2
  <2>4. next <= Len(Packets)
    BY <1>0, <2>1
  <2> QED BY <2>1, <2>3, <2>4 DEF XmitOK, InFrame
<1>4. CASE XmitDone
  <2>1. xmit' = "idle" /\ next' = next + 1 /\ UNCHANGED <<written, parts>> /\ xmit = "write"
    BY <1>4 DEF XmitDone
  <2>2. next' \in 1 .. Len(Packets) + 1
    BY <1>0, <2>1 DEF XmitOK, InFrame
  <2> QED BY <2>1, <2>2 DEF XmitOK, InFrame
<1>5. CASE UNCHANGED txVars
  BY <1>5 DEF txVars, XmitOK, InFrame
<1>6. Xmit \/ UNCHANGED txVars
  BY DEF Next, Drain, Wakeup, WriteWakeup, LinkWork, Flush, Reset, WriteCmd, CarrierOn, LinkDown
<1> QED BY <1>1, <1>2, <1>3, <1>4, <1>5, <1>6 DEF Xmit

\* A write of bytes of a frame keeps the types of the buffer.
LEMMA AddsKeepsBuffer ==
  ASSUME BufferOK, NEW f \in ECHO .. Len(Packets), NEW from \in Nat, NEW n \in Nat,
         FrameSize(f) \in Nat, from + n <= FrameSize(f), Adds(f, from, n),
         UNCHANGED <<last, gone>>
  PROVE  BufferOK'
<1>1. /\ circ' \in ByteSeq /\ Len(circ) \in Nat /\ Len(circ') \in Nat
      /\ Len(circ) <= Len(circ') /\ Len(circ') <= ROOM /\ Len(circ') <= Len(circ) + n
      /\ \A i \in 1 .. Len(circ) : circ'[i] = circ[i]
      /\ \A i \in (Len(circ) + 1) .. Len(circ') : circ'[i] = <<f, from + (i - Len(circ))>>
  BY DEF Adds
<1>2. ASSUME NEW i \in 1 .. Len(circ')
      PROVE  /\ circ'[i][1] \in ECHO .. Len(Packets)
             /\ circ'[i][2] \in 1 .. FrameSize(circ'[i][1])
  <2>1. CASE i <= Len(circ)
    <3>1. i \in 1 .. Len(circ)
      BY <1>1, <2>1
    <3>2. circ'[i] = circ[i]
      BY <1>1, <3>1
    <3> QED BY <3>1, <3>2 DEF BufferOK
  <2>2. CASE ~ (i <= Len(circ))
    <3>1. i \in (Len(circ) + 1) .. Len(circ')
      BY <1>1, <2>2
    <3>2. circ'[i] = <<f, from + (i - Len(circ))>>
      BY <1>1, <3>1
    <3>3. from + (i - Len(circ)) \in 1 .. FrameSize(f)
      BY <1>1, <3>1
    <3> QED BY <3>2, <3>3
  <2> QED BY <2>1, <2>2
<1> QED BY <1>1, <1>2 DEF BufferOK, ByteSeq

\* A byte of a packet in the buffer is a pair of naturals.
LEMMA PacketByte ==
  ASSUME BufferOK, NEW m \in 1 .. Len(circ), circ[m][1] > 0
  PROVE  circ[m] \in Nat \X Nat
<1>1. circ[m] \in Int \X Int
  BY ElementOfSeq DEF BufferOK
<1>2. circ[m][1] \in Int /\ circ[m][2] \in Int /\ circ[m] = <<circ[m][1], circ[m][2]>>
  BY <1>1
<1>3. circ[m][1] \in Nat
  BY <1>2
<1>4. circ[m][1] \in 1 .. Len(Packets)
  BY <1>2, Constants DEF BufferOK
<1>5. circ[m][2] \in 1 .. FrameSize(circ[m][1]) /\ FrameSize(circ[m][1]) \in Nat
  BY <1>4, PacketSize DEF BufferOK
<1>6. circ[m][2] \in Nat
  BY <1>5
<1> QED BY <1>2, <1>3, <1>6

\* the buffer within its size,
LEMMA StepBuffer == ASSUME BufferOK, XmitOK, InFrame, Next PROVE BufferOK'
<1>0. /\ circ \in ByteSeq /\ Len(circ) \in Nat /\ Len(circ) <= ROOM /\ ROOM \in Nat
      /\ CmdLen \in Nat
  BY LenProperties, Constants DEF BufferOK, ByteSeq
<1>1. CASE UNCHANGED <<circ, last, gone>>
  BY <1>1 DEF BufferOK
<1>2. CASE XmitWrite
  <2>1. /\ next \in 1 .. Len(Packets) /\ Head(parts) \in Nat
        /\ Adds(next, written, Head(parts)) /\ written + Head(parts) <= FrameSize(next)
        /\ UNCHANGED <<last, gone>> /\ written \in Nat
    BY <1>2, XmitWriteFacts DEF XmitOK
  <2>2. next \in ECHO .. Len(Packets) /\ FrameSize(next) \in Nat
    BY <2>1, Constants, PacketSize
  <2> QED BY <2>1, <2>2, AddsKeepsBuffer
<1>3. CASE \E place, f, then : Command(place, f, then) /\ WriteCmd(place, f, then)
  <2>1. PICK place, f, then : Command(place, f, then) /\ WriteCmd(place, f, then)
    BY <1>3
  <2>2. f \in {SSID, PASSWD, ECHO} /\ Adds(f, 0, CmdLen) /\ UNCHANGED <<last, gone>>
    BY <2>1, CommandFacts
  <2>3. f \in ECHO .. Len(Packets) /\ FrameSize(f) = CmdLen
    BY <2>2, CommandSize
  <2>4. 0 \in Nat /\ 0 + CmdLen <= FrameSize(f) /\ FrameSize(f) \in Nat
    BY <1>0, <2>3
  <2> QED BY <1>0, <2>2, <2>3, <2>4, AddsKeepsBuffer
<1>4. CASE Drain
  <2>1. PICK n : Drained(n)
    BY <1>4, DrainFacts
  <2>2. /\ n \in 1 .. Len(circ) /\ last' = circ[n] /\ circ' \in ByteSeq
        /\ Len(circ') = Len(circ) - n /\ \A i \in 1 .. Len(circ') : circ'[i] = circ[n + i]
    BY <2>1 DEF Drained
  <2>3. last' \in Int \X Int
    BY <1>0, <2>2, ElementOfSeq DEF ByteSeq
  <2>4. gone' \in Nat \X Nat
    <3>1. CASE gone' = gone
      BY <3>1 DEF BufferOK
    <3>2. CASE \E m \in 1 .. n : gone' = circ[m] /\ circ[m][1] > 0
      <4>1. PICK m \in 1 .. n : gone' = circ[m] /\ circ[m][1] > 0
        BY <3>2
      <4>2. m \in 1 .. Len(circ)
        BY <1>0, <2>2
      <4> QED BY <4>1, <4>2, PacketByte
    <3> QED BY <2>1, <3>1, <3>2 DEF Drained
  <2>5. Len(circ') <= ROOM
    BY <1>0, <2>2
  <2>6. ASSUME NEW i \in 1 .. Len(circ')
        PROVE  /\ circ'[i][1] \in ECHO .. Len(Packets)
               /\ circ'[i][2] \in 1 .. FrameSize(circ'[i][1])
    <3>1. n + i \in 1 .. Len(circ) /\ circ'[i] = circ[n + i]
      BY <1>0, <2>2
    <3> QED BY <3>1 DEF BufferOK
  <2> QED BY <2>2, <2>3, <2>4, <2>5, <2>6 DEF BufferOK, ByteSeq
<1>5. CASE Flush
  <2>1. /\ circ' = <<>> /\ circ' \in ByteSeq /\ Len(circ') = 0 /\ last' = last
        /\ gone' = gone \/ \E m \in 1 .. Len(circ) : gone' = circ[m] /\ circ[m][1] > 0
    BY <1>5, FlushFacts
  <2>2. gone' \in Nat \X Nat
    BY <2>1, PacketByte DEF BufferOK
  <2> QED BY <1>0, <2>1, <2>2 DEF BufferOK, ByteSeq
<1>6. CASE Reset
  <2>1. circ' = circ /\ gone' = gone /\ last' = <<SSID, CmdLen>>
    BY <1>6 DEF Reset, FrameEnd
  <2>2. last' \in Int \X Int
    BY <1>0, <2>1, Constants
  <2> QED BY <2>1, <2>2 DEF BufferOK
<1> QED BY <1>1, <1>2, <1>3, <1>4, <1>5, <1>6, BufferSteps

\* What was written stays written.
LEMMA WrittenKept ==
  ASSUME XmitOK, Next, NEW b \in Int \X Int, Written(b, xmit, next, written)
  PROVE  Written(b, xmit', next', written')
<1>0. b[1] \in Int /\ b[2] \in Int /\ next \in Int /\ written \in Nat
  BY Constants DEF XmitOK
<1>1. CASE XmitStart
  BY <1>0, <1>1 DEF XmitStart, Written
<1>2. CASE XmitStopQueue \/ XmitSetBit
  BY <1>0, <1>2 DEF XmitStopQueue, XmitSetBit, Written
<1>3. CASE XmitWrite
  <2>1. Head(parts) \in Nat /\ xmit' = xmit /\ next' = next /\ written' = written + Head(parts)
    BY <1>3, HeadTailProperties DEF XmitWrite, XmitOK
  <2>2. b[2] <= written => b[2] <= written'
    BY <1>0, <2>1
  <2> QED BY <2>1, <2>2 DEF Written
<1>4. CASE XmitDone
  <2>1. next' = next + 1 /\ b[1] <= next
    BY <1>0, <1>4 DEF XmitDone, Written
  <2>2. b[1] < next'
    BY <1>0, <2>1
  <2> QED BY <2>2 DEF Written
<1>5. CASE UNCHANGED txVars
  BY <1>5 DEF txVars
<1>6. Xmit \/ UNCHANGED txVars
  BY DEF Next, Drain, Wakeup, WriteWakeup, LinkWork, Flush, Reset, WriteCmd, CarrierOn, LinkDown
<1> QED BY <1>1, <1>2, <1>3, <1>4, <1>5, <1>6 DEF Xmit

\* every byte in the buffer one that was written,
LEMMA StepWritten ==
  ASSUME BufferOK, XmitOK, InFrame, AllWritten, Next
  PROVE  AllWritten'
<1>0. /\ Len(circ) \in Nat /\ gone \in Int \X Int
      /\ \A i \in 1 .. Len(circ) : circ[i] \in Int \X Int
  <2>1. circ \in Seq(Int \X Int) /\ gone \in Nat \X Nat
    BY DEF BufferOK
  <2>2. gone \in Int \X Int
    BY <2>1
  <2> QED BY <2>1, <2>2, LenProperties, ElementOfSeq
<1>1. /\ Written(gone, xmit', next', written')
      /\ \A i \in 1 .. Len(circ) : Written(circ[i], xmit', next', written')
  <2>1. Written(gone, xmit', next', written')
    BY <1>0, WrittenKept DEF AllWritten
  <2>2. ASSUME NEW i \in 1 .. Len(circ) PROVE Written(circ[i], xmit', next', written')
    BY <1>0, WrittenKept DEF AllWritten
  <2> QED BY <2>1, <2>2
<1> SUFFICES /\ Written(gone', xmit', next', written')
             /\ \A i \in 1 .. Len(circ') : Written(circ'[i], xmit', next', written')
  BY DEF AllWritten
<1>2. CASE UNCHANGED <<circ, last, gone>>
  BY <1>1, <1>2
<1>3. CASE XmitWrite
  <2>1. /\ next \in 1 .. Len(Packets) /\ Head(parts) \in Nat
        /\ Adds(next, written, Head(parts)) /\ UNCHANGED <<last, gone>> /\ written \in Nat
        /\ xmit' = "write" /\ next' = next /\ written' = written + Head(parts)
    BY <1>3, XmitWriteFacts DEF XmitOK
  <2>2. ASSUME NEW i \in 1 .. Len(circ') PROVE Written(circ'[i], xmit', next', written')
    <3>0. Len(circ') \in Nat /\ Len(circ') <= Len(circ) + Head(parts)
      BY <2>1 DEF Adds
    <3>1. CASE i <= Len(circ)
      <4>1. i \in 1 .. Len(circ)
        BY <1>0, <3>0, <3>1
      <4> QED BY <1>1, <2>1, <4>1 DEF Adds
    <3>2. CASE ~ (i <= Len(circ))
      <4>1. i \in (Len(circ) + 1) .. Len(circ')
        BY <1>0, <3>0, <3>2
      <4>2. circ'[i] = <<next, written + (i - Len(circ))>>
        BY <2>1, <4>1 DEF Adds
      <4>3. written + (i - Len(circ)) <= written'
        BY <1>0, <2>1, <3>0, <4>1
      <4> QED BY <2>1, <4>2, <4>3 DEF Written
    <3> QED BY <3>1, <3>2
  <2> QED BY <1>1, <2>1, <2>2
<1>4. CASE \E place, f, then : Command(place, f, then) /\ WriteCmd(place, f, then)
  <2>1. PICK place, f, then : Command(place, f, then) /\ WriteCmd(place, f, then)
    BY <1>4
  <2>2. /\ f \in {SSID, PASSWD, ECHO} /\ Adds(f, 0, CmdLen) /\ UNCHANGED <<last, gone>>
        /\ next' = next
    BY <2>1, CommandFacts DEF txVars
  <2>3. f \in Int /\ ~ (f > 0) /\ next \in Nat /\ next >= 1
    BY <2>2, CommandSize, Constants DEF XmitOK
  <2>4. ASSUME NEW i \in 1 .. Len(circ') PROVE Written(circ'[i], xmit', next', written')
    <3>0. Len(circ') \in Nat
      BY <2>2 DEF Adds
    <3>1. CASE i <= Len(circ)
      <4>1. i \in 1 .. Len(circ)
        BY <1>0, <3>0, <3>1
      <4> QED BY <1>1, <2>2, <4>1 DEF Adds
    <3>2. CASE ~ (i <= Len(circ))
      <4>1. i \in (Len(circ) + 1) .. Len(circ')
        BY <1>0, <3>0, <3>2
      <4>2. circ'[i] = <<f, 0 + (i - Len(circ))>>
        BY <2>2, <4>1 DEF Adds
      <4>3. circ'[i][1] < next'
        BY <2>2, <2>3, <4>2
      <4> QED BY <4>3 DEF Written
    <3> QED BY <3>1, <3>2
  <2> QED BY <1>1, <2>2, <2>4
<1>5. CASE Drain
  <2>1. PICK n : Drained(n)
    BY <1>5, DrainFacts
  <2>2. n \in 1 .. Len(circ) /\ Len(circ') = Len(circ) - n
    BY <2>1 DEF Drained
  <2>3. gone' = gone \/ \E m \in 1 .. Len(circ) : gone' = circ[m]
    <3>1. \A m \in 1 .. n : m \in 1 .. Len(circ)
      BY <1>0, <2>2
    <3> QED BY <2>1, <3>1 DEF Drained
  <2>4. \A i \in 1 .. Len(circ') : n + i \in 1 .. Len(circ) /\ circ'[i] = circ[n + i]
    <3>1. \A i \in 1 .. Len(circ') : n + i \in 1 .. Len(circ)
      BY <1>0, <2>2
    <3> QED BY <2>1, <3>1 DEF Drained
  <2> QED BY <1>1, <2>3, <2>4
<1>6. CASE Flush
  <2>1. Len(circ') = 0 /\ (gone' = gone \/ \E m \in 1 .. Len(circ) : gone' = circ[m])
    BY <1>6, FlushFacts
  <2> QED BY <1>1, <2>1
<1>7. CASE Reset
  <2>1. circ' = circ /\ gone' = gone
    BY <1>7 DEF Reset
  <2> QED BY <1>1, <2>1
<1> QED BY <1>2, <1>3, <1>4, <1>5, <1>6, <1>7, BufferSteps

\* no packet on the line twice,
LEMMA StepOnce ==
  ASSUME BufferOK, XmitOK, InFrame, AllWritten, SentOnce, Next
  PROVE  SentOnce'
<1>0. /\ Len(circ) \in Nat /\ gone \in Nat \X Nat
      /\ \A i \in 1 .. Len(circ) : circ[i] \in Int \X Int
  <2>1. circ \in Seq(Int \X Int) /\ gone \in Nat \X Nat
    BY DEF BufferOK
  <2> QED BY <2>1, LenProperties, ElementOfSeq
<1>1. /\ \A j \in 1 .. Len(circ) : circ[j][1] > 0 => Before(gone, circ[j])
      /\ \A j \in 1 .. Len(circ) : \A i \in 1 .. (j - 1) :
           circ[j][1] > 0 /\ circ[i][1] > 0 => Before(circ[i], circ[j])
  BY DEF SentOnce
<1> SUFFICES /\ \A j \in 1 .. Len(circ') : circ'[j][1] > 0 => Before(gone', circ'[j])
             /\ \A j \in 1 .. Len(circ') : \A i \in 1 .. (j - 1) :
                  circ'[j][1] > 0 /\ circ'[i][1] > 0 => Before(circ'[i], circ'[j])
  BY DEF SentOnce
<1>2. CASE UNCHANGED <<circ, last, gone>>
  BY <1>1, <1>2
<1>3. CASE XmitWrite
  <2>1. /\ next \in Int /\ Head(parts) \in Nat /\ xmit = "write"
        /\ Adds(next, written, Head(parts)) /\ gone' = gone /\ written \in Nat
    BY <1>3, XmitWriteFacts, Constants DEF XmitOK
  <2>2. /\ Len(circ') \in Nat /\ \A i \in 1 .. Len(circ) : circ'[i] = circ[i]
        /\ \A i \in (Len(circ) + 1) .. Len(circ') :
             circ'[i] = <<next, written + (i - Len(circ))>>
    BY <2>1 DEF Adds
  <2>3. ASSUME NEW b \in Int \X Int, Written(b, xmit, next, written),
               NEW j \in (Len(circ) + 1) .. Len(circ')
        PROVE  Before(b, circ'[j])
    <3>1. circ'[j] = <<next, written + (j - Len(circ))>> /\ b[1] \in Int /\ b[2] \in Int
      BY <2>2, <2>3
    <3>2. b[2] <= written => b[2] < written + (j - Len(circ))
      BY <1>0, <2>1, <2>2, <3>1
    <3> QED BY <2>3, <3>1, <3>2 DEF Written, Before
  <2>4. ASSUME NEW j \in 1 .. Len(circ'), circ'[j][1] > 0
        PROVE  /\ Before(gone, circ'[j])
               /\ \A i \in 1 .. (j - 1) : circ'[i][1] > 0 => Before(circ'[i], circ'[j])
    <3>1. CASE j <= Len(circ)
      <4>1. j \in 1 .. Len(circ) /\ \A i \in 1 .. (j - 1) : i \in 1 .. Len(circ)
        BY <1>0, <2>2, <3>1
      <4> QED BY <1>1, <2>2, <2>4, <4>1
    <3>2. CASE ~ (j <= Len(circ))
      <4>1. j \in (Len(circ) + 1) .. Len(circ')
        BY <1>0, <2>2, <3>2
      <4>2. Before(gone, circ'[j])
        <5>1. gone \in Int \X Int
          BY <1>0
        <5> QED BY <2>3, <4>1, <5>1 DEF AllWritten
      <4>3. ASSUME NEW i \in 1 .. (j - 1) PROVE Before(circ'[i], circ'[j])
        <5>1. CASE i <= Len(circ)
          <6>1. i \in 1 .. Len(circ)
            BY <1>0, <4>1, <5>1
          <6>2. circ'[i] = circ[i] /\ circ[i] \in Int \X Int
                /\ Written(circ[i], xmit, next, written)
            BY <1>0, <2>2, <6>1 DEF AllWritten
          <6> QED BY <2>3, <4>1, <6>2
        <5>2. CASE ~ (i <= Len(circ))
          <6>1. i \in (Len(circ) + 1) .. Len(circ')
            BY <1>0, <2>2, <4>1, <5>2
          <6>2. /\ circ'[i] = <<next, written + (i - Len(circ))>>
                /\ circ'[j] = <<next, written + (j - Len(circ))>>
            BY <2>2, <4>1, <6>1
          <6>3. written + (i - Len(circ)) < written + (j - Len(circ))
            BY <1>0, <2>1, <4>1, <6>1
          <6> QED BY <6>2, <6>3 DEF Before
        <5> QED BY <5>1, <5>2
      <4> QED BY <4>2, <4>3
    <3> QED BY <3>1, <3>2
  <2> QED BY <2>1, <2>4
<1>4. CASE \E place, f, then : Command(place, f, then) /\ WriteCmd(place, f, then)
  <2>1. PICK place, f, then : Command(place, f, then) /\ WriteCmd(place, f, then)
    BY <1>4
  <2>2. f \in {SSID, PASSWD, ECHO} /\ Adds(f, 0, CmdLen) /\ gone' = gone
    BY <2>1, CommandFacts
  <2>3. ~ (f > 0)
    BY <2>2, CommandSize
  <2>4. /\ Len(circ') \in Nat /\ \A i \in 1 .. Len(circ) : circ'[i] = circ[i]
        /\ \A i \in (Len(circ) + 1) .. Len(circ') : circ'[i] = <<f, 0 + (i - Len(circ))>>
    BY <2>2 DEF Adds
  <2>5. ASSUME NEW j \in 1 .. Len(circ'), circ'[j][1] > 0 PROVE j \in 1 .. Len(circ)
    <3> SUFFICES ASSUME ~ (j \in 1 .. Len(circ)) PROVE FALSE
      OBVIOUS
    <3>1. j \in (Len(circ) + 1) .. Len(circ')
      BY <1>0, <2>4
    <3>2. circ'[j][1] = f
      BY <2>4, <3>1
    <3> QED BY <2>3, <2>5, <3>2
  <2>6. \A j \in 1 .. Len(circ) : \A i \in 1 .. (j - 1) : i \in 1 .. Len(circ)
    BY <1>0
  <2> QED BY <1>1, <2>2, <2>4, <2>5, <2>6
<1>5. CASE Drain
  <2>1. PICK n : Drained(n)
    BY <1>5, DrainFacts
  <2>2. /\ n \in 1 .. Len(circ) /\ Len(circ') = Len(circ) - n
        /\ \A i \in 1 .. Len(circ') : circ'[i] = circ[n + i]
    BY <2>1 DEF Drained
  <2>3. ASSUME NEW j \in 1 .. Len(circ')
        PROVE  /\ n + j \in 1 .. Len(circ) /\ \A m \in 1 .. n : m \in 1 .. ((n + j) - 1)
               /\ \A i \in 1 .. (j - 1) : n + i \in 1 .. ((n + j) - 1) /\ i \in 1 .. Len(circ')
    BY <1>0, <2>2
  <2>4. ASSUME NEW j \in 1 .. Len(circ'), circ'[j][1] > 0 PROVE Before(gone', circ'[j])
    <3>1. circ'[j] = circ[n + j]
      BY <2>2
    <3>2. CASE gone' = gone
      BY <1>1, <2>3, <2>4, <3>1, <3>2
    <3>3. CASE \E m \in 1 .. n : gone' = circ[m] /\ circ[m][1] > 0
      BY <1>1, <2>3, <2>4, <3>1, <3>3
    <3> QED BY <2>1, <3>2, <3>3 DEF Drained
  <2>5. ASSUME NEW j \in 1 .. Len(circ'), NEW i \in 1 .. (j - 1),
               circ'[j][1] > 0, circ'[i][1] > 0
        PROVE  Before(circ'[i], circ'[j])
    <3>1. circ'[j] = circ[n + j] /\ circ'[i] = circ[n + i]
      BY <2>2, <2>3
    <3> QED BY <1>1, <2>3, <2>5, <3>1
  <2> QED BY <2>4, <2>5
<1>6. CASE Flush
  <2>1. Len(circ') = 0
    BY <1>6, FlushFacts
  <2> QED BY <2>1
<1>7. CASE Reset
  <2>1. circ' = circ /\ gone' = gone
    BY <1>7 DEF Reset
  <2> QED BY <1>1, <2>1
<1> QED BY <1>2, <1>3, <1>4, <1>5, <1>6, <1>7, BufferSteps

\* Once lost, a link that was up stays counted.
LEMMA LossStays ==
  ASSUME WorkOK, Next, losses' = 0
  PROVE  losses = 0 /\ (LinkDown => work # "up")
<1>1. losses \in Nat
  BY DEF WorkOK
<1>2. CASE LinkDown
  BY <1>1, <1>2 DEF LinkDown
<1>3. CASE ~ LinkDown
  <2>1. losses' = losses
    BY <1>3 DEF Next, Xmit, XmitStart, XmitStopQueue, XmitSetBit, XmitWrite, XmitDone, Drain,
         Wakeup, WriteWakeup, LinkWork, Flush, Reset, WriteCmd, CarrierOn, linkVars
  <2> QED BY <1>3, <2>1
<1> QED BY <1>2, <1>3

\* the two writers apart,
LEMMA StepAlone ==
  ASSUME BufferOK, XmitOK, FlagsOK, WorkOK, InFrame, Alone, Next
  PROVE  Alone'
<1> SUFFICES ASSUME losses' = 0
             PROVE  /\ carrier' => work' = "up"
                    /\ xmit' # "idle" => carrier'
                    /\ xmit' = "write" => Len(circ') + SumOf(parts') <= ROOM
                    /\ work' \in {"reset", "ssid"} => circ' = <<>>
                    /\ work' = "passwd" => Len(circ') <= CmdLen
                    /\ work' = "echo" => Len(circ') <= 2 * CmdLen
  BY DEF Alone
<1>0. /\ Len(circ) \in Nat /\ Len(circ) <= ROOM /\ ROOM \in Nat /\ CmdLen \in Nat
      /\ Len(<<>>) = 0 /\ SumOf(parts) \in Nat
  BY LenProperties, EmptySeq, Constants, SumOfType DEF BufferOK, XmitOK
<1>1. losses = 0 /\ (LinkDown => work # "up")
  BY LossStays
<1>2. /\ carrier => work = "up"
      /\ xmit # "idle" => carrier
      /\ xmit = "write" => Len(circ) + SumOf(parts) <= ROOM
      /\ work \in {"reset", "ssid"} => circ = <<>>
      /\ work = "passwd" => Len(circ) <= CmdLen
      /\ work = "echo" => Len(circ) <= 2 * CmdLen
  BY <1>1 DEF Alone
<1>3. CASE XmitStart
  <2>1. /\ UNCHANGED <<circ, work, carrier>> /\ carrier /\ next <= Len(Packets)
        /\ parts' = <<2>> \o Append(Packets[next], 1)
        /\ xmit' = IF HasRoom(next) THEN "write" ELSE "stop"
    BY <1>3 DEF XmitStart, linkVars
  <2>2. next \in 1 .. Len(Packets)
    BY <2>1, Constants DEF XmitOK
  <2>3. SumOf(parts') = FrameSize(next) /\ FrameSize(next) = send_len(next) + 3
        /\ send_len(next) \in Nat
    BY <2>1, <2>2, PartsOfFrame, PacketSize
  <2>4. xmit' = "write" => Len(circ') + SumOf(parts') <= ROOM
    <3> SUFFICES ASSUME xmit' = "write" PROVE Len(circ) + SumOf(parts') <= ROOM
      BY <2>1
    <3>1. ROOM - Len(circ) >= send_len(next) + 3
      BY <2>1 DEF HasRoom
    <3> QED BY <1>0, <2>3, <3>1
  <2> QED BY <1>2, <2>1, <2>4
<1>4. CASE XmitStopQueue \/ XmitSetBit \/ XmitDone
  BY <1>2, <1>4 DEF XmitStopQueue, XmitSetBit, XmitDone, linkVars
<1>5. CASE XmitWrite
  <2>1. /\ Head(parts) \in Nat /\ Adds(next, written, Head(parts))
        /\ SumOf(parts') \in Nat /\ SumOf(parts) = Head(parts) + SumOf(parts')
        /\ xmit = "write" /\ UNCHANGED <<xmit, work, carrier>>
    BY <1>5, XmitWriteFacts DEF linkVars
  <2>2. Len(circ') \in Nat /\ Len(circ') <= Len(circ) + Head(parts)
    BY <2>1 DEF Adds
  <2>3. Len(circ') + SumOf(parts') <= ROOM
    <3>1. Len(circ) + SumOf(parts) <= ROOM
      BY <1>2, <2>1
    <3> QED BY <1>0, <2>1, <2>2, <3>1
  <2> QED BY <1>2, <2>1, <2>3
<1>6. CASE Drain
  <2>1. PICK n : Drained(n)
    BY <1>6, DrainFacts
  <2>2. /\ n \in 1 .. Len(circ) /\ Len(circ') = Len(circ) - n
        /\ UNCHANGED <<xmit, parts, work, carrier>>
    BY <2>1 DEF Drained, txVars, linkVars
  <2>3. circ # <<>> /\ Len(circ') \in Nat /\ Len(circ') <= Len(circ)
    BY <1>0, <2>2
  <2>4. xmit' = "write" => Len(circ') + SumOf(parts') <= ROOM
    <3>1. parts' = parts /\ xmit' = xmit
      BY <2>2
    <3> QED BY <1>0, <1>2, <2>3, <3>1
  <2>5. work' = "passwd" => Len(circ') <= CmdLen
    BY <1>0, <1>2, <2>2, <2>3
  <2>6. work' = "echo" => Len(circ') <= 2 * CmdLen
    BY <1>0, <1>2, <2>2, <2>3
  <2> QED BY <1>2, <2>2, <2>3, <2>4, <2>5, <2>6
<1>7. CASE Wakeup
  <2>1. UNCHANGED <<circ, xmit, parts, work, carrier>>
    BY <1>7 DEF Wakeup, WriteWakeup, txVars, linkVars
  <2> QED BY <1>2, <2>1
<1>8. CASE Flush
  <2>1. work = "flush" /\ work' = "reset" /\ circ' = <<>> /\ UNCHANGED <<xmit, carrier>>
    BY <1>8 DEF Flush, txVars
  <2> QED BY <1>2, <2>1
<1>9. CASE Reset
  <2>1. work = "reset" /\ work' = "ssid" /\ UNCHANGED <<circ, xmit, carrier>>
    BY <1>9 DEF Reset, txVars
  <2> QED BY <1>2, <2>1
<1>10. CASE \E place, f, then : Command(place, f, then) /\ WriteCmd(place, f, then)
  <2>1. PICK place, f, then : Command(place, f, then) /\ WriteCmd(place, f, then)
    BY <1>10
  <2>2. Adds(f, 0, CmdLen) /\ work = place /\ work' = then /\ UNCHANGED <<xmit, carrier>>
    BY <2>1, CommandFacts DEF txVars
  <2>3. Len(circ') \in Nat /\ Len(circ') <= Len(circ) + CmdLen
    BY <2>2 DEF Adds
  <2>4. work # "up" /\ work' \notin {"reset", "ssid", "up"}
    BY <2>1, <2>2 DEF Command
  <2>5. work' = "passwd" => Len(circ') <= CmdLen
    <3> SUFFICES ASSUME work' = "passwd" PROVE Len(circ') <= CmdLen
      OBVIOUS
    <3>1. work = "ssid"
      BY <2>1, <2>2 DEF Command
    <3>2. Len(circ) = 0
      BY <1>0, <1>2, <3>1
    <3> QED BY <1>0, <2>3, <3>2
  <2>6. work' = "echo" => Len(circ') <= 2 * CmdLen
    <3> SUFFICES ASSUME work' = "echo" PROVE Len(circ') <= 2 * CmdLen
      OBVIOUS
    <3>1. work = "passwd"
      BY <2>1, <2>2 DEF Command
    <3> QED BY <1>0, <1>2, <2>3, <3>1
  <2> QED BY <1>2, <2>2, <2>4, <2>5, <2>6
<1>11. CASE CarrierOn
  <2>1. work = "carrier_on" /\ work' = "up" /\ carrier' = TRUE /\ UNCHANGED <<circ, xmit>>
    BY <1>11 DEF CarrierOn, txVars
  <2> QED BY <1>2, <2>1
<1>12. CASE LinkDown
  <2>1. work # "up" /\ work' = "flush" /\ UNCHANGED <<circ, xmit, carrier>>
    BY <1>1, <1>12 DEF LinkDown, txVars
  <2> QED BY <1>2, <2>1
<1> QED BY <1>3, <1>4, <1>5, <1>6, <1>7, <1>8, <1>9, <1>10, <1>11, <1>12, Commands
  DEF Next, Xmit, LinkWork

\* Bytes that continue the newest one are joined to it.
LEMMA AddsJoins ==
  ASSUME BufferOK, Chained, NEW f, NEW from \in Nat, NEW n \in Nat, Adds(f, from, n),
         last' = last, Follows(Newest, <<f, from + 1>>)
  PROVE  /\ Chained'
         /\ Len(circ) + n <= ROOM => Newest' = IF n = 0 THEN Newest ELSE <<f, from + n>>
<1> DEFINE L == Len(circ)
           M == Len(circ')
<1>1. /\ circ' \in ByteSeq /\ L \in Nat /\ M \in Nat /\ L <= M
      /\ (L + n <= ROOM => M = L + n)
      /\ \A i \in 1 .. L : circ'[i] = circ[i]
      /\ \A i \in (L + 1) .. M : circ'[i] = <<f, from + (i - L)>>
  BY DEF Adds
<1>2. circ \in Seq(Int \X Int) /\ (circ = <<>> <=> L = 0) /\ (circ' = <<>> <=> M = 0)
  BY <1>1, EmptySeq DEF BufferOK, ByteSeq
<1>3. Newest = IF L = 0 THEN last ELSE circ[L]
  BY <1>2 DEF Newest
<1>4. Newest' = IF M = 0 THEN last ELSE circ'[M]
  BY <1>2 DEF Newest
<1>5. /\ L # 0 => Follows(last, circ[1])
      /\ \A i \in 1 .. L - 1 : Follows(circ[i], circ[i + 1])
  BY <1>2 DEF Chained
<1>6. M # 0 => Follows(last, circ'[1])
  <2> SUFFICES ASSUME M # 0 PROVE Follows(last, circ'[1])
    OBVIOUS
  <2>1. CASE L = 0
    <3>1. 1 \in (L + 1) .. M /\ from + (1 - L) = from + 1
      BY <1>1, <2>1
    <3>2. circ'[1] = <<f, from + 1>>
      BY <1>1, <3>1
    <3> QED BY <1>3, <2>1, <3>2
  <2>2. CASE L # 0
    <3>1. 1 \in 1 .. L
      BY <1>1, <2>2
    <3> QED BY <1>1, <1>5, <2>2, <3>1
  <2> QED BY <2>1, <2>2
<1>7. ASSUME NEW i \in 1 .. M - 1 PROVE Follows(circ'[i], circ'[i + 1])
  <2>1. CASE i < L
    <3>1. i \in 1 .. L /\ i + 1 \in 1 .. L /\ i \in 1 .. L - 1
      BY <1>1, <2>1
    <3>2. circ'[i] = circ[i] /\ circ'[i + 1] = circ[i + 1]
      BY <1>1, <3>1
    <3> QED BY <1>5, <3>1, <3>2
  <2>2. CASE i = L
    <3>1. L \in 1 .. L /\ L + 1 \in (L + 1) .. M /\ from + ((L + 1) - L) = from + 1 /\ L # 0
      BY <1>1, <2>2
    <3>2. circ'[L] = circ[L] /\ circ'[L + 1] = <<f, from + 1>>
      BY <1>1, <3>1
    <3> QED BY <1>3, <2>2, <3>1, <3>2
  <2>3. CASE i > L
    <3>1. /\ i \in (L + 1) .. M /\ i + 1 \in (L + 1) .. M
          /\ from + ((i + 1) - L) = (from + (i - L)) + 1
      BY <1>1, <2>3
    <3>2. /\ circ'[i] = <<f, from + (i - L)>>
          /\ circ'[i + 1] = <<f, (from + (i - L)) + 1>>
      BY <1>1, <3>1
    <3> QED BY <3>2 DEF Follows
  <2> QED BY <1>1, <2>1, <2>2, <2>3
<1>8. Chained'
  BY <1>2, <1>6, <1>7 DEF Chained
<1>9. ASSUME L + n <= ROOM PROVE Newest' = IF n = 0 THEN Newest ELSE <<f, from + n>>
  <2>1. M = L + n
    BY <1>1, <1>9
  <2>2. CASE n = 0
    <3>1. M = L
      BY <1>1, <2>1, <2>2
    <3>2. L # 0 => circ'[L] = circ[L]
      <4>1. L # 0 => L \in 1 .. L
        BY <1>1
      <4> QED BY <1>1, <4>1
    <3> QED BY <1>3, <1>4, <2>2, <3>1, <3>2
  <2>3. CASE n # 0
    <3>1. M # 0 /\ M \in (L + 1) .. M /\ from + (M - L) = from + n
      BY <1>1, <2>1, <2>3
    <3>2. circ'[M] = <<f, from + n>>
      BY <1>1, <3>1
    <3> QED BY <1>4, <2>3, <3>1, <3>2
  <2> QED BY <2>2, <2>3
<1> QED BY <1>8, <1>9

\* Bytes that leave from the front leave the chain and its newest byte as they are.
LEMMA DrainJoins ==
  ASSUME BufferOK, Chained, NEW n, Drained(n)
  PROVE  Chained' /\ Newest' = Newest
<1> DEFINE L == Len(circ)
           M == Len(circ')
<1>1. /\ n \in 1 .. L /\ L \in Nat /\ last' = circ[n] /\ circ' \in ByteSeq /\ M = L - n
      /\ \A i \in 1 .. M : circ'[i] = circ[n + i]
  BY DEF Drained
<1>2. (circ = <<>> <=> L = 0) /\ (circ' = <<>> <=> M = 0) /\ M \in Nat /\ L # 0
  BY <1>1, EmptySeq, LenProperties DEF BufferOK, ByteSeq
<1>3. \A i \in 1 .. L - 1 : Follows(circ[i], circ[i + 1])
  BY DEF Chained
<1>4. M # 0 => Follows(last', circ'[1])
  <2> SUFFICES ASSUME M # 0 PROVE Follows(last', circ'[1])
    OBVIOUS
  <2>1. n \in 1 .. L - 1 /\ 1 \in 1 .. M
    BY <1>1, <1>2
  <2> QED BY <1>1, <1>3, <2>1
<1>5. ASSUME NEW i \in 1 .. M - 1 PROVE Follows(circ'[i], circ'[i + 1])
  <2>1. i \in 1 .. M /\ i + 1 \in 1 .. M /\ n + i \in 1 .. L - 1 /\ n + (i + 1) = (n + i) + 1
    BY <1>1, <1>2
  <2>2. circ'[i] = circ[n + i] /\ circ'[i + 1] = circ[(n + i) + 1]
    BY <1>1, <2>1
  <2> QED BY <1>3, <2>1, <2>2
<1>6. Newest' = Newest
  <2>1. CASE M = 0
    <3>1. n = L
      BY <1>1, <2>1
    <3> QED BY <1>1, <1>2, <2>1, <3>1 DEF Newest
  <2>2. CASE M # 0
    <3>1. M \in 1 .. M /\ n + M = L
      BY <1>1, <1>2, <2>2
    <3>2. circ'[M] = circ[L]
      BY <1>1, <3>1
    <3> QED BY <1>2, <2>2, <3>2 DEF Newest
  <2> QED BY <2>1, <2>2
<1> QED BY <1>2, <1>4, <1>5, <1>6 DEF Chained

\* A frame may begin behind the newest byte, or go on behind it.
LEMMA MayFollow ==
  ASSUME NEW b, NEW f, NEW from,
         (b[2] = FrameSize(b[1]) /\ from = 0) \/ b = <<f, from>>
  PROVE  Follows(b, <<f, from + 1>>)
<1>1. CASE b = <<f, from>>
  BY <1>1 DEF Follows
<1>2. CASE b[2] = FrameSize(b[1]) /\ from = 0
  BY <1>2 DEF Follows
<1> QED BY <1>1, <1>2

\* and the frames on the line whole.
LEMMA StepJoined ==
  ASSUME BufferOK, XmitOK, FlagsOK, WorkOK, InFrame, Alone, Joined, Whole, Next
  PROVE  Joined' /\ Whole'
<1> SUFFICES ASSUME losses' = 0
             PROVE  /\ Chained'
                    /\ work' # "reset" =>
                         IF xmit' = "write" /\ written' > 0
                           THEN Newest' = <<next', written'>>
                           ELSE Newest'[2] = FrameSize(Newest'[1])
  BY DEF Joined, Whole
<1>0. /\ Len(circ) \in Nat /\ ROOM \in Nat /\ CmdLen \in Nat /\ CmdLen >= 1
      /\ ROOM >= 3 * CmdLen /\ written \in Nat /\ Len(<<>>) = 0 /\ circ \in Seq(Int \X Int)
  BY LenProperties, EmptySeq, Constants DEF BufferOK, XmitOK
<1>1. losses = 0 /\ (LinkDown => work # "up") /\ Chained
  BY LossStays DEF Whole
<1>2. /\ carrier => work = "up"
      /\ xmit # "idle" => carrier
      /\ xmit = "write" => Len(circ) + SumOf(parts) <= ROOM
      /\ work \in {"reset", "ssid"} => circ = <<>>
      /\ work = "passwd" => Len(circ) <= CmdLen
      /\ work = "echo" => Len(circ) <= 2 * CmdLen
  BY <1>1 DEF Alone
<1>3. work # "reset" =>
        IF xmit = "write" /\ written > 0 THEN Newest = <<next, written>>
                                         ELSE Newest[2] = FrameSize(Newest[1])
  BY <1>1 DEF Joined
<1>4. ASSUME UNCHANGED <<circ, last>> PROVE Chained' /\ Newest' = Newest
  BY <1>1, <1>4 DEF Chained, Newest
<1>5. CASE XmitStart
  <2>1. xmit = "idle" /\ carrier /\ written' = 0 /\ UNCHANGED <<circ, last, work>>
    BY <1>5 DEF XmitStart, linkVars
  <2> QED BY <1>2, <1>3, <1>4, <2>1
<1>6. CASE XmitStopQueue \/ XmitSetBit
  <2>1. xmit # "write" /\ xmit' # "write" /\ UNCHANGED <<circ, last, work>>
    BY <1>6 DEF XmitStopQueue, XmitSetBit, linkVars
  <2> QED BY <1>2, <1>3, <1>4, <2>1
<1>7. CASE XmitDone
  <2>1. xmit = "write" /\ parts = <<>> /\ xmit' = "idle" /\ UNCHANGED <<circ, last, work>>
    BY <1>7 DEF XmitDone, linkVars
  <2>2. next \in 1 .. Len(Packets) /\ written + SumOf(parts) = FrameSize(next)
    BY <2>1, Constants DEF InFrame, XmitOK
  <2>3. FrameSize(next) = send_len(next) + 3 /\ send_len(next) \in Nat
    BY <2>2, PacketSize
  <2>4. SumOf(parts) = 0
    BY <2>1, SumOfEmpty
  <2>5. written = FrameSize(next) /\ written > 0
    BY <1>0, <2>2, <2>3, <2>4
  <2>6. Newest = <<next, written>>
    BY <1>2, <1>3, <2>1, <2>5
  <2>7. Newest'[2] = FrameSize(Newest'[1])
    BY <1>4, <2>1, <2>5, <2>6
  <2> QED BY <1>4, <2>1, <2>7
<1>8. CASE XmitWrite
  <2>1. /\ Head(parts) \in Nat /\ Adds(next, written, Head(parts))
        /\ SumOf(parts') \in Nat /\ SumOf(parts) = Head(parts) + SumOf(parts')
        /\ written' = written + Head(parts)
        /\ xmit = "write" /\ UNCHANGED <<xmit, next, last, work>>
    BY <1>8, XmitWriteFacts DEF linkVars
  <2>2. work # "reset" /\ Len(circ) + SumOf(parts) <= ROOM
    BY <1>2, <2>1
  <2>3. (Newest[2] = FrameSize(Newest[1]) /\ written = 0) \/ Newest = <<next, written>>
    BY <1>0, <1>3, <2>1, <2>2
  <2>4. Follows(Newest, <<next, written + 1>>)
    BY <2>3, MayFollow
  <2>5. Len(circ) + Head(parts) <= ROOM
    BY <1>0, <2>1, <2>2
  <2>6. /\ Chained'
        /\ Newest' = IF Head(parts) = 0 THEN Newest ELSE <<next, written + Head(parts)>>
    BY <1>0, <1>1, <2>1, <2>4, <2>5, AddsJoins
  <2>7. CASE Head(parts) = 0
    <3>1. written' = written /\ Newest' = Newest
      BY <1>0, <2>1, <2>6, <2>7
    <3> QED BY <1>3, <2>1, <2>2, <2>6, <3>1
  <2>8. CASE Head(parts) # 0
    <3>1. written' > 0 /\ Newest' = <<next', written'>>
      BY <1>0, <2>1, <2>6, <2>8
    <3> QED BY <2>1, <2>6, <3>1
  <2> QED BY <2>7, <2>8
<1>9. CASE Drain
  <2>1. PICK n : Drained(n)
    BY <1>9, DrainFacts
  <2>2. Chained' /\ Newest' = Newest
    BY <1>1, <2>1, DrainJoins
  <2>3. UNCHANGED <<xmit, next, written, work>>
    BY <2>1 DEF Drained, txVars, linkVars
  <2> QED BY <1>3, <2>2, <2>3
<1>10. CASE Wakeup
  <2>1. UNCHANGED <<circ, last, xmit, next, written, work>>
    BY <1>10 DEF Wakeup, WriteWakeup, txVars, linkVars
  <2> QED BY <1>3, <1>4, <2>1
<1>11. CASE Flush
  <2>1. work' = "reset" /\ circ' = <<>>
    BY <1>11 DEF Flush
  <2>2. \A i \in 1 .. Len(circ') - 1 : FALSE
    BY <1>0, <2>1
  <2>3. Chained'
    BY <2>1, <2>2 DEF Chained
  <2> QED BY <2>1, <2>3
<1>12. CASE Reset
  <2>1. work = "reset" /\ circ' = circ /\ last' = <<SSID, CmdLen>> /\ xmit' = xmit
    BY <1>12 DEF Reset, FrameEnd, txVars
  <2>2. circ' = <<>> /\ xmit' = "idle"
    BY <1>2, <2>1
  <2>3. \A i \in 1 .. Len(circ') - 1 : FALSE
    BY <1>0, <2>2
  <2>4. Chained'
    BY <2>2, <2>3 DEF Chained
  <2>5. Newest' = <<SSID, CmdLen>> /\ FrameSize(SSID) = CmdLen
    BY <2>1, <2>2, CommandSize DEF Newest
  <2> QED BY <2>2, <2>4, <2>5
<1>13. CASE \E place, f, then : Command(place, f, then) /\ WriteCmd(place, f, then)
  <2>1. PICK place, f, then : Command(place, f, then) /\ WriteCmd(place, f, then)
    BY <1>13
  <2>2. /\ f \in {SSID, PASSWD, ECHO} /\ Adds(f, 0, CmdLen)
        /\ UNCHANGED <<last, xmit, carrier>> /\ work = place
    BY <2>1, CommandFacts DEF txVars
  <2>3. xmit = "idle" /\ work # "reset" /\ Len(circ) + CmdLen <= ROOM
    <3>1. work \in {"ssid", "passwd", "echo"}
      BY <2>1, <2>2 DEF Command
    <3>2. Len(circ) <= 2 * CmdLen
      BY <1>0, <1>2, <3>1
    <3> QED BY <1>0, <1>2, <3>1, <3>2
  <2>4. Newest[2] = FrameSize(Newest[1])
    BY <1>3, <2>3
  <2>5. Follows(Newest, <<f, 0 + 1>>)
    BY <2>4, MayFollow
  <2>6. Chained' /\ Newest' = IF CmdLen = 0 THEN Newest ELSE <<f, 0 + CmdLen>>
    BY <1>0, <1>1, <2>2, <2>3, <2>5, AddsJoins
  <2>7. Newest' = <<f, CmdLen>> /\ FrameSize(f) = CmdLen
    BY <1>0, <2>2, <2>6, CommandSize
  <2> QED BY <2>2, <2>3, <2>6, <2>7
<1>14. CASE CarrierOn
  <2>1. work = "carrier_on" /\ UNCHANGED <<circ, last, xmit, next, written>>
    BY <1>14 DEF CarrierOn, txVars
  <2> QED BY <1>3, <1>4, <2>1
<1>15. CASE LinkDown
  <2>1. work # "reset" /\ UNCHANGED <<circ, last, xmit, next, written>>
    BY <1>15 DEF LinkDown, txVars
  <2> QED BY <1>3, <1>4, <2>1
<1> QED BY <1>5, <1>6, <1>7, <1>8, <1>9, <1>10, <1>11, <1>12, <1>13, <1>14, <1>15, Commands
  DEF Next, Xmit, LinkWork

\* The invariant holds at the start.
LEMMA Initially == Init => IInv
<1> SUFFICES ASSUME Init PROVE IInv
  OBVIOUS
<1>0. /\ circ = <<>> /\ Len(circ) = 0 /\ circ \in Seq(Int \X Int)
      /\ last = <<SSID, CmdLen>> /\ gone = <<0, 0>> /\ xmit = "idle" /\ next = 1
  BY EmptySeq DEF Init, FrameEnd
<1>1. BufferOK
  BY <1>0, Constants DEF BufferOK
<1>2. XmitOK /\ InFrame
  <2>1. 1 \in 1 .. Len(Packets) + 1 /\ <<>> \in Seq(Nat)
    BY Constants, EmptySeq
  <2> QED BY <2>1 DEF Init, XmitOK, InFrame
<1>3. FlagsOK
  BY DEF Init, FlagsOK
<1>4. WorkOK
  BY Constants DEF Init, WorkOK
<1>5. AllWritten /\ SentOnce
  BY <1>0 DEF AllWritten, Written, SentOnce
<1>6. Alone
  BY DEF Init, Alone
<1>7. Joined
  <2>1. Newest = <<SSID, CmdLen>> /\ FrameSize(SSID) = CmdLen
    BY <1>0, CommandSize DEF Newest
  <2> QED BY <1>0, <2>1 DEF Joined
<1>8. Whole
  BY <1>0 DEF Whole, Chained
<1> QED BY <1>1, <1>2, <1>3, <1>4, <1>5, <1>6, <1>7, <1>8 DEF IInv

\* Every step keeps the invariant.
LEMMA StepKeeps == IInv /\ [Next]_vars => IInv'
<1>1. ASSUME IInv, UNCHANGED vars PROVE IInv'
  <2>1. /\ UNCHANGED <<circ, last, gone>> /\ UNCHANGED txVars /\ UNCHANGED wakeVars
        /\ UNCHANGED linkVars
    BY <1>1 DEF vars
  <2> USE <1>1, <2>1 DEF IInv, txVars, wakeVars, linkVars
  <2>2. BufferOK' /\ XmitOK' /\ WorkOK' /\ InFrame'
    BY DEF BufferOK, XmitOK, WorkOK, InFrame
  <2>3. FlagsOK'
    BY DEF FlagsOK
  <2>4. AllWritten' /\ SentOnce'
    BY DEF AllWritten, SentOnce
  <2>5. Alone'
    BY DEF Alone
  <2>6. Joined' /\ Whole'
    BY DEF Joined, Whole, Chained, Newest
  <2> QED BY <2>2, <2>3, <2>4, <2>5, <2>6
<1>2. ASSUME IInv, Next PROVE IInv'
  BY <1>2, StepFlags, StepWork, StepXmit, StepBuffer, StepWritten, StepOnce, StepAlone,
     StepJoined
  DEF IInv
<1> QED BY <1>1, <1>2

-----------------------------------------------------------------------------
(* The theorems.                                                           *)

\* The inductive invariant holds in every reachable state.
THEOREM Invariant == Spec => []IInv
  BY Initially, StepKeeps, PTL DEF Spec

\* The tty's buffer holds no more than its room, and only bytes of the frames that
\* are handed to it, whatever of a write does not fit.
THEOREM TypeCorrect == Spec => []TypeOK
<1>1. IInv => TypeOK
  BY DEF IInv, TypeOK
<1> QED BY <1>1, Invariant, PTL

\* As long as no link that was up is lost, the station gets whole frames after
\* its reset: the one check of write_room covers every write of uart_wifi_xmit,
\* in however many parts, and the start-up's writes are never inside a packet.
THEOREM WholeFrames == Spec => []FramesWhole
<1>1. ASSUME IInv PROVE FramesWhole
  <2> DEFINE s == <<last>> \o circ
  <2> SUFFICES ASSUME losses = 0, NEW i \in 1 .. Len(circ) PROVE Follows(s[i], s[i + 1])
    BY DEF FramesWhole
  <2>0. circ \in Seq(Int \X Int) /\ Len(circ) \in Nat /\ last \in Int \X Int
    BY <1>1, LenProperties DEF IInv, BufferOK
  <2>1. s[1] = last /\ \A k \in 1 .. Len(circ) : s[k + 1] = circ[k]
    <3>1. <<last>> \in Seq(Int \X Int) /\ Len(<<last>>) = 1 /\ <<last>>[1] = last
      BY <2>0
    <3>2. \A k \in 1 .. 1 + Len(circ) :
            s[k] = IF k <= 1 THEN <<last>>[k] ELSE circ[k - 1]
      BY <2>0, <3>1, ConcatProperties
    <3> HIDE DEF s
    <3>3. 1 \in 1 .. 1 + Len(circ)
      BY <2>0
    <3>4. \A k \in 1 .. Len(circ) :
            k + 1 \in 1 .. 1 + Len(circ) /\ ~ (k + 1 <= 1) /\ (k + 1) - 1 = k
      BY <2>0
    <3>5. s[1] = last
      BY <3>1, <3>2, <3>3
    <3>6. ASSUME NEW k \in 1 .. Len(circ) PROVE s[k + 1] = circ[k]
      <4>1. s[k + 1] = circ[(k + 1) - 1]
        BY <3>2, <3>4
      <4> QED BY <3>4, <4>1
    <3> QED BY <3>5, <3>6
  <2> HIDE DEF s
  <2>2. Chained
    BY <1>1 DEF IInv, Whole
  <2>3. CASE i = 1
    <3>1. circ # <<>>
      BY <2>0, EmptySeq
    <3>2. s[i] = last /\ s[i + 1] = circ[1]
      BY <2>1, <2>3
    <3> QED BY <2>2, <3>1, <3>2 DEF Chained
  <2>4. CASE i # 1
    <3>1. i - 1 \in 1 .. Len(circ) - 1 /\ i - 1 \in 1 .. Len(circ) /\ (i - 1) + 1 = i
      BY <2>0, <2>4
    <3>2. s[i] = circ[i - 1] /\ s[i + 1] = circ[(i - 1) + 1]
      BY <2>1, <3>1
    <3> QED BY <2>2, <3>1, <3>2 DEF Chained
  <2> QED BY <2>3, <2>4
<1> QED BY <1>1, Invariant, PTL

\* No byte of a packet is put into the buffer twice or behind one of a later
\* packet, however often the stack offers a packet that was refused, and
\* whatever the link work flushes or writes meanwhile.
THEOREM NeverTwice == Spec => []SentOnce
<1>1. IInv => SentOnce
  BY DEF IInv
<1> QED BY <1>1, Invariant, PTL
=============================================================================
