------------------------------- MODULE HostRx -------------------------------
(***************************************************************************)
(* The host side of the serial line, receiving: the line discipline's      *)
(* ttyio_receive_buf2 and the two parsers it calls, ttyio_netif_info until *)
(* the station's addresses have arrived and ttyio_receive_data after that  *)
(* (uart.c).  A call takes a portion of the tty's buffered bytes, works on *)
(* copies of the shared fields and stores them when it exits; the link     *)
(* work (netdev.c) resets the same fields without a lock.  One action is   *)
(* one pass from the label restart to the next goto, return or change of   *)
(* case, so that the link work can come between any two.                   *)
(***************************************************************************)
EXTENDS Frames

CONSTANTS
  NetifInfo,     \* the payload of the netif_info frame the station sends
  Packets,       \* the packets the station forwards, in order
  NoiseBytes,    \* bytes the line may insert ...
  MaxNoise,      \* ... and how many at most
  MaxRelinks,    \* how often the link work resets the station, at most
  MaxDisturbances, \* a bound on both together
  CHAR_SIGNED,   \* plain char is signed on the host's architecture
  NoSkb          \* recv_skb == NULL

ASSUME HostRxAssumption ==
  /\ NetifInfo \in Seq(Byte) /\ Len(NetifInfo) = INFO_LEN
  /\ Packets \in Seq(Seq(Byte))
  /\ \A i \in 1 .. Len(Packets) : Len(Packets[i]) \in MIN_DATA_LEN .. MTU_LEN
  /\ NoiseBytes \subseteq Byte
  /\ MaxNoise \in Nat /\ MaxRelinks \in Nat /\ MaxDisturbances \in Nat
  /\ CHAR_SIGNED \in BOOLEAN
  /\ NoSkb \notin Seq(Byte)

VARIABLES
  \* The tty and the station.
  line,                 \* bytes sent or buffered, not yet consumed by a call
  flush,                \* the tty's flush work is running or scheduled
  esp,                  \* "boot", "told" once netif_info is on its way, and
                        \* "linked" once the echo has come back
  noise, relinks,       \* counters of line noise and link resets
  sent,                 \* history: packets the station has forwarded
  wire,                 \* history: every byte that was put on the line
  \* struct uart_wifi_struct.
  attached,             \* tty->disc_data is set
  uart_recv_status, uartDataLen,
  recv_skb,             \* NoSkb, or the bytes in the skb's data area
  netif_info,           \* the array's first INFO_LEN + 3 bytes
  netif_text,           \* what its text area was formatted from
  netif_info_recv_len, netif_info_vaild,
  \* The call in progress and its locals.
  call,                 \* "none", "data", "info", or "fault"
  cp, processed, surplus, st, dlen, rlen,
  \* What leaves the driver.
  delivered,            \* packets passed to netif_rx_ni
  wrapped               \* one was passed on whose skb->len had wrapped

env    == <<line, wire, flush, esp, noise, relinks, sent>>
dev    == <<attached, uart_recv_status, uartDataLen, recv_skb, netif_info,
            netif_text, netif_info_recv_len, netif_info_vaild>>
locals == <<call, cp, processed, surplus, st, dlen, rlen>>
stack  == <<delivered, wrapped>>
vars   == <<env, dev, locals, stack>>

Statuses == {"LEN", "DATA", "SPLIT"}
InfoSize == INFO_LEN + 3
Least(a, b) == IF a < b THEN a ELSE b

Init ==
  /\ line = <<>> /\ wire = <<>> /\ flush = TRUE /\ esp = "boot"
  /\ noise = 0 /\ relinks = 0 /\ sent = <<>>
  /\ attached = FALSE /\ uart_recv_status = "LEN" /\ uartDataLen = 0
  /\ recv_skb = NoSkb
  /\ netif_info = [i \in 1 .. InfoSize |-> 0] /\ netif_text = <<>>
  /\ netif_info_recv_len = 0 /\ netif_info_vaild = FALSE
  /\ call = "none" /\ cp = <<>> /\ processed = 0 /\ surplus = 0
  /\ st = "LEN" /\ dlen = 0 /\ rlen = 0
  /\ delivered = <<>> /\ wrapped = FALSE

-----------------------------------------------------------------------------
(* The station, the line and the link work.                                *)

\* Bytes reach the tty, and the uart driver schedules the flush work.
Push(bytes) == line' = line \o bytes /\ wire' = wire \o bytes /\ flush' = TRUE

EspInfo ==
  /\ attached /\ esp = "boot"
  /\ esp' = "told"
  /\ Push(Frame(NetifInfo, SPLIT_CMD))
  /\ UNCHANGED <<noise, relinks, sent, dev, locals, stack>>

\* The station forwards packets once the echo has matched.
EspSend ==
  /\ esp = "linked" /\ Len(sent) < Len(Packets)
  /\ LET p == Packets[Len(sent) + 1] IN
       /\ Push(Frame(p, SPLIT_DATA))
       /\ sent' = Append(sent, p)
  /\ UNCHANGED <<esp, noise, relinks, dev, locals, stack>>

LineNoise(b) ==
  /\ noise < MaxNoise /\ noise + relinks < MaxDisturbances
  /\ noise' = noise + 1
  /\ Push(<<b>>)
  /\ UNCHANGED <<esp, relinks, sent, dev, locals, stack>>

\* The link work finds the station down: it resets three fields and then the
\* station, whose last k bytes are cut off.  recv_skb keeps what it holds.
LinkReset(k) ==
  /\ attached /\ relinks < MaxRelinks /\ noise + relinks < MaxDisturbances
  /\ relinks' = relinks + 1
  /\ uart_recv_status' = "LEN" /\ netif_info_recv_len' = 0
  /\ netif_info_vaild' = FALSE
  /\ esp' = "boot"
  /\ Len(cp) <= Len(line) - k
  /\ line' = SubSeq(line, 1, Len(line) - k)
  /\ UNCHANGED <<wire, flush, noise, sent, attached, uartDataLen, recv_skb,
                 netif_info, netif_text, locals, stack>>

\* The end of ttyio_init, and the fields uart_wifi_open sets after it.
Attach ==
  /\ ~attached
  /\ attached' = TRUE
  /\ uart_recv_status' = "LEN" /\ netif_info_recv_len' = 0
  /\ netif_info_vaild' = FALSE
  /\ UNCHANGED <<env, uartDataLen, recv_skb, netif_info, netif_text, locals,
                 stack>>

-----------------------------------------------------------------------------
(* ttyio_receive_buf2.                                                     *)

\* disc_data is not set yet: the bytes are thrown away.
ReceiveUnattached(n) ==
  /\ call = "none" /\ ~attached /\ n <= Len(line)
  /\ line' = Drop(line, n)
  /\ UNCHANGED <<wire, flush, esp, noise, relinks, sent, dev, locals, stack>>

Enter(f, n) ==
  /\ call = "none" /\ attached /\ n <= Len(line)
  /\ call' = f
  /\ cp' = SubSeq(line, 1, n) /\ processed' = 0 /\ surplus' = n
  /\ UNCHANGED <<env, stack>>

\* AllocOnEntry that leaves the local status as it was read.
AllocOnEntryKeepsStatus ==
  /\ recv_skb' = <<>>
  /\ uart_recv_status' = "LEN"
  /\ st' = uart_recv_status

\* alloc_new_skb_to_recv at the head of the call.
AllocOnEntry ==
  /\ recv_skb' = <<>>
  /\ uart_recv_status' = "LEN"
  /\ st' = "LEN"

EnterData(n) ==
  /\ netif_info_vaild
  /\ Enter("data", n)
  /\ dlen' = uartDataLen
  /\ \/ recv_skb = NoSkb /\ AllocOnEntry
     \/ recv_skb # NoSkb /\ st' = uart_recv_status /\ UNCHANGED <<recv_skb, uart_recv_status>>
  /\ UNCHANGED <<attached, uartDataLen, netif_info, netif_text,
                 netif_info_recv_len, netif_info_vaild, rlen>>

\* It fails: the call stores what it read and returns 0.  The flush work ends
\* on a 0 and runs again when the next bytes arrive.
EnterNoSkb ==
  /\ call = "none" /\ attached /\ line # <<>> /\ netif_info_vaild
  /\ recv_skb = NoSkb
  /\ flush' = FALSE
  /\ UNCHANGED <<line, wire, esp, noise, relinks, sent, dev, locals, stack>>

EnterInfo(n) ==
  /\ ~netif_info_vaild
  /\ Enter("info", n)
  /\ st' = uart_recv_status /\ rlen' = netif_info_recv_len
  /\ UNCHANGED <<dev, dlen>>

\* The call returns n: the tty drops n bytes.  The locals die.
Return(n) ==
  /\ line' = Drop(line, n)
  /\ call' = "none" /\ cp' = <<>> /\ processed' = 0 /\ surplus' = 0
  /\ st' = "LEN" /\ dlen' = 0 /\ rlen' = 0
  /\ UNCHANGED <<wire, flush, noise, relinks, sent>>

\* The next k bytes of cp.
Take(k) == SubSeq(cp, processed + 1, processed + k)

Advance(k) == processed' = processed + k /\ surplus' = surplus - k

\* memcpy of a negative count, a huge size_t: the kernel does not survive it.
Overrun(short, missing) ==
  /\ short /\ surplus # 0 /\ Least(surplus, missing) < 0
  /\ call' = "fault"
  /\ UNCHANGED <<env, dev, cp, processed, surplus, st, dlen, rlen, stack>>

-----------------------------------------------------------------------------
(* ttyio_receive_data.                                                     *)

InData == call = "data"

\* How many bytes the state still needs, an int.
DataMissing ==
  CASE st = "LEN"  -> 2 - Len(recv_skb)
    [] st = "DATA" -> dlen + 3 - Len(recv_skb)
    [] OTHER       -> 0

\* Whether it waits for them.  skb->len < uartDataLen+3 compares unsigned, so
\* that it holds as well when a stale length makes the sum negative.
DataShort == DataMissing > 0 \/ (st = "DATA" /\ dlen + 3 < 0)

DataCopy ==
  /\ InData /\ DataMissing > 0 /\ surplus > 0
  /\ LET k == Least(surplus, DataMissing) IN
       recv_skb' = recv_skb \o Take(k) /\ Advance(k)
  /\ UNCHANGED <<env, attached, uart_recv_status, uartDataLen, netif_info,
                 netif_text, netif_info_recv_len, netif_info_vaild,
                 call, cp, st, dlen, rlen, stack>>

DataOverrun == Overrun(InData /\ DataShort, DataMissing)

\* DataStore that forgets the length.
DataStoreNoLen(n) ==
  /\ uart_recv_status' = st /\ uartDataLen' = uartDataLen
  /\ Return(n)
  /\ UNCHANGED <<esp, attached, netif_info, netif_text, netif_info_recv_len,
                 netif_info_vaild>>

\* exit: store the locals.
DataStore(n) ==
  /\ uart_recv_status' = st /\ uartDataLen' = dlen
  /\ Return(n)
  /\ UNCHANGED <<esp, attached, netif_info, netif_text, netif_info_recv_len,
                 netif_info_vaild>>

DataExit ==
  /\ InData /\ DataShort /\ surplus = 0
  /\ DataStore(processed)
  /\ UNCHANGED <<recv_skb, stack>>

\* DataLenBad without the upper bound.
DataLenBadNoMax(n) == n < MIN_DATA_LEN

DataLenBad(n) == n > MTU_LEN \/ n < MIN_DATA_LEN

DataReadLen ==
  /\ InData /\ st = "LEN" /\ ~DataShort
  /\ dlen' = FrameLen(recv_skb)
  /\ st' = IF DataLenBad(FrameLen(recv_skb)) THEN "SPLIT" ELSE "DATA"
  /\ UNCHANGED <<env, dev, call, cp, processed, surplus, rlen, stack>>

DataComplete == InData /\ st = "DATA" /\ ~DataShort

\* skb->data[uartDataLen + 2].  With a stale length of -3 it is the byte in front
\* of the data, which alloc_new_skb_to_recv has cleared.
EndByte == IF dlen = -3 THEN 0 ELSE recv_skb[dlen + 3]

\* The header and one byte at the tail are stripped: netif_rx_ni.  In an skb of
\* fewer than 3 bytes the unsigned skb->len wraps, and what is passed on as a
\* packet is memory that was never received.
Deliver ==
  /\ DataComplete /\ EndByte = SPLIT_DATA
  /\ wrapped' = (wrapped \/ Len(recv_skb) < 3)
  /\ delivered' = IF Len(recv_skb) < 3 THEN delivered
                   ELSE Append(delivered, SubSeq(recv_skb, 3, Len(recv_skb) - 1))

DeliverAlloc ==
  /\ Deliver
  /\ recv_skb' = <<>> /\ uart_recv_status' = "LEN" /\ st' = "LEN"
  /\ UNCHANGED <<env, attached, uartDataLen, netif_info, netif_text,
                 netif_info_recv_len, netif_info_vaild,
                 call, cp, processed, surplus, dlen, rlen>>

\* DeliverNoSkb that reports none of the bytes as processed.
DeliverNoSkbReturnsNone ==
  /\ Deliver
  /\ recv_skb' = NoSkb
  /\ DataStore(0)

\* No skb for the next frame: the call ends and the next one allocates.
DeliverNoSkb ==
  /\ Deliver
  /\ recv_skb' = NoSkb
  /\ DataStore(processed)

DataReject ==
  /\ DataComplete /\ EndByte # SPLIT_DATA
  /\ st' = "SPLIT"
  /\ UNCHANGED <<env, dev, call, cp, processed, surplus, dlen, rlen, stack>>

\* SplitInSkb that stops at the terminator instead of behind it.
SplitInSkbKeepsSplit(i) ==
  /\ InData /\ st = "SPLIT" /\ FirstAt(recv_skb, SPLIT_DATA, 1, i)
  /\ recv_skb' = Drop(recv_skb, i - 1)
  /\ st' = "LEN"
  /\ UNCHANGED <<env, attached, uart_recv_status, uartDataLen, netif_info,
                 netif_text, netif_info_recv_len, netif_info_vaild,
                 call, cp, processed, surplus, dlen, rlen, stack>>

\* STATUS_SPLIT, first in the skb: skip to behind the terminator.
SplitInSkb(i) ==
  /\ InData /\ st = "SPLIT" /\ FirstAt(recv_skb, SPLIT_DATA, 1, i)
  /\ recv_skb' = Drop(recv_skb, i)
  /\ st' = "LEN"
  /\ UNCHANGED <<env, attached, uart_recv_status, uartDataLen, netif_info,
                 netif_text, netif_info_recv_len, netif_info_vaild,
                 call, cp, processed, surplus, dlen, rlen, stack>>

\* ... then in the rest of cp.  i counts from the start of cp, and the code
\* adds it to processed.
SplitInCp(i) ==
  /\ InData /\ st = "SPLIT" /\ Absent(recv_skb, SPLIT_DATA, 1)
  /\ FirstAt(cp, SPLIT_DATA, processed + 1, i)
  /\ recv_skb' = <<>> /\ Advance(i) /\ st' = "LEN"
  /\ UNCHANGED <<env, attached, uart_recv_status, uartDataLen, netif_info,
                 netif_text, netif_info_recv_len, netif_info_vaild,
                 call, cp, dlen, rlen, stack>>

\* ... and else everything is skipped.
SplitNowhere ==
  /\ InData /\ st = "SPLIT" /\ Absent(recv_skb, SPLIT_DATA, 1)
  /\ Absent(cp, SPLIT_DATA, processed + 1)
  /\ recv_skb' = <<>>
  /\ DataStore(Len(cp))
  /\ UNCHANGED stack

DataStep ==
  \/ DataCopy \/ DataOverrun \/ DataExit \/ DataReadLen
  \/ DeliverAlloc \/ DeliverNoSkb \/ DataReject
  \/ (InData /\ \E i \in 1 .. Len(recv_skb) : SplitInSkb(i))
  \/ (InData /\ \E i \in 1 .. Len(cp) : SplitInCp(i))
  \/ SplitNowhere

-----------------------------------------------------------------------------
(* ttyio_netif_info.                                                       *)

InInfo == call = "info"

\* InfoMissing, one byte more than a frame.
InfoMissingOneMore ==
  CASE st = "LEN"  -> 2 - rlen
    [] st = "DATA" -> InfoSize + 1 - rlen
    [] OTHER       -> 0

InfoMissing ==
  CASE st = "LEN"  -> 2 - rlen
    [] st = "DATA" -> InfoSize - rlen
    [] OTHER       -> 0

\* The part of the array that has been received.
InfoHeld == SubSeq(netif_info, 1, rlen)

InfoCopy ==
  /\ InInfo /\ InfoMissing > 0 /\ surplus > 0
  /\ LET k == Least(surplus, InfoMissing) IN
       /\ netif_info' = [i \in 1 .. InfoSize |->
            IF i \in (rlen + 1) .. (rlen + k) THEN cp[processed + i - rlen]
                                              ELSE netif_info[i]]
       /\ rlen' = rlen + k
       /\ Advance(k)
  /\ UNCHANGED <<env, attached, uart_recv_status, uartDataLen, recv_skb,
                 netif_text, netif_info_recv_len, netif_info_vaild,
                 call, cp, st, dlen, stack>>

InfoOverrun == Overrun(InInfo /\ InfoMissing > 0, InfoMissing)

\* InfoStore that forgets how much has been received.
InfoStoreNoLen(n, len) ==
  /\ uart_recv_status' = st /\ netif_info_recv_len' = netif_info_recv_len
  /\ Return(n)
  /\ UNCHANGED <<esp, attached, uartDataLen, recv_skb, netif_info, netif_text,
                 netif_info_vaild, stack>>

InfoStore(n, len) ==
  /\ uart_recv_status' = st /\ netif_info_recv_len' = len
  /\ Return(n)
  /\ UNCHANGED <<esp, attached, uartDataLen, recv_skb, netif_info, netif_text,
                 netif_info_vaild, stack>>

InfoExit == InInfo /\ InfoMissing > 0 /\ surplus = 0 /\ InfoStore(processed, rlen)

\* InfoShift with the operands of the subtraction swapped.
InfoShiftSwapped(s) ==
  /\ netif_info' = [i \in 1 .. InfoSize |->
       IF i <= rlen - s THEN netif_info[i + s] ELSE netif_info[i]]
  /\ rlen' = s - rlen
  /\ st' = "LEN"
  /\ UNCHANGED <<env, attached, uart_recv_status, uartDataLen, recv_skb,
                 netif_text, netif_info_recv_len, netif_info_vaild,
                 call, cp, processed, surplus, dlen, stack>>

\* memmove of the received part, s bytes to the front; back to STATUS_LEN.
InfoShift(s) ==
  /\ netif_info' = [i \in 1 .. InfoSize |->
       IF i <= rlen - s THEN netif_info[i + s] ELSE netif_info[i]]
  /\ rlen' = rlen - s
  /\ st' = "LEN"
  /\ UNCHANGED <<env, attached, uart_recv_status, uartDataLen, recv_skb,
                 netif_text, netif_info_recv_len, netif_info_vaild,
                 call, cp, processed, surplus, dlen, stack>>

InfoHaveLen == InInfo /\ st = "LEN" /\ InfoMissing <= 0

InfoGoto(status) ==
  /\ st' = status
  /\ UNCHANGED <<env, dev, call, cp, processed, surplus, dlen, rlen, stack>>

InfoLenOk == InfoHaveLen /\ FrameLen(netif_info) = INFO_LEN /\ InfoGoto("DATA")

\* The first byte could have been noise: try the next INFO_LEN byte.
InfoLenRetry(i) ==
  /\ InfoHaveLen /\ FrameLen(netif_info) # INFO_LEN
  /\ netif_info[1] = INFO_LEN /\ FirstAt(InfoHeld, INFO_LEN, 2, i)
  /\ InfoShift(i - 1)

InfoLenBad ==
  /\ InfoHaveLen /\ FrameLen(netif_info) # INFO_LEN
  /\ netif_info[1] = INFO_LEN => Absent(InfoHeld, INFO_LEN, 2)
  /\ InfoGoto("SPLIT")

InfoComplete == InInfo /\ st = "DATA" /\ InfoMissing <= 0

\* netif_info[14] == SPLIT_CMD compares a plain char with 0xaa.
IsSplitCmd(c) == c = SPLIT_CMD /\ ~(CHAR_SIGNED /\ SPLIT_CMD >= 128)

\* The array goes back as the echo (a waiting station compares it with what it
\* sent, a booting one does not see it), its text area is formatted, and the
\* call returns without storing uart_recv_status or netif_info_recv_len.
InfoAccept ==
  /\ InfoComplete /\ IsSplitCmd(netif_info[InfoSize])
  /\ esp' = IF esp = "told" /\ netif_info = Frame(NetifInfo, SPLIT_CMD)
             THEN "linked" ELSE esp
  /\ netif_text' = Payload(netif_info, INFO_LEN)
  /\ netif_info_vaild' = TRUE
  /\ Return(processed)
  /\ UNCHANGED <<attached, uart_recv_status, uartDataLen, recv_skb, netif_info,
                 netif_info_recv_len, stack>>

InfoReject ==
  /\ InfoComplete /\ ~IsSplitCmd(netif_info[InfoSize]) /\ InfoGoto("SPLIT")

\* STATUS_SPLIT, in the array: the search starts at the byte it failed on.
InfoSplitInArray(i) ==
  /\ InInfo /\ st = "SPLIT" /\ FirstAt(InfoHeld, INFO_LEN, 1, i)
  /\ InfoShift(i - 1)

\* ... then in the rest of cp; skip is an index into cp and is added too.
InfoSplitInCp(i) ==
  /\ InInfo /\ st = "SPLIT" /\ Absent(InfoHeld, INFO_LEN, 1)
  /\ FirstAt(cp, INFO_LEN, processed + 1, i)
  /\ rlen' = 0 /\ Advance(i - 1) /\ st' = "LEN"
  /\ UNCHANGED <<env, dev, call, cp, dlen, stack>>

InfoSplitNowhere ==
  /\ InInfo /\ st = "SPLIT" /\ Absent(InfoHeld, INFO_LEN, 1)
  /\ Absent(cp, INFO_LEN, processed + 1)
  /\ InfoStore(Len(cp), 0)

InfoStep ==
  \/ InfoCopy \/ InfoOverrun \/ InfoExit \/ InfoLenOk \/ InfoLenBad
  \/ InfoAccept \/ InfoReject
  \/ \E i \in 1 .. InfoSize : InfoLenRetry(i) \/ InfoSplitInArray(i)
  \/ \E i \in 1 .. Len(cp) : InfoSplitInCp(i)
  \/ InfoSplitNowhere

-----------------------------------------------------------------------------
ReceiveBuf2 ==
  /\ flush
  /\ \/ EnterNoSkb
     \/ \E n \in 1 .. Len(line) : ReceiveUnattached(n) \/ EnterData(n) \/ EnterInfo(n)

Next ==
  \/ EspInfo \/ EspSend \/ Attach
  \/ \E b \in NoiseBytes : LineNoise(b)
  \/ \E k \in 0 .. Len(line) : LinkReset(k)
  \/ ReceiveBuf2 \/ DataStep \/ InfoStep

Spec == Init /\ [][Next]_vars

(***************************************************************************)
(* Fairness.  The tty's flush work runs as long as bytes are buffered, a   *)
(* call that has begun runs on, the interface is brought up, and the       *)
(* station does its part.                                                  *)
(***************************************************************************)
FairSpec ==
  /\ Spec
  /\ WF_vars(ReceiveBuf2) /\ WF_vars(DataStep \/ InfoStep)
  /\ WF_vars(Attach) /\ WF_vars(EspInfo) /\ WF_vars(EspSend)

-----------------------------------------------------------------------------
(* Properties.                                                             *)

EnvOK ==
  /\ line \in Seq(Byte) /\ wire \in Seq(Byte) /\ flush \in BOOLEAN
  /\ esp \in {"boot", "told", "linked"}
  /\ noise \in 0 .. MaxNoise /\ relinks \in 0 .. MaxRelinks
  /\ sent \in Seq(Seq(Byte))

DevOK ==
  /\ attached \in BOOLEAN /\ uart_recv_status \in Statuses /\ uartDataLen \in Int
  /\ recv_skb \in Seq(Byte) \cup {NoSkb}
  /\ netif_info \in [1 .. InfoSize -> Byte] /\ netif_text \in Seq(Byte)
  /\ netif_info_recv_len \in Nat /\ netif_info_vaild \in BOOLEAN

CallOK ==
  /\ call \in {"none", "data", "info", "fault"}
  /\ cp \in Seq(Byte) /\ processed \in Nat /\ surplus \in Int
  /\ st \in Statuses /\ dlen \in Int /\ rlen \in Nat

\* The fields of struct uart_wifi_struct and the locals of a call hold values of
\* their types, lengths never negative (the BUG_ONs of both parsers).
TypeOK ==
  /\ EnvOK /\ DevOK /\ CallOK
  /\ delivered \in Seq(Seq(Byte)) /\ wrapped \in BOOLEAN

\* The skb holds at most one frame of the longest kind.
SkbFits == recv_skb # NoSkb => Len(recv_skb) <= MAX_FRAME_LEN

\* No runt and no oversized packet reaches the network stack.
DeliveredSizes ==
  \A i \in 1 .. Len(delivered) : Len(delivered[i]) \in MIN_DATA_LEN .. MTU_LEN

\* Until the link work resets the station, whatever bytes the line inserts and
\* however the bytes are cut into calls, ttyio_receive_data never writes behind
\* the skb, never passes on a packet of a size the stack must not see, and never
\* one whose skb->len has wrapped.
FirstSessionSafe == relinks = 0 => SkbFits /\ DeliveredSizes /\ ~wrapped

\* Whatever the line and the link work do, ttyio_netif_info never writes behind
\* the frame area of netif_info, into the text that sysfs shows.
InfoFits == rlen <= InfoSize /\ netif_info_recv_len <= InfoSize

\* The bytes of a sequence of packets, one behind the other.
Joined(ps) ==
  LET bytes[n \in 0 .. Len(ps)] == IF n = 0 THEN <<>> ELSE bytes[n - 1] \o ps[n]
  IN bytes[Len(ps)]

\* s is what is left of t when some elements are taken out: found[n] is how much
\* of s can be matched with the first n elements of t.
IsSubsequence(s, t) ==
  LET found[n \in 0 .. Len(t)] ==
        IF n = 0 THEN 0
        ELSE LET k == found[n - 1] IN
               IF k < Len(s) /\ s[k + 1] = t[n] THEN k + 1 ELSE k
  IN found[Len(t)] = Len(s)

\* Whatever the line and the link work do, the packets that reach the stack with
\* their true length consist of bytes that were on the line, in their order: the
\* resync of ttyio_receive_data and the counts it returns to the tty lose bytes
\* but never pass one on twice or out of order.  A packet whose length wrapped is
\* not among them; it takes a link reset (FirstSessionSafe).
DeliveredOnce == IsSubsequence(Joined(delivered), wire)

\* Neither the line nor the link work has disturbed the stream.
Undisturbed == noise = 0 /\ relinks = 0

\* As long as the line is clean packets reach the stack in order, none lost,
\* altered or repeated, however the bytes are cut into calls and whatever
\* allocation fails.
DeliveredInOrder ==
  Undisturbed =>
    Len(delivered) <= Len(sent) /\ delivered = SubSeq(sent, 1, Len(delivered))

\* On a clean line every packet the station forwards reaches the stack, unless
\* an skb allocation that failed has ended the flush work and no byte arrives
\* any more to start it again.
AllDelivered == <>[](~Undisturbed \/ delivered = Packets \/ ~flush)

\* On a clean line the station's addresses are accepted.
HandshakeCompletes == <>(~Undisturbed \/ netif_info_vaild)

\* Every call of ttyio_receive_data returns (or has faulted).
DataCallReturns == (call = "data") ~> (call # "data")

\* Every call of ttyio_netif_info returns (or has faulted).
InfoCallReturns == (call = "info") ~> (call # "info")

\* processed counts bytes of cp, and surplus is what is left of them.
ProcessedWithinCount ==
  call \in {"data", "info"} => surplus >= 0 /\ processed + surplus = Len(cp)
=============================================================================
