------------------------------- MODULE EspRx --------------------------------
(***************************************************************************)
(* The ESP8266 side of the serial line, receiving: recv_ssid, recv_passwd, *)
(* recv_netif_info and uart2wifi of uart2wifi.c, called in that order by   *)
(* wifi_init_sta, start_hock and app_main of main.c.  The four functions   *)
(* are one state machine over the shared globals status, uartRecvBuffer    *)
(* and uartDataLen; they differ in the lengths and the terminator they     *)
(* accept and in what they do with a frame.  One action is one pass from   *)
(* the label restart to the next goto or return.                           *)
(***************************************************************************)
EXTENDS Frames

CONSTANTS
  UART_FIFO_LEN,       \* 128: depth of the hardware receive fifo
  WPA_MIN_SSID_LEN, WPA_MAX_SSID_LEN,
  WPA_MIN_PASSWD_LEN, WPA_MAX_PASSWD_LEN,
  NetifInfo,           \* the 12 payload bytes start_hock sent to the host
  Scenarios,           \* what the host writes: the bytes, and what they mean
  NoPbuf               \* send_pbuf == NULL

ASSUME EspRxAssumption ==
  /\ UART_FIFO_LEN \in Nat \ {0}
  /\ WPA_MIN_SSID_LEN \in 1 .. WPA_MAX_SSID_LEN /\ WPA_MAX_SSID_LEN \in 1 .. MTU_LEN
  /\ WPA_MIN_PASSWD_LEN \in 1 .. WPA_MAX_PASSWD_LEN /\ WPA_MAX_PASSWD_LEN \in 1 .. MTU_LEN
  /\ NetifInfo \in Seq(Byte) /\ Len(NetifInfo) = INFO_LEN
  /\ \A s \in Scenarios :
       /\ s.line \in Seq(Byte)                    \* every byte, in order
       /\ s.ssid \in Seq(Byte) /\ s.passwd \in Seq(Byte)
       /\ s.tail \in Seq(Byte)                    \* what follows the echo's frame
       /\ s.packets \in Seq(Seq(Byte))            \* the data frames' payloads
       /\ s.quiet \in BOOLEAN                    \* no byte of it is noise
  /\ NoPbuf \notin Seq(Byte)

VARIABLES
  line,         \* bytes the host has written that have not reached the fifo
  fifo,         \* the hardware receive fifo
  fn,           \* the function that reads the fifo now
  returned,     \* uart2wifi has returned to the loop of app_main
  runFlag,
  status,
  buf,          \* uartRecvBuffer[0 .. uartRecvLen - 1]
  uartDataLen,
  send_pbuf,
  ssid, passwd, \* what recv_ssid and recv_passwd stored in wifi_config
  output,       \* packets netif->output has accepted, oldest first
  sent          \* history: the scenario the host follows

vars == <<line, fifo, fn, returned, runFlag, status, buf, uartDataLen,
          send_pbuf, ssid, passwd, output, sent>>

Readers == {"recv_ssid", "recv_passwd", "connecting", "recv_netif_info",
            "uart2wifi", "read_uart0"}
Parsers   == Readers \ {"connecting", "read_uart0"}
Statuses  == {"LEN", "DATA", "SPLIT"}

-----------------------------------------------------------------------------
(* What the four functions accept.                                         *)

\* LenBad without the upper bound of uart2wifi.
LenBadNoMax(f, n) ==
  CASE f = "recv_ssid"       -> n > WPA_MAX_SSID_LEN \/ n < WPA_MIN_SSID_LEN
    [] f = "recv_passwd"     -> n > WPA_MAX_PASSWD_LEN \/ n < WPA_MIN_PASSWD_LEN
    [] f = "recv_netif_info" -> n # INFO_LEN
    [] OTHER                 -> n < MIN_DATA_LEN

LenBad(f, n) ==
  CASE f = "recv_ssid"       -> n > WPA_MAX_SSID_LEN \/ n < WPA_MIN_SSID_LEN
    [] f = "recv_passwd"     -> n > WPA_MAX_PASSWD_LEN \/ n < WPA_MIN_PASSWD_LEN
    [] f = "recv_netif_info" -> n # INFO_LEN
    [] OTHER                 -> n > MTU_LEN \/ n < MIN_DATA_LEN

\* SplitOf, the same for every function.
SplitOfAlwaysCmd(f) == SPLIT_CMD

SplitOf(f) == IF f = "uart2wifi" THEN SPLIT_DATA ELSE SPLIT_CMD

\* The ssid and the password must end in NUL, and are refused only when
\* that byte and the terminator are both wrong (the condition is a &&).
CredentialBad(b, n) == b[n + 2] # 0 /\ b[n + 3] # SPLIT_CMD

\* The echo must be the netif_info frame itself (memcmp of 15 bytes).
EchoBad(b, n) ==
  \/ b[n + 3] # SPLIT_CMD
  \/ SubSeq(b, 1, INFO_LEN + 3) # Frame(NetifInfo, SPLIT_CMD)

EndBad(f, b, n) ==
  CASE f \in {"recv_ssid", "recv_passwd"} -> CredentialBad(b, n)
    [] f = "recv_netif_info"              -> EchoBad(b, n)
    [] OTHER                              -> b[n + 3] # SPLIT_DATA

-----------------------------------------------------------------------------
(* What the theorems assume of the host.                                   *)

\* After the station's reset the host writes its two credentials first, each of a
\* length that its reader accepts.
CredentialsFirst ==
  \A s \in Scenarios :
    LET head == Frame(s.ssid, SPLIT_CMD) \o Frame(s.passwd, SPLIT_CMD) IN
      /\ Len(s.ssid) \in WPA_MIN_SSID_LEN .. WPA_MAX_SSID_LEN
      /\ Len(s.passwd) \in WPA_MIN_PASSWD_LEN .. WPA_MAX_PASSWD_LEN
      /\ Len(head) <= Len(s.line) /\ SubSeq(s.line, 1, Len(head)) = head

\* On a quiet line they are followed by the echo of netif_info, the rest of the
\* array it is echoed from (zeros, or the text of the last session: no length of a
\* data frame, and no 0x55), and the data frames.
QuietLines ==
  \A s \in Scenarios : s.quiet =>
    LET head == Frame(s.ssid, SPLIT_CMD) \o Frame(s.passwd, SPLIT_CMD) IN
      /\ s.line = head \o (Frame(NetifInfo, SPLIT_CMD) \o (s.tail \o DataBytes(s.packets)))
      /\ s.packets # <<>>
      /\ \A i \in 1 .. Len(s.packets) : Len(s.packets[i]) \in MIN_DATA_LEN .. MTU_LEN
      /\ s.tail # <<>> =>
           /\ Len(s.tail) >= 2 /\ FrameLen(s.tail) \notin MIN_DATA_LEN .. MTU_LEN
           /\ Absent(s.tail, SPLIT_DATA, 1)

\* The first data frame of a quiet line holds 0x55 only as its terminator.
FirstFramePlain ==
  \A s \in Scenarios : s.quiet /\ s.tail # <<>> =>
    LET frame == Frame(s.packets[1], SPLIT_DATA) IN
      FirstAt(frame, SPLIT_DATA, 1, Len(frame))

-----------------------------------------------------------------------------
Init ==
  /\ sent \in Scenarios /\ line = sent.line
  /\ fifo = <<>>
  /\ fn = "recv_ssid" /\ returned = FALSE /\ runFlag = FALSE
  /\ status = "LEN" /\ buf = <<>> /\ uartDataLen = 0
  /\ send_pbuf = NoPbuf
  /\ ssid = <<>> /\ passwd = <<>> /\ output = <<>>

\* The line delivers n bytes; RTS keeps the fifo from overflowing.
Arrive(n) ==
  /\ n <= Len(line) /\ Len(fifo) + n <= UART_FIFO_LEN
  /\ fifo' = fifo \o SubSeq(line, 1, n)
  /\ line' = Drop(line, n)
  /\ UNCHANGED <<fn, returned, runFlag, status, buf, uartDataLen, send_pbuf,
                 ssid, passwd, output, sent>>

Parsing == fn \in Parsers /\ ~returned

\* The state asks for more bytes than the buffer holds.
Hungry ==
  \/ status = "LEN" /\ Len(buf) < 2
  \/ status = "DATA" /\ Len(buf) < uartDataLen + 3
  \/ status = "SPLIT" /\ buf = <<>>

\* uart0_recv_data appends all that the fifo holds.
Fill ==
  /\ Parsing /\ Hungry /\ fifo # <<>>
  /\ buf' = buf \o fifo
  /\ fifo' = <<>>
  /\ UNCHANGED <<line, fn, returned, runFlag, status, uartDataLen, send_pbuf,
                 ssid, passwd, output, sent>>

\* With an empty fifo uart2wifi returns; the other three spin.
FillNothing ==
  /\ Parsing /\ Hungry /\ fifo = <<>> /\ fn = "uart2wifi"
  /\ returned' = TRUE
  /\ UNCHANGED <<line, fifo, fn, runFlag, status, buf, uartDataLen, send_pbuf,
                 ssid, passwd, output, sent>>

ReadLen ==
  /\ Parsing /\ status = "LEN" /\ Len(buf) >= 2
  /\ uartDataLen' = FrameLen(buf)
  /\ status' = IF LenBad(fn, FrameLen(buf)) THEN "SPLIT" ELSE "DATA"
  /\ UNCHANGED <<line, fifo, fn, returned, runFlag, buf, send_pbuf,
                 ssid, passwd, output, sent>>

\* A frame of uartDataLen bytes and its terminator are in the buffer.
Complete == Parsing /\ status = "DATA" /\ Len(buf) >= uartDataLen + 3

Reject ==
  /\ Complete /\ EndBad(fn, buf, uartDataLen)
  /\ status' = "SPLIT"
  /\ UNCHANGED <<line, fifo, fn, returned, runFlag, buf, uartDataLen, send_pbuf,
                 ssid, passwd, output, sent>>

\* The bytes behind the frame move to the front of the buffer.
Consume ==
  /\ buf' = Drop(buf, uartDataLen + 3)
  /\ status' = "LEN"
  /\ UNCHANGED uartDataLen

AcceptSsid ==
  /\ Complete /\ fn = "recv_ssid" /\ ~EndBad(fn, buf, uartDataLen)
  /\ ssid' = Payload(buf, uartDataLen)
  /\ Consume
  /\ fn' = "recv_passwd"
  /\ UNCHANGED <<line, fifo, returned, runFlag, send_pbuf, passwd, output, sent>>

AcceptPasswd ==
  /\ Complete /\ fn = "recv_passwd" /\ ~EndBad(fn, buf, uartDataLen)
  /\ passwd' = Payload(buf, uartDataLen)
  /\ Consume
  /\ fn' = "connecting"
  /\ UNCHANGED <<line, fifo, returned, runFlag, send_pbuf, ssid, output, sent>>

\* IP_EVENT_STA_GOT_IP: start_hock sends netif_info and waits for its echo.
GotIp ==
  /\ fn = "connecting"
  /\ fn' = "recv_netif_info"
  /\ UNCHANGED <<line, fifo, returned, runFlag, status, buf, uartDataLen,
                 send_pbuf, ssid, passwd, output, sent>>

\* The echo matched: runFlag = 1 and app_main enters its loop.
AcceptEcho ==
  /\ Complete /\ fn = "recv_netif_info" /\ ~EndBad(fn, buf, uartDataLen)
  /\ Consume
  /\ fn' = "uart2wifi" /\ runFlag' = TRUE /\ returned' = TRUE
  /\ UNCHANGED <<line, fifo, send_pbuf, ssid, passwd, output, sent>>

DataReady == Complete /\ fn = "uart2wifi" /\ ~EndBad(fn, buf, uartDataLen)

\* pbuf_alloc fails: the frame stays in the buffer for the next call.
AllocFails ==
  /\ DataReady /\ send_pbuf = NoPbuf
  /\ returned' = TRUE
  /\ UNCHANGED <<line, fifo, fn, runFlag, status, buf, uartDataLen, send_pbuf,
                 ssid, passwd, output, sent>>

Alloc ==
  /\ DataReady /\ send_pbuf = NoPbuf
  /\ send_pbuf' = Payload(buf, uartDataLen)
  /\ UNCHANGED <<line, fifo, fn, returned, runFlag, status, buf, uartDataLen,
                 ssid, passwd, output, sent>>

\* OutputFails that drops the frame it is going to retry.
OutputFailsConsumes ==
  /\ DataReady /\ send_pbuf # NoPbuf
  /\ Consume
  /\ returned' = TRUE
  /\ UNCHANGED <<line, fifo, fn, runFlag, send_pbuf, ssid, passwd, output, sent>>

\* netif->output refuses the pbuf: it is kept and offered again.
OutputFails ==
  /\ DataReady /\ send_pbuf # NoPbuf
  /\ returned' = TRUE
  /\ UNCHANGED <<line, fifo, fn, runFlag, status, buf, uartDataLen, send_pbuf,
                 ssid, passwd, output, sent>>

\* Output that leaves the frame in the buffer.
OutputKeepsFrame ==
  /\ DataReady /\ send_pbuf # NoPbuf
  /\ output' = Append(output, send_pbuf)
  /\ send_pbuf' = NoPbuf
  /\ returned' = TRUE
  /\ UNCHANGED <<line, fifo, fn, runFlag, status, buf, uartDataLen, ssid, passwd, sent>>

\* Output of a pbuf whose allocation was not checked.
OutputUnchecked ==
  /\ DataReady
  /\ output' = Append(output, send_pbuf)
  /\ send_pbuf' = NoPbuf
  /\ Consume
  /\ returned' = TRUE
  /\ UNCHANGED <<line, fifo, fn, runFlag, ssid, passwd, sent>>

Output ==
  /\ DataReady /\ send_pbuf # NoPbuf
  /\ output' = Append(output, send_pbuf)
  /\ send_pbuf' = NoPbuf
  /\ Consume
  /\ returned' = TRUE
  /\ UNCHANGED <<line, fifo, fn, runFlag, ssid, passwd, sent>>


\* STATUS_SPLIT: skip to the byte behind the first terminator.
Resync(i) ==
  /\ Parsing /\ status = "SPLIT" /\ FirstAt(buf, SplitOf(fn), 1, i)
  /\ buf' = Drop(buf, i)
  /\ status' = "LEN"
  /\ UNCHANGED <<line, fifo, fn, returned, runFlag, uartDataLen, send_pbuf,
                 ssid, passwd, output, sent>>

\* STATUS_SPLIT without a terminator: the buffer is thrown away.
Discard ==
  /\ Parsing /\ status = "SPLIT" /\ buf # <<>> /\ Absent(buf, SplitOf(fn), 1)
  /\ buf' = <<>>
  /\ returned' = (fn = "uart2wifi")
  /\ UNCHANGED <<line, fifo, fn, runFlag, status, uartDataLen, send_pbuf,
                 ssid, passwd, output, sent>>

\* while(runFlag) { uart2wifi(); ... }, then the dummy reads.
MainLoop ==
  /\ returned
  /\ returned' = FALSE
  /\ fn' = IF runFlag THEN "uart2wifi" ELSE "read_uart0"
  /\ UNCHANGED <<line, fifo, runFlag, status, buf, uartDataLen, send_pbuf,
                 ssid, passwd, output, sent>>

\* WIFI_EVENT_STA_DISCONNECTED while the loop runs.
Disconnected ==
  /\ runFlag
  /\ runFlag' = FALSE
  /\ UNCHANGED <<line, fifo, fn, returned, status, buf, uartDataLen, send_pbuf,
                 ssid, passwd, output, sent>>

\* read_uart0: the fifo is emptied over uartRecvBuffer, which nobody parses.
DummyRead ==
  /\ fn = "read_uart0" /\ fifo # <<>>
  /\ fifo' = <<>>
  /\ UNCHANGED <<line, fn, returned, runFlag, status, buf, uartDataLen,
                 send_pbuf, ssid, passwd, output, sent>>

Parse ==
  \/ Fill \/ FillNothing \/ ReadLen \/ Reject
  \/ AcceptSsid \/ AcceptPasswd \/ AcceptEcho
  \/ AllocFails \/ Alloc \/ OutputFails \/ Output
  \/ \E i \in 1 .. Len(buf) : Resync(i)
  \/ Discard

Next ==
  \/ \E n \in 1 .. UART_FIFO_LEN : Arrive(n)
  \/ Parse \/ GotIp \/ MainLoop \/ Disconnected \/ DummyRead

Spec == Init /\ [][Next]_vars

(***************************************************************************)
(* Fairness.  The task that parses runs for ever (a busy loop on the only  *)
(* core), the host's uart sends whatever RTS lets it send, the access      *)
(* point answers, and neither pbuf_alloc nor netif->output refuses for     *)
(* ever.                                                                   *)
(***************************************************************************)
FairSpec ==
  /\ Spec
  /\ WF_vars(Parse \/ MainLoop) /\ SF_vars(Alloc) /\ SF_vars(Output)
  /\ WF_vars(\E n \in 1 .. UART_FIFO_LEN : Arrive(n))
  /\ WF_vars(GotIp)

-----------------------------------------------------------------------------
(* Properties.                                                             *)

\* The globals of uart2wifi.c hold values of their types: bytes in the buffers,
\* a packet or NULL in send_pbuf, packets only handed to netif->output.
TypeOK ==
  /\ line \in Seq(Byte) /\ fifo \in Seq(Byte) /\ buf \in Seq(Byte)
  /\ fn \in Readers /\ returned \in BOOLEAN /\ runFlag \in BOOLEAN
  /\ status \in Statuses /\ uartDataLen \in Int
  /\ send_pbuf \in Seq(Byte) \cup {NoPbuf}
  /\ ssid \in Seq(Byte) /\ passwd \in Seq(Byte) /\ output \in Seq(Seq(Byte))
  /\ sent \in Scenarios

\* Whatever arrives, and in whatever portions, uart0_recv_data never writes
\* past uartRecvBuffer[MAX_FRAME_LEN + UART_FIFO_LEN], and the fifo it copies
\* from is never deeper than the hardware's.
BufferFits ==
  /\ Len(fifo) <= UART_FIFO_LEN
  /\ Len(buf) <= MAX_FRAME_LEN + UART_FIFO_LEN

\* A pbuf kept for a retry is the frame still at the head of uartRecvBuffer:
\* a failed netif->output neither loses nor repeats nor mixes up a packet.
RetryCoherent ==
  send_pbuf # NoPbuf =>
    /\ status = "DATA" /\ Len(buf) >= uartDataLen + 3
    /\ send_pbuf = Payload(buf, uartDataLen)

\* The station connects with the credentials the host sent, whole, in order.
CredentialsIntact ==
  /\ fn # "recv_ssid" => ssid = sent.ssid
  /\ fn \notin {"recv_ssid", "recv_passwd"} => passwd = sent.passwd

IsPrefixOf(s, t) == Len(s) <= Len(t) /\ s = SubSeq(t, 1, Len(s))

\* On a quiet line packets go out in the order the host sent them, none twice,
\* none altered.  Of the frames of a session only the first may be missing: the
\* bytes of the echo behind the netif_info frame cost it.  (A first frame with a
\* 0x55 inside can cost more: FirstFramePlain is needed.)
OnlyFirstFrameLost ==
  sent.quiet =>
  \/ IsPrefixOf(output, sent.packets)
  \/ sent.packets # <<>> /\ IsPrefixOf(output, Tail(sent.packets))

WifiLost == ~runFlag /\ fn \in {"uart2wifi", "read_uart0"}

LastPacket == sent.packets[Len(sent.packets)]

EndsIn(s, t) == Len(t) <= Len(s) /\ SubSeq(s, Len(s) - Len(t) + 1, Len(s)) = t

LastSentIsLastOut == output # <<>> /\ output[Len(output)] = LastPacket

\* A false length that noise made up delimits a frame that takes the last packet in,
LastSwallowed == output # <<>> /\ EndsIn(output[Len(output)], LastPacket)

\* or one that is longer than all that follows: uart2wifi waits for more bytes, the
\* last frame in its buffer.
LastWithheld ==
  /\ line = <<>> /\ fifo = <<>> /\ fn = "uart2wifi"
  /\ status = "DATA" /\ Len(buf) < uartDataLen + 3
  /\ EndsIn(buf, Frame(LastPacket, SPLIT_DATA))

=============================================================================
