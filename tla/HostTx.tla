------------------------------- MODULE HostTx -------------------------------
(***************************************************************************)
(* The host's transmit path.  Three contexts share the transmit buffer of  *)
(* the tty: the network stack, which calls uart_wifi_xmit while the        *)
(* carrier is on and the queue is not stopped; the link work and the       *)
(* receiver, which write the ssid, the password and the echo of netif_info *)
(* when the station (re)starts; and the uart, which drains the buffer and, *)
(* when fewer than WAKEUP_CHARS are left, calls ttyio_write_wakeup through *)
(* tty_wakeup, but only while TTY_DO_WRITE_WAKEUP is set.                  *)
(*                                                                         *)
(* A byte is a pair <<f, k>>: byte k of frame f, where frame f > 0 is that *)
(* of packet f and the others are the three command frames.                *)
(***************************************************************************)
EXTENDS Sums

CONSTANTS
  Packets,       \* Packets[p]: the sizes of packet p's linear part and fragments
  CmdLen,        \* the length of a command frame
  ROOM,          \* what the tty's transmit buffer can hold
  WAKEUP_CHARS,  \* 256
  MaxResets      \* bound on how often the link is found down, or not up in time

SSID   == 0
PASSWD == -1
ECHO   == -2

\* The payload bytes of packet p: skb->len - ETH_HLEN.
send_len(p) == SumOf(Packets[p])

FrameSize(f) == IF f > 0 THEN send_len(f) + 3 ELSE CmdLen

ASSUME HostTxAssumption ==
  /\ Packets \in Seq(Seq(Nat)) /\ CmdLen \in Nat \ {0}
  /\ WAKEUP_CHARS \in Nat \ {0} /\ MaxResets \in Nat
  /\ ROOM \in Nat /\ ROOM >= 3 * CmdLen
  /\ \A p \in 1 .. Len(Packets) : FrameSize(p) <= ROOM

VARIABLES
  circ,         \* the tty's transmit buffer
  last,         \* history: the last byte the uart sent since the station's reset
  gone,         \* history: the last byte of a packet that was sent or flushed
  xmit,         \* "idle", or the place in uart_wifi_xmit: "stop", "set_bit", "write"
  next,         \* the packet the stack offers, or is inside uart_wifi_xmit with
  written,      \* how many of the frame's bytes have been handed to write
  parts,        \* the sizes of the writes still to make
  qstopped,     \* __QUEUE_STATE_DRV_XOFF
  do_wakeup,    \* TTY_DO_WRITE_WAKEUP
  waking,       \* who is inside ttyio_write_wakeup, past its clear_bit
  work,         \* the place in the link's start-up, "up" when it has returned
  carrier,
  resets, losses

txVars   == <<xmit, next, written, parts>>
wakeVars == <<qstopped, do_wakeup, waking>>
linkVars == <<work, carrier, resets, losses>>
vars     == <<circ, last, gone, txVars, wakeVars, linkVars>>

\* A byte that a new frame may follow.
FrameEnd == <<SSID, CmdLen>>

\* uart_wifi_open has just scheduled the link work.
Init ==
  /\ circ = <<>> /\ last = FrameEnd /\ gone = <<0, 0>>
  /\ xmit = "idle" /\ next = 1 /\ written = 0 /\ parts = <<>>
  /\ qstopped = FALSE /\ do_wakeup = FALSE /\ waking = {}
  /\ work = "flush" /\ carrier = FALSE /\ resets = 0 /\ losses = 0

Bytes(f, from, n) == [k \in 1 .. n |-> <<f, from + k>>]

\* tty->ops->write takes what fits; nobody looks at how much that was.
Write(bytes) ==
  LET fits == IF Len(bytes) <= ROOM - Len(circ) THEN Len(bytes) ELSE ROOM - Len(circ)
  IN circ' = circ \o SubSeq(bytes, 1, fits)

-----------------------------------------------------------------------------
(* uart_wifi_xmit, called by one cpu at a time.                            *)

\* HasRoom that forgets the length field and the split.
HasRoomForPayload(p) == ROOM - Len(circ) >= send_len(p)

HasRoom(p) == ROOM - Len(circ) >= send_len(p) + 3

\* XmitStart that has written the length field before it asks for room.
XmitStartEager ==
  /\ xmit = "idle" /\ next <= Len(Packets) /\ carrier /\ ~qstopped
  /\ Write(Bytes(next, 0, 2)) /\ written' = 2
  /\ xmit' = IF HasRoom(next) THEN "write" ELSE "stop"
  /\ parts' = Append(Packets[next], 1)
  /\ UNCHANGED <<last, gone, next, wakeVars, linkVars>>

\* The stack offers the packet; write_room decides.
XmitStart ==
  /\ xmit = "idle" /\ next <= Len(Packets) /\ carrier /\ ~qstopped
  /\ xmit' = IF HasRoom(next) THEN "write" ELSE "stop"
  /\ written' = 0 /\ parts' = <<2>> \o Append(Packets[next], 1)
  /\ UNCHANGED <<circ, last, gone, next, wakeVars, linkVars>>

XmitStopQueue ==
  /\ xmit = "stop"
  /\ qstopped' = TRUE /\ xmit' = "set_bit"
  /\ UNCHANGED <<circ, last, gone, next, written, parts, do_wakeup, waking, linkVars>>

\* NETDEV_TX_BUSY: the stack keeps the packet and offers it again.
XmitSetBit ==
  /\ xmit = "set_bit"
  /\ do_wakeup' = TRUE /\ xmit' = "idle"
  /\ UNCHANGED <<circ, last, gone, next, written, parts, qstopped, waking, linkVars>>

\* XmitWrite that sends a byte too many of each part.
XmitWriteOneMore ==
  /\ xmit = "write" /\ parts # <<>>
  /\ Write(Bytes(next, written, Head(parts) + 1))
  /\ written' = written + Head(parts) /\ parts' = Tail(parts)
  /\ UNCHANGED <<last, gone, xmit, next, wakeVars, linkVars>>

\* The length, the linear part, each fragment and the split, one write each.
XmitWrite ==
  /\ xmit = "write" /\ parts # <<>>
  /\ Write(Bytes(next, written, Head(parts)))
  /\ written' = written + Head(parts) /\ parts' = Tail(parts)
  /\ UNCHANGED <<last, gone, xmit, next, wakeVars, linkVars>>

\* consume_skb and NETDEV_TX_OK.
XmitDone ==
  /\ xmit = "write" /\ parts = <<>>
  /\ xmit' = "idle" /\ next' = next + 1
  /\ UNCHANGED <<circ, last, gone, written, parts, wakeVars, linkVars>>

Xmit == XmitStart \/ XmitStopQueue \/ XmitSetBit \/ XmitWrite \/ XmitDone

-----------------------------------------------------------------------------
(* The uart and ttyio_write_wakeup.                                        *)

\* tty_wakeup: into ttyio_write_wakeup, and its clear_bit, if the bit is set.
TtyWakeup(who) ==
  /\ do_wakeup' = FALSE
  /\ waking' = IF do_wakeup THEN waking \cup {who} ELSE waking

\* The last byte of a packet that has left the buffer, once s has left it too.
LastOfPacket(s) ==
  LET of == { i \in 1 .. Len(s) : s[i][1] > 0 }
  IN IF of = {} THEN gone ELSE s[CHOOSE i \in of : \A j \in of : j <= i]

\* A transmit interrupt or the end of a DMA transfer: n bytes have gone.
Drain ==
  \E n \in 1 .. Len(circ) :
    /\ "uart" \notin waking
    /\ last' = circ[n] /\ gone' = LastOfPacket(SubSeq(circ, 1, n))
    /\ circ' = SubSeq(circ, n + 1, Len(circ))
    /\ IF Len(circ) - n < WAKEUP_CHARS THEN TtyWakeup("uart")
                                       ELSE UNCHANGED <<do_wakeup, waking>>
    /\ UNCHANGED <<txVars, qstopped, linkVars>>

\* WriteWakeup that wakes the queue only once the buffer is empty.
WriteWakeupWhenEmpty(who) ==
  /\ who \in waking
  /\ waking' = waking \ {who}
  /\ qstopped' = IF carrier /\ circ = <<>> THEN FALSE ELSE qstopped
  /\ UNCHANGED <<circ, last, gone, txVars, do_wakeup, linkVars>>

\* The rest of ttyio_write_wakeup: wake the queue if there is a carrier.
WriteWakeup(who) ==
  /\ who \in waking
  /\ waking' = waking \ {who}
  /\ qstopped' = IF carrier THEN FALSE ELSE qstopped
  /\ UNCHANGED <<circ, last, gone, txVars, do_wakeup, linkVars>>

-----------------------------------------------------------------------------
(* The link work and the echo (module HostLink has their control in full). *)

\* flush_buffer: uart_flush_buffer empties the buffer and calls tty_wakeup.
Flush ==
  /\ work = "flush" /\ "work" \notin waking
  /\ circ' = <<>> /\ gone' = LastOfPacket(circ) /\ TtyWakeup("work")
  /\ work' = "reset"
  /\ UNCHANGED <<last, txVars, qstopped, carrier, resets, losses>>

\* gpio_reset goes low and high again.
Reset ==
  /\ work = "reset" /\ waking \cap {"work"} = {}
  /\ last' = FrameEnd /\ work' = "ssid"
  /\ UNCHANGED <<circ, gone, txVars, wakeVars, carrier, resets, losses>>

WriteCmd(place, f, then) ==
  /\ work = place
  /\ Write(Bytes(f, 0, CmdLen)) /\ work' = then
  /\ UNCHANGED <<last, gone, txVars, wakeVars, carrier, resets, losses>>

\* The station has the echo, GPIO5 fell and the work ran again:
\* netif_carrier_on, netif_wake_queue.
CarrierOn ==
  /\ work = "carrier_on" /\ \A i \in 1 .. Len(circ) : circ[i][1] # ECHO
  /\ carrier' = TRUE /\ qstopped' = FALSE /\ work' = "up"
  /\ UNCHANGED <<circ, last, gone, txVars, do_wakeup, waking, resets, losses>>

\* GPIO5 is found high, after ten seconds or because it rose: the work starts
\* over and leaves the carrier as it is.
LinkDown ==
  /\ work \in {"up", "echo", "carrier_on"} /\ resets < MaxResets
  /\ resets' = resets + 1 /\ losses' = IF work = "up" THEN losses + 1 ELSE losses
  /\ work' = "flush"
  /\ UNCHANGED <<circ, last, gone, txVars, wakeVars, carrier>>

LinkWork ==
  \/ Flush \/ Reset
  \/ WriteCmd("ssid", SSID, "passwd") \/ WriteCmd("passwd", PASSWD, "echo")
  \/ WriteCmd("echo", ECHO, "carrier_on") \/ CarrierOn

Wakeup == \E who \in {"uart", "work"} : WriteWakeup(who)

Next == Xmit \/ Drain \/ Wakeup \/ LinkWork \/ LinkDown

Spec == Init /\ [][Next]_vars

(***************************************************************************)
(* Fairness.  A context that has something to do runs on; the uart drains  *)
(* because the station reads its fifo in every state, if only to throw the *)
(* bytes away (the dummy reads of app_main), so that RTS lets go.          *)
(***************************************************************************)
FairSpec ==
  /\ Spec
  /\ WF_vars(Xmit) /\ WF_vars(Drain) /\ WF_vars(LinkWork)
  /\ WF_vars(WriteWakeup("uart")) /\ WF_vars(WriteWakeup("work"))

-----------------------------------------------------------------------------
(* Properties.                                                             *)

BufferOK ==
  /\ circ \in Seq(Int \X Int) /\ Len(circ) <= ROOM
  /\ \A i \in 1 .. Len(circ) :
       /\ circ[i][1] \in ECHO .. Len(Packets)
       /\ circ[i][2] \in 1 .. FrameSize(circ[i][1])
  /\ last \in Int \X Int /\ gone \in Nat \X Nat

XmitOK ==
  /\ xmit \in {"idle", "stop", "set_bit", "write"}
  /\ next \in 1 .. Len(Packets) + 1 /\ written \in Nat /\ parts \in Seq(Nat)

FlagsOK ==
  /\ qstopped \in BOOLEAN /\ do_wakeup \in BOOLEAN /\ carrier \in BOOLEAN
  /\ waking \subseteq {"uart", "work"}

WorkOK ==
  /\ work \in {"flush", "reset", "ssid", "passwd", "echo", "carrier_on", "up"}
  /\ resets \in 0 .. MaxResets /\ losses \in 0 .. resets

\* Each variable has its type, and the buffer holds no more than it can: every
\* byte in it is one of its frame's.
TypeOK == BufferOK /\ XmitOK /\ FlagsOK /\ WorkOK

\* Byte b may follow byte a when frames are whole and none is inside another.
Follows(a, b) ==
  \/ b = <<a[1], a[2] + 1>>
  \/ b[2] = 1 /\ a[2] = FrameSize(a[1])

\* Until a link that was up is lost, the station gets whole frames after its
\* reset, however often the start-up is retried: uart_wifi_xmit's several
\* writes all fit, because the room was checked and nobody else writes while
\* the carrier is on.
FramesWhole ==
  losses = 0 =>
    LET s == <<last>> \o circ IN \A i \in 1 .. Len(circ) : Follows(s[i], s[i + 1])

\* Byte a of a packet goes out before byte b of one.
Before(a, b) == a[1] < b[1] \/ (a[1] = b[1] /\ a[2] < b[2])

\* A packet's byte in the buffer is followed only by later ones of the same
\* packet and by those of later packets, and follows every one that has left
\* it: a packet that was refused with NETDEV_TX_BUSY has left nothing in the
\* buffer, and none is sent twice, whatever is flushed or interleaved.
SentOnce ==
  \A j \in 1 .. Len(circ) : circ[j][1] > 0 =>
    /\ Before(gone, circ[j])
    /\ \A i \in 1 .. (j - 1) : circ[i][1] > 0 => Before(circ[i], circ[j])

\* A queue stopped for want of room, with the wakeup asked for while the buffer
\* still has bytes to drain, is woken.
WakeupDelivered == (qstopped /\ do_wakeup /\ circ # <<>>) ~> ~qstopped

\* The comment on ttyio_write_wakeup says that the uart calls it whenever fewer
\* than WAKEUP_CHARS are left, so a stopped queue is always woken.  Not when
\* the last bytes go between write_room and set_bit.
StoppedIsWoken == qstopped ~> ~qstopped
=============================================================================
