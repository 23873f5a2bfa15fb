------------------------------- MODULE EspTx --------------------------------
(***************************************************************************)
(* The ESP8266 side of the serial line, sending.  Three tasks meet here:   *)
(* the event task, which on IP_EVENT_STA_GOT_IP sends netif_info, waits    *)
(* for its echo and installs the hook (start_hock of main.c); the tcpip    *)
(* task, whose ip4_input then hands every packet to uart_wifi_recv, which  *)
(* enqueues a copy; and the main task, whose loop dequeues packets and     *)
(* feeds them to the transmit fifo (wifi2uart.c).  The queue is guarded by *)
(* a mutex; its operations are split at every access to shared state.      *)
(***************************************************************************)
EXTENDS Frames, Sums

CONSTANTS
  UART_FIFO_LEN,     \* 128: depth of the hardware transmit fifo
  MAX_QUEUE_LENGTH,  \* 32768: bound on the bytes in the queue
  NetifInfo,         \* the payload of the netif_info frame
  Incoming           \* the packets ip4_input is called with, in order

ASSUME EspTxAssumption ==
  /\ UART_FIFO_LEN \in Nat \ {0}
  /\ MAX_QUEUE_LENGTH \in Nat /\ MAX_QUEUE_LENGTH < 65536
  /\ NetifInfo \in Seq(Byte) /\ Len(NetifInfo) = INFO_LEN
  /\ Incoming \in Seq(Seq(Byte))
  /\ \A i \in 1 .. Len(Incoming) : Len(Incoming[i]) \in 1 .. MTU_LEN

VARIABLES
  \* The event task.
  ev,           \* "info", "echo", "hook", "run" of start_hock, then "done"
  infoLeft,     \* what send_to_uart0_sync still has to write
  target_wifi_netif, runFlag, gpio5,
  \* The queue.
  mutex,        \* "free", or the task that holds it
  queue,        \* the linked list from head to tail
  current_total_length,
  heap,         \* blocks allocated for the queue and not yet freed
  \* The tcpip task, in uart_wifi_recv.
  tcpip,        \* its place in queue_enqueue, or "idle"
  packet,       \* the packet it was called with
  arrived,      \* how many packets ip4_input has been called with
  \* The main task, in wifi2uart.
  main,         \* "init", "loop", a place in wifi2uart, or "dummy_read"
  data,         \* what queue_dequeue returned
  sendbuf,      \* uartSendPtr[0 .. uartSendLen - 1]
  \* The hardware, and histories.
  txfifo, wire, \* bytes in the fifo, and bytes that have left it
  accepted      \* packets queue_enqueue has linked in

evVars   == <<ev, infoLeft, target_wifi_netif, runFlag, gpio5>>
qVars    == <<mutex, queue, current_total_length, heap>>
rxVars   == <<tcpip, packet, arrived>>
mainVars == <<main, data, sendbuf>>
uartVars == <<txfifo, wire>>
vars     == <<evVars, qVars, rxVars, mainVars, uartVars, accepted>>

Init ==
  /\ ev = "info" /\ infoLeft = Frame(NetifInfo, SPLIT_CMD)
  /\ target_wifi_netif = FALSE /\ runFlag = FALSE /\ gpio5 = 1
  /\ mutex = "free" /\ queue = <<>> /\ current_total_length = 0 /\ heap = 0
  /\ tcpip = "idle" /\ packet = <<>> /\ arrived = 0
  /\ main = "init" /\ data = <<>> /\ sendbuf = <<>>
  /\ txfifo = <<>> /\ wire = <<>> /\ accepted = <<>>

\* uart0_fill_txfifo: as many bytes as the fifo has room for.
Room(left) ==
  IF Len(left) >= UART_FIFO_LEN - Len(txfifo) THEN UART_FIFO_LEN - Len(txfifo)
                                              ELSE Len(left)

FillTxfifo(left) == txfifo' = txfifo \o SubSeq(left, 1, Room(left))

\* The uart shifts a byte out when CTS lets it.
Transmit ==
  /\ txfifo # <<>>
  /\ wire' = Append(wire, Head(txfifo)) /\ txfifo' = Tail(txfifo)
  /\ UNCHANGED <<evVars, qVars, rxVars, mainVars, accepted>>

-----------------------------------------------------------------------------
(* The event task.                                                         *)

\* One pass of send_to_uart0_sync, which spins while the fifo is full.
SendInfo ==
  /\ ev = "info" /\ infoLeft # <<>>
  /\ FillTxfifo(infoLeft) /\ infoLeft' = Drop(infoLeft, Room(infoLeft))
  /\ UNCHANGED <<ev, target_wifi_netif, runFlag, gpio5, qVars, rxVars, mainVars,
                 wire, accepted>>

InfoSent ==
  /\ ev = "info" /\ infoLeft = <<>>
  /\ ev' = "echo"
  /\ UNCHANGED <<infoLeft, target_wifi_netif, runFlag, gpio5, qVars, rxVars,
                 mainVars, uartVars, accepted>>

\* recv_netif_info returns (module EspRx): the host has seen the whole frame.
EchoReceived ==
  /\ ev = "echo" /\ Len(wire) = INFO_LEN + 3
  /\ ev' = "hook"
  /\ UNCHANGED <<infoLeft, target_wifi_netif, runFlag, gpio5, qVars, rxVars,
                 mainVars, uartVars, accepted>>

Hook ==
  /\ ev = "hook"
  /\ ev' = "run" /\ target_wifi_netif' = TRUE
  /\ UNCHANGED <<infoLeft, runFlag, gpio5, qVars, rxVars, mainVars, uartVars, accepted>>

\* gpio_set_level(GPIO_NUM_5, 0), runFlag = 1, xSemaphoreGive.
Run ==
  /\ ev = "run"
  /\ ev' = "done" /\ gpio5' = 0 /\ runFlag' = TRUE
  /\ UNCHANGED <<infoLeft, target_wifi_netif, qVars, rxVars, mainVars, uartVars, accepted>>

\* WIFI_EVENT_STA_DISCONNECTED, which the event task handles after start_hock.
Disconnected ==
  /\ ev = "done" /\ runFlag
  /\ runFlag' = FALSE
  /\ UNCHANGED <<ev, infoLeft, target_wifi_netif, gpio5, qVars, rxVars, mainVars,
                 uartVars, accepted>>

-----------------------------------------------------------------------------
(* The tcpip task: ip4_input, uart_wifi_recv, queue_enqueue.               *)

Ip4Input ==
  /\ tcpip = "idle" /\ target_wifi_netif /\ arrived < Len(Incoming)
  /\ tcpip' = "take" /\ packet' = Incoming[arrived + 1] /\ arrived' = arrived + 1
  /\ UNCHANGED <<evVars, qVars, mainVars, uartVars, accepted>>

EnqTake ==
  /\ tcpip = "take" /\ mutex = "free"
  /\ mutex' = "tcpip" /\ tcpip' = "check"
  /\ UNCHANGED <<evVars, queue, current_total_length, heap, packet, arrived, mainVars,
                 uartVars, accepted>>

\* Arithmetic on current_total_length, a uint16_t.
UInt16    == 0 .. 65535
Wrap16(n) == n % 65536

TooLong(n) == current_total_length + n > MAX_QUEUE_LENGTH

\* The packet is dropped: give the mutex back and return.
EnqGiveUp(place) ==
  /\ tcpip = place
  /\ mutex' = "free" /\ tcpip' = "idle"
  /\ UNCHANGED <<evVars, queue, current_total_length, packet, arrived, mainVars,
                 uartVars, accepted>>

\* EnqFull that keeps the mutex.
EnqFullKeepsMutex ==
  /\ TooLong(Len(packet)) /\ tcpip = "check"
  /\ tcpip' = "idle"
  /\ UNCHANGED <<evVars, qVars, packet, arrived, mainVars, uartVars, accepted>>

EnqFull == TooLong(Len(packet)) /\ EnqGiveUp("check") /\ UNCHANGED heap

EnqCheck ==
  /\ tcpip = "check" /\ ~TooLong(Len(packet))
  /\ tcpip' = "alloc_element"
  /\ UNCHANGED <<evVars, qVars, packet, arrived, mainVars, uartVars, accepted>>

EnqAlloc(place, next) ==
  /\ tcpip = place
  /\ heap' = heap + 1 /\ tcpip' = next
  /\ UNCHANGED <<evVars, mutex, queue, current_total_length, packet, arrived, mainVars,
                 uartVars, accepted>>

EnqNoElement == EnqGiveUp("alloc_element") /\ UNCHANGED heap

\* EnqNoData that forgets the element.
EnqNoDataLeaks == EnqGiveUp("alloc_data") /\ UNCHANGED heap

\* No memory for the data: the element is freed again.
EnqNoData == EnqGiveUp("alloc_data") /\ heap' = heap - 1

EnqLink ==
  /\ tcpip = "link"
  /\ queue' = Append(queue, packet) /\ accepted' = Append(accepted, packet)
  /\ tcpip' = "count"
  /\ UNCHANGED <<evVars, mutex, current_total_length, heap, packet, arrived, mainVars,
                 uartVars>>

EnqCount ==
  /\ tcpip = "count"
  /\ current_total_length' = Wrap16(current_total_length + Len(packet))
  /\ mutex' = "free" /\ tcpip' = "idle"
  /\ UNCHANGED <<evVars, queue, heap, packet, arrived, mainVars, uartVars, accepted>>

Tcpip ==
  \/ EnqTake \/ EnqFull \/ EnqCheck
  \/ EnqAlloc("alloc_element", "alloc_data") \/ EnqNoElement
  \/ EnqAlloc("alloc_data", "link") \/ EnqNoData
  \/ EnqLink \/ EnqCount

-----------------------------------------------------------------------------
(* The main task: the loop of app_main, wifi2uart, queue_dequeue.          *)

\* init() gets the semaphore that start_hock gives.
MainStart ==
  /\ main = "init" /\ ev = "done"
  /\ main' = "loop"
  /\ UNCHANGED <<evVars, qVars, rxVars, data, sendbuf, uartVars, accepted>>

\* MainLoop that dequeues before the last frame is out.
MainLoopAlwaysDequeues ==
  /\ main = "loop" /\ runFlag
  /\ main' = "take"
  /\ UNCHANGED <<evVars, qVars, rxVars, data, sendbuf, uartVars, accepted>>

\* while(runFlag) { uart2wifi(); wifi2uart(); }
MainLoop ==
  /\ main = "loop" /\ runFlag
  /\ main' = IF sendbuf = <<>> THEN "take" ELSE "fill"
  /\ UNCHANGED <<evVars, qVars, rxVars, data, sendbuf, uartVars, accepted>>

\* gpio_set_level(GPIO_NUM_5, 1), and the dummy reads for ever.
NotifyLinkDown ==
  /\ main = "loop" /\ ~runFlag
  /\ main' = "dummy_read" /\ gpio5' = 1
  /\ UNCHANGED <<ev, infoLeft, target_wifi_netif, runFlag, qVars, rxVars, data, sendbuf,
                 uartVars, accepted>>

\* DeqTake that does not wait for the mutex.
DeqTakeUnlocked ==
  /\ main = "take"
  /\ mutex' = "main" /\ main' = "unlink"
  /\ UNCHANGED <<evVars, queue, current_total_length, heap, rxVars, data, sendbuf,
                 uartVars, accepted>>

DeqTake ==
  /\ main = "take" /\ mutex = "free"
  /\ mutex' = "main" /\ main' = "unlink"
  /\ UNCHANGED <<evVars, queue, current_total_length, heap, rxVars, data, sendbuf,
                 uartVars, accepted>>

\* DeqEmpty that keeps the mutex.
DeqEmptyKeepsMutex ==
  /\ main = "unlink" /\ queue = <<>>
  /\ main' = "loop"
  /\ UNCHANGED <<evVars, qVars, rxVars, data, sendbuf, uartVars, accepted>>

DeqEmpty ==
  /\ main = "unlink" /\ queue = <<>>
  /\ mutex' = "free" /\ main' = "loop"
  /\ UNCHANGED <<evVars, queue, current_total_length, heap, rxVars, data, sendbuf,
                 uartVars, accepted>>

DeqUnlink ==
  /\ main = "unlink" /\ queue # <<>>
  /\ data' = Head(queue) /\ queue' = Tail(queue)
  /\ main' = "count"
  /\ UNCHANGED <<evVars, mutex, current_total_length, heap, rxVars, sendbuf, uartVars,
                 accepted>>

\* DeqCount that frees the data with the element.
DeqCountFreesData ==
  /\ main = "count"
  /\ current_total_length' = Wrap16(current_total_length - Len(data))
  /\ heap' = heap - 2
  /\ mutex' = "free" /\ main' = "copy"
  /\ UNCHANGED <<evVars, queue, rxVars, data, sendbuf, uartVars, accepted>>

DeqCount ==
  /\ main = "count"
  /\ current_total_length' = Wrap16(current_total_length - Len(data))
  /\ heap' = heap - 1
  /\ mutex' = "free" /\ main' = "copy"
  /\ UNCHANGED <<evVars, queue, rxVars, data, sendbuf, uartVars, accepted>>

\* The frame is built in uartSendbuffer and the data freed.
BuildFrame ==
  /\ main = "copy"
  /\ sendbuf' = Frame(data, SPLIT_DATA) /\ data' = <<>>
  /\ heap' = heap - 1
  /\ main' = "fill"
  /\ UNCHANGED <<evVars, mutex, queue, current_total_length, rxVars, uartVars, accepted>>

FillFifo ==
  /\ main = "fill"
  /\ FillTxfifo(sendbuf) /\ sendbuf' = Drop(sendbuf, Room(sendbuf))
  /\ main' = "loop"
  /\ UNCHANGED <<evVars, qVars, rxVars, data, wire, accepted>>

Main ==
  \/ MainStart \/ MainLoop \/ NotifyLinkDown
  \/ DeqTake \/ DeqEmpty \/ DeqUnlink \/ DeqCount \/ BuildFrame \/ FillFifo

EventTask == SendInfo \/ InfoSent \/ EchoReceived \/ Hook \/ Run

Next == EventTask \/ Disconnected \/ Ip4Input \/ Tcpip \/ Main \/ Transmit

Spec == Init /\ [][Next]_vars

(***************************************************************************)
(* Fairness.  Each task runs on when it can: the event and the tcpip task  *)
(* have a higher priority than the main task and block when they have      *)
(* nothing to do.  A task that waits for the mutex gets it (strong         *)
(* fairness: FreeRTOS wakes the waiting task of the highest priority, and  *)
(* there are only two).  CTS does not stay off for ever.                   *)
(***************************************************************************)
FairSpec ==
  /\ Spec
  /\ WF_vars(EventTask) /\ WF_vars(Main) /\ WF_vars(Tcpip)
  /\ SF_vars(DeqTake) /\ SF_vars(EnqTake) /\ WF_vars(Transmit)

-----------------------------------------------------------------------------
(* Properties.                                                             *)

\* Reading stops at position i of bs when the frame there is not whole, or its
\* length field is not that of a packet.
FrameSizeAt(bs, i) == FrameLen(Drop(bs, i))
StopsAt(bs, i) ==
  \/ i + 2 > Len(bs)
  \/ FrameSizeAt(bs, i) < 1
  \/ i + FrameSizeAt(bs, i) + 3 > Len(bs)

\* The packets in a sequence of bytes, going by the length fields alone.
Reads(bs) ==
  LET from[i \in 0 .. Len(bs)] ==
        IF StopsAt(bs, i)
          THEN <<>>
          ELSE <<Payload(Drop(bs, i), FrameSizeAt(bs, i))>>
                 \o from[i + FrameSizeAt(bs, i) + 3]
  IN from[0]

\* The packets a receiver reads off the wire behind the netif_info frame.
Received ==
  IF Len(wire) < INFO_LEN + 3 THEN <<>> ELSE Reads(Drop(wire, INFO_LEN + 3))

Pipe == INSTANCE PacketPipe WITH
  Packet <- { Incoming[i] : i \in 1 .. Len(Incoming) }, received <- Received

\* The three tasks implement a packet pipe: what a receiver decodes from the
\* wire is at every moment the first of the packets queue_enqueue accepted, and
\* a step takes in or puts out at most one.
ImplementsPipe == Pipe!Spec

\* The bytes queue_dequeue will account for: the lengths of the elements.
TotalLength(ps) == SumOf([n \in 1 .. Len(ps) |-> Len(ps[n])])

PlacesOK ==
  /\ ev \in {"info", "echo", "hook", "run", "done"} /\ gpio5 \in {0, 1}
  /\ mutex \in {"free", "tcpip", "main"}
  /\ tcpip \in {"idle", "take", "check", "alloc_element", "alloc_data", "link", "count"}
  /\ main \in {"init", "loop", "take", "unlink", "count", "copy", "fill", "dummy_read"}

FlagsOK == target_wifi_netif \in BOOLEAN /\ runFlag \in BOOLEAN

NumbersOK ==
  current_total_length \in UInt16 /\ heap \in Nat /\ arrived \in 0 .. Len(Incoming)

BuffersOK ==
  /\ infoLeft \in Seq(Byte) /\ packet \in Seq(Byte) /\ data \in Seq(Byte)
  /\ sendbuf \in Seq(Byte) /\ txfifo \in Seq(Byte) /\ wire \in Seq(Byte)

QueuesOK == queue \in Seq(Seq(Byte)) /\ accepted \in Seq(Seq(Byte))

\* The queue's fields and the tasks' places hold values of their types; the
\* length fits a uint16_t, and no block is freed that was not allocated.
TypeOK == PlacesOK /\ FlagsOK /\ NumbersOK /\ BuffersOK /\ QueuesOK

\* Nothing is lost, repeated, reordered or mixed between enqueue and the wire:
\* the netif_info frame and then the frames of the accepted packets are, in
\* this order, on the wire, in the fifo, in uartSendbuffer, in the hands of
\* wifi2uart or in the queue.
Conservation ==
  Frame(NetifInfo, SPLIT_CMD) \o DataBytes(accepted) =
    wire \o txfifo \o infoLeft \o sendbuf
      \o (IF main \in {"count", "copy"} THEN Frame(data, SPLIT_DATA) ELSE <<>>)
      \o DataBytes(queue)

\* Whenever nobody holds the mutex the byte count is that of the elements, and
\* so never above the limit: the uint16_t neither drifts nor wraps, whichever
\* of the allocations fail.
Accounted ==
  mutex = "free" =>
    /\ current_total_length = TotalLength(queue)
    /\ current_total_length <= MAX_QUEUE_LENGTH

\* No allocation is leaked or freed twice: two blocks for every element of the
\* queue, one for data that has been dequeued, and what the tcpip task has
\* allocated for the element it is about to link in.
HeapBalanced ==
  heap = 2 * Len(queue)
           + (CASE main = "count" -> 2 [] main = "copy" -> 1 [] OTHER -> 0)
           + (CASE tcpip = "alloc_data" -> 1 [] tcpip = "link" -> 2 [] OTHER -> 0)

WifiLost == ev = "done" /\ ~runFlag

\* Every accepted packet reaches the wire, unless Wi-Fi is lost first.
AcceptedSent ==
  <>WifiLost \/ []<>(wire = Frame(NetifInfo, SPLIT_CMD) \o DataBytes(accepted))

\* When Wi-Fi is lost the host is told, even while the queue is full and the
\* tcpip task keeps calling: GPIO5 goes up and stays up.
LinkDownNotified == WifiLost ~> [](gpio5 = 1)
=============================================================================
