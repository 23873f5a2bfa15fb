# A TLA+ verification of esp8266_hosted_linux

The repository turns an ESP8266 into a network card: a Linux driver
(`src/uart_wifi_driver`) and an ESP8266 firmware (`src/uart_wifi_passthrough`)
exchange IP packets over a serial line with RTS/CTS. This directory holds TLA+
modules translated from that code, TLC configurations that check them on small
instances, and TLAPS proofs of the main safety properties for all values of the
parameters. `PROJECT.json` maps every definition to source lines and lists the
runs, mutants, findings, hazards and theorems.

## The system

Everything on the line is a frame: a little-endian `int16_t` length, the
payload, and a terminator byte (`SPLIT_DATA` 0x55 for packets, `SPLIT_CMD` 0xaa
for the handshake). A session goes like this.

1. The host's link work pulls the station's reset line, waits, and writes the
   ssid and the password as two frames.
2. The station reads both (`recv_ssid`, `recv_passwd`), connects, and on
   `IP_EVENT_STA_GOT_IP` sends its addresses as the *netif_info* frame.
3. The host's line discipline (`ttyio_netif_info`) accepts the frame, writes it
   back as an echo and from then on parses data frames.
4. The station compares the echo (`recv_netif_info`), hooks `ip4_input`, pulls
   GPIO5 low and enters its main loop. The host's interrupt handler schedules
   the link work, which finds GPIO5 low and turns the carrier on.
5. Packets flow both ways. When Wi-Fi is lost the station leaves the loop and
   raises GPIO5; the host resets its receive fields and starts again.

| Component | State | Operations | Hard about it |
|---|---|---|---|
| ESP receiver, `uart2wifi.c` | `status`, `uartRecvBuffer`, `uartDataLen`, `send_pbuf` | `recv_ssid`, `recv_passwd`, `recv_netif_info`, `uart2wifi`, `read_uart0` | four functions share one buffer; resync; retry of a refused pbuf |
| ESP sender, `wifi2uart.c` | the queue, its mutex and byte count, `uartSendbuffer` | `queue_enqueue`, `queue_dequeue`, `uart_wifi_recv`, `wifi2uart`, `send_to_uart0_sync` | two tasks, two allocations under a mutex, a frame sent piecemeal |
| ESP start-up, `main.c`, `lwip.patch` | `runFlag`, `target_wifi_netif`, GPIO5 | `start_hock`, `wifi_event_handler`, `app_main`, the `ip4_input` hook | three tasks, loss of Wi-Fi at any time |
| Host receive path, `uart.c` | `uart_recv_status`, `uartDataLen`, `recv_skb`, `netif_info*` | `ttyio_receive_buf2`, `ttyio_receive_data`, `ttyio_netif_info`, `alloc_new_skb_to_recv` | bytes in arbitrary portions, resync, unlocked resets by the link work |
| Host link work, `netdev.c` | `work_hold`, `force_reset`, the GPIOs, the carrier | `gpio_irq_handler`, `esp8266ex_init_work_handler`, `uart_wifi_open`, `uart_wifi_stop` | races with stop, xmit and the receive path; timeouts |
| Host transmit path, `netdev.c`, `uart.c` | the tty buffer, the netdev queue state | `uart_wifi_xmit`, `ttyio_write_wakeup` | lost wakeup; writes interleaved with the link work's |
| sysfs attributes, `main.c` | `ssid`, `password`, `netif_info` text | `str_show`, `str_store`, `str_show_connect_info` | lengths cached elsewhere, truncation |
| Driver life cycle, `main.c`, `netdev.c`, `uart.c` | registrations | `probe`, `remove`, `netdev_init`, `ttyio_init` | error paths |

`dump.c` only logs; `uart_wifi_receive`, `queue_clear` and `queue_destroy` have
no caller.

## Modules

**Frames** holds the frame format and the helpers of the receivers: `FrameLen`
(the signed 16-bit length), `Payload`, `Frame`, `Drop` (the memmove), `FirstAt`
and `Absent` (the terminator search). The limits `MTU_LEN`, `MIN_DATA_LEN`,
`INFO_LEN` are constants, so TLC works on frames of a few bytes and the proofs
cover the real ones. Buffers are sequences: the code's `buf[k]` is `buf[k+1]`.

**EspRx** is the station's receiver. `fn` says which of the four functions runs;
one action is one pass from the label `restart` to the next `goto` or `return`.
`Fill` is `uart0_recv_data`; `ReadLen` is STATUS_LEN; `Reject`, `AcceptSsid`,
`AcceptPasswd`, `AcceptEcho`, `Alloc`, `AllocFails`, `Output`, `OutputFails` are
the outcomes of STATUS_DATA; `Resync` and `Discard` are STATUS_SPLIT. The host
is a *scenario*: a byte string with the credentials and packets it stands for.
What the theorems assume of a scenario is stated in three definitions,
`CredentialsFirst`, `QuietLines` and `FirstFramePlain`, which `MCEspRx` assumes of
its scenarios, so that TLC evaluates them.

**EspTx** is the station's sender with its three tasks. The operations of the
queue are split at every access to shared state, under the mutex: check of the
limit, two allocations that may fail, linking, counting; unlinking, counting,
building the frame, filling the fifo. `wire` and `accepted` are histories.

**HostRx** is the host's receive path. A call of `ttyio_receive_buf2` takes any
prefix of the buffered bytes as `cp` and works on copies (`st`, `dlen`, `rlen`)
of `uart_recv_status`, `uartDataLen` and `netif_info_recv_len`, which it stores
when it exits, as the code does. Each pass of a parser is an action, so that
`LinkReset` (the fields the link work resets, and the station's output cut off)
can happen between any two. `LineNoise` inserts bytes. `wire` (every byte put on
the line) and `sent` are histories. The arithmetic is the code's also where a stale
length is negative: `skb->len < uartDataLen+3` compares unsigned (`DataShort`), so
that a length below -3 makes the call copy a negative count (`Overrun`,
`call = "fault"`); at -3 the byte in front of the data is looked at, which is 0
(`EndByte`); and in an skb of fewer than 3 bytes `skb->len -= 3` wraps, which
`wrapped` remembers, since what the stack then gets as a packet is memory that was
never received. When an allocation at
the head of a call fails, the call returns 0 and the tty's flush work ends until
new bytes arrive (`flush`; the tty core is modelled from its contract).

**HostTx** is the host's transmit path. Three contexts share the tty's transmit
buffer (`circ`) without a lock: the stack in `uart_wifi_xmit` (one action per
write, and one for each of `netif_stop_queue` and `set_bit`), the link's start-up
(flush, reset, ssid, password, echo), and the uart, which drains any number of
bytes and calls `ttyio_write_wakeup` by the tty core's rule (fewer than
`WAKEUP_CHARS` left, bit set). A byte is a pair of frame and position; `last` and
`gone` remember the last byte on the line and the last packet byte that left.

**HostLink** composes both ends at the level of frames: `uart_wifi_open` and
`uart_wifi_stop` step by step, the interrupt on both edges of GPIO5, the link work
statement by statement, the receiver's part of the handshake, a reader of
netif_info, a stack that sends to a station that is not up, a password that
changes, and the station from reset to `app_main`'s last loop. What the station
makes of a frame it does not wait for (skip it, skip up to the next terminator,
take it for a credential) is nondeterministic here; EspRx has the bytes. A password
of another length than the work has read goes out cut (`"torn"`) or, when it is
shorter, whole with old bytes behind it (`"long"`), which `recv_passwd` accepts.
While the station connects it reads nothing and the bytes wait behind RTS.

**Driver** is the life cycle: module load and unload, probe and remove, sysfs
writes, `netdev_init`, `ttyio_init` and ifup/ifdown as they acquire and release
things, each with its failures, which the history `failed` records. Of a credential
array it has the length field and how far it was written. What the code leaves to
chance after a failure is an action as well: `SysfsOops` (netif_info is read after
its device is gone), `LdiscOops` (bytes reach a tty that a failed open left attached
and whose struct unbind has freed), `RemoveOops`.

**PacketPipe** is the abstract specification of one direction: accepted packets
come out whole, once and in order. EspTx implements it (`ImplementsPipe`, with
`received` mapped to what the length fields on the wire delimit).

The host code passes `rwlock_t` by value to `read_lock` and `write_lock`, which
compiles only for a uniprocessor kernel, where these only disable preemption.
Nothing in the models relies on that lock, and every interleaving used in a
counterexample needs only an interrupt or a sleep on one processor.

**MCEspRx, MCEspTx, MCHostRx, MCHostTx** give the constants values; HostLink and
Driver are checked as they are. **Sums** has the total of a sequence of lengths,
which the queue's account (EspTx) and a packet's fragments (HostTx) need.
**FramesProofs, InductionProofs, EspRxProofs, EspTxProofs, HostRxProofs,
HostTxProofs, HostLinkProofs, DriverProofs** hold the lemmas and theorems.

Operators named after another one with a suffix (`LenBadNoMax`,
`DeqTakeUnlocked`, ...) are faulty variants. No specification uses them; they
are the mutants of `PROJECT.json`, and each makes a property fail.

## Runs

| Run | Shows |
|---|---|
| `esp_rx` | a session in every cut, with failing allocations and sends, and bursts of up to three bytes from {0, 2, 8, 9, 0x55}: no overflow, credentials intact, retries coherent, on a quiet line packets in order and once, at most the first lost and the last one out; after noise the last packet goes out as well, unless a false length covers it: then it goes out inside the false frame or waits in the buffer |
| `esp_tx` | conservation of bytes from enqueue to wire, length and heap accounts, delivery, notification of a Wi-Fi loss, refinement of PacketPipe |
| `host_rx_stream` | every cut, failing allocations, noise, a link reset between any two steps, stale negative lengths: arrays hold and no length wraps (in the first session for the skb), the packets delivered with their true length are bytes of the line in their order and once, data calls return; undisturbed, packets come whole and in order, everything is delivered and the handshake completes |
| `host_tx` | frames whole on the line until an established link is lost, no packet byte twice or after a refused offer, a stopped queue woken if bytes are left to drain |
| `host_link` | stop ends everything and returns, no edge of GPIO5 is lost, host and station agree on the phase, a link with the right password comes up whatever happened before, a reader of netif_info is woken |
| `driver` | a registered interface and a requested interrupt have the struct and the code, an attached line discipline has the code, and the struct while the interface is up; ifdown, unbind and unload give back what was taken, unless taking it had failed; attribute writes are contained |
| `host_rx_overrun`, `host_rx_info_loop`, `host_rx_stale_len`, `host_tx_wakeup`, `host_link_stop`, `driver_probe` | disagreements between the code and what it says, below |

**Bounds.** Payloads are up to 5 bytes, the netif_info payload 2, the fifos 3 or 4,
the queue 5: small enough that a frame spans several fills, that two frames share
one, that the queue fills, and that one frame's worth of garbage contains lengths
above and below the limits. Two to four packets show loss, repetition and
reordering. In `esp_rx` packets have 1 or 2 bytes and `MTU_LEN` is 9, so that a
false length (2, 8 or 9) can end inside what follows, with the last frame, or
behind it. In HostRx `MaxNoise` (inserted
bytes) and `MaxRelinks` (1) bound the disturbances and `MaxDisturbances` (2, or 3
for the stale length) how many of both happen together: two disturb a session
and its successor. The packets of `host_rx_stream` hold terminators and the bytes
255 and 254, so that after one byte of noise the parser reads the lengths -257 and
-2, refuses them and keeps them over the reset; and a whole frame, so that a
resync inside a packet delivers it. In HostTx the buffer (`ROOM` 6) holds one packet frame but not
two, `WAKEUP_CHARS` 2 leaves drains with and without a wakeup, and `MaxResets` 2
allows a retried start-up and a lost link in one behaviour. In HostLink
`MaxEvents` 3 is what it takes to open, close and open again, or to open, lose
the link and send into the gap. In Driver the arrays are 2 and 3 long and
`MaxLen` 8 passes every limit. Deadlock is not checked in the runs that have an
end: when the input, the packets or the events are used up the system rests, and
Driver stops at an oops.

**Fairness.** EspRx: the parsing task is a busy loop on the only core; the
host's uart sends what RTS permits; the access point answers; `pbuf_alloc` and
`netif->output` do not refuse for ever (strong fairness on success). EspTx: the
tasks of higher priority block when idle, so each task runs; a task waiting for
the mutex gets it; CTS does not stay off. HostRx: the flush work runs while
bytes are buffered and it has not been ended by a 0, a call that has begun runs
on, the interface is brought up and the station answers. HostTx: each context
that has something to do runs on, and the uart drains, since the station reads
its fifo in every state, at the end with the dummy reads of `app_main`. HostLink:
interrupts, queued works and the tty's receiver run, an ifdown that began goes
on, and a station out of reset boots and reads. A loss of Wi-Fi, line noise,
link resets, an ifup and a new password are never forced.

## What the code does that its text does not say

- **`host_rx_overrun`**: the resync in `cp` counts processed bytes twice, and
  `surplus` goes negative. `processed + surplus` stays right (`Bookkeeping`).
- **`host_rx_info_loop`**: the resync of `ttyio_netif_info` finds the length
  byte it failed on, and the call never returns. One link reset in the middle of
  a netif_info frame is enough, on a clean line.
- **`host_rx_stale_len`**: accepting netif_info does not store STATUS_LEN. If the
  frame came in two calls, STATUS_DATA stays behind; with the skb of an earlier
  session the next data call continues with a stale, possibly refused, length
  and writes behind the skb. In the first session this cannot happen
  (`FirstSessionSafe`), since there is no skb yet.
- **`host_tx_wakeup`**: the queue is stopped and the wakeup asked for after
  `write_room` was read. If the uart sends its last bytes in between, no further
  interrupt comes and the queue stays stopped until the link is reset.
- **`host_link_stop`**: `uart_wifi_stop` deselects the station first and cancels
  the work last; the work, even one started by the edge that the reset causes,
  selects the station again.
- **`driver_probe`**: probe returns 0 when `netdev_init` has failed.

The models show or contain more of this kind, without a run of its own:

- The echo is 64 bytes, the frame 15; the rest costs the station the first data
  frame of a session. `OnlyFirstFrameLost` shows that it costs no more, if that
  frame has no 0x55 inside (`FirstFramePlain`). If it has one, the search for the
  terminator stops there: with the first packets `<<0x55, 3, 0>>` and
  `<<0x55, 13, 14>>` at the small limits of `EspRx.cfg`, TLC finds `<<0x55, 3, 0>>`
  handed to lwIP in place of the second, made of the end of the first frame and
  the length field of the second.
- After a resync inside the skb a packet is delivered with bytes of the next
  frame behind it: the byte stripped from its tail is not the terminator.
- An acceptable length that noise made up holds back the packets behind it: with a
  false length of 1500 before a few short packets `uart2wifi` waits until that many
  bytes have come (`LastWithheld`), and then refuses them or, if a 0x55 is in the
  right place, passes them on as one packet (`LastSwallowed`).
- `recv_skb` keeps the start of a frame over a link reset, and what is delivered
  first in the new session was never sent. With a stale length of -1, -2 or -3 it
  may be an skb of fewer than 3 bytes whose length wraps (`wrapped`).
- The link work keeps the lengths it read before its loop. A password of another
  length stored while it loops is sent cut, or with old bytes behind it, in every
  retry, until GPIO5 falls or the interface is closed: hence the condition of
  `LinkComesUp`.
- The carrier stays on when the link is found down, so that packets are written
  between the credentials (`Xmit` in HostLink; `FramesWhole` ends there).
- `remove` leaves `netif_info` in sysfs: its reader follows a null pointer
  (`SysfsOops`) and the next probe fails at that file.
- A failed ifup keeps the tty open (`OpenFails`), and no later one can have it;
  after a failed `request_irq` its line discipline also holds the module, and once
  the device is unbound its `disc_data` points to freed memory (`LdiscOops`).
- A device tree's password is checked against the whole array and may be written
  over the two unused length fields behind it (`WritesContained`).
- `recv_ssid` and `recv_passwd` refuse a frame only if its last byte *and* its
  terminator are wrong (`CredentialBad`).
- `ttyio_netif_info` compares a plain `char` with 0xaa (`IsSplitCmd`): all runs
  set `CHAR_SIGNED = FALSE`, as on ARM; with `TRUE`, as on x86,
  `HandshakeCompletes` fails in `HostRxStream.cfg`.

## Proofs

For every value of the constants that satisfies the named assumptions
(`FrameAssumption`: terminators are bytes and the limits fit the length field;
`EspRxAssumption`, `HostRxAssumption`: limits are ordered, inputs are bytes;
`EspTxAssumption`: a fifo of at least one byte, a queue limit that fits its
`uint16_t`, packets of 1 to `MTU_LEN` bytes; `HostTxAssumption`: the tty's buffer
holds the longest frame, and three command frames, since the ssid, the password
and the echo may all wait in it; it is a page, they are some 200 bytes).

**InductionProofs** has what the others need about recursive functions. The
library's induction theorems take a predicate as a parameter, which the provers
cannot instantiate; here induction is over a *set* of naturals (`SetInduction`,
from the least element of its complement, `LeastNat`). It gives a solution for
each recursion used (`RecursionExists` for one that runs up from 0,
`ForwardRecursionExists` for one that reads ahead in a sequence, as a parser of
length fields does), and from these what `SumOf` does on `Append` and `Tail`. A
property that holds of every solution then holds of the definition.

**FramesProofs** has the byte-level facts: what `Drop` leaves, what bytes a frame
consists of and that its length field is read as it was written, what `DataBytes`
does on `Append` and `Tail`, and that two bytes at the front of the frames of some
packets are the length of the first packet (`FirstLength`) and that many bytes its
whole frame (`FirstFrame`). `FrontLength` and `FrontFrame` say the same of any
frame with any bytes behind it.

**EspRxProofs**: `TypeCorrect`, `BufferSafe`, `RetrySafe`, `CredentialsArrive`,
`OnlyFirstLost`. For the first three, which assume nothing of the scenario, the inductive
invariant is `TypeOK /\ BufferFits /\ LengthInRange /\ RetryInv`. `BufferFits` is
not inductive alone: a fill adds up to `UART_FIFO_LEN` bytes, so it must start
below `MAX_FRAME_LEN`, which in STATUS_DATA needs a length that was checked.
`RetryInv` adds to `RetryCoherent` that the terminator is right, which is why a
kept pbuf is never followed by `Reject`. `CredentialsArrive` has the hypothesis
`CredentialsFirst`: after the reset the ssid frame and the password frame come first
(`esp8266ex_init_work_handler` writes them so, whole by `WholeFrames`)
with lengths the station accepts. The host checks only the upper limits: a password
below `WPA_MIN_PASSWD_LEN` is sent and never accepted. The invariant `Creds` follows
the `Stream`, the buffer, the fifo and the line joined: while a credential is read the
stream begins with its frame, so the length read is the credential's, the terminator
is right and STATUS_SPLIT is not reached, whatever comes behind and however the fifo
portions it out. `OnlyFirstLost` has two more hypotheses. `QuietLines`: behind the
credentials come the echo, the other bytes of the echoed array, and data frames of
lengths `uart2wifi` accepts; those other bytes are zeros or the text of addresses, hence
never such a length and never 0x55. `FirstFramePlain`: see above. Its invariant `Quiet`
follows the stream through three phases of `uart2wifi`: `Before` the length in the rest
of the array is read, `Skipping` with exactly one terminator between the parser and the
second frame (a buffer that is thrown away never holds it), and `Passing`, where the
stream is the frames of the packets not handed on.

**EspTxProofs**: `TypeCorrect`, `MutualExclusion`, `NoLeak`, `CountExact`,
`BytesConserved`, `Refines`. Each property but `Conservation` fails to be inductive
alone. `OneInQueue` ties the mutex to the places of both tasks. `Counted` gives the
byte count inside the critical sections, where it is short of a packet linked in
and ahead of one unlinked, and says that a packet past the check fits; without the
second part the `uint16_t` could wrap. `Staged` orders the two writers of the fifo:
the main task writes after start_hock has written all of netif_info, and dequeues
only with an empty `uartSendbuffer`. `Flow` is `Conservation` with a name for the
concatenation. `Refines` shows that every step of `Spec` is a step of PacketPipe
or a stutter. By `Flow` the wire, past netif_info, is a prefix of the frames of the
accepted packets (`WireStarts`); a parser of length fields reads off such a prefix
exactly the frames that are whole in it (`ReadOffPrefix`); so one more byte on the
wire either leaves what was read or adds the next accepted packet
(`TransmitDelivers`), and no other step changes the wire.

**HostTxProofs**: `TypeCorrect`, `WholeFrames`, `NeverTwice`, for any packets in any
pieces and any number of resets. `InFrame`: what `uart_wifi_xmit` has written and
has still to write is its packet's frame. `AllWritten`: a packet byte in the buffer
or gone belongs to an earlier packet or was just written, which makes `SentOnce`
inductive across flushes and refusals. `Alone`: until a link that was up is lost,
the link work writes only while nobody is in `uart_wifi_xmit`, and both have the room
they need, so that no write is cut short. `Joined`: the newest byte ends a frame, or
`uart_wifi_xmit` is right behind it. Losing a link breaks `Alone`, since the carrier
stays on, and with it the premise of `FramesWhole`; `NeverTwice` holds even then.

**HostRxProofs**: `TypeCorrect`, `InfoSafe`, `SessionSafe`, `InOrder`, `NothingTwice`. The invariant adds
`Bookkeeping` (processed and surplus add up, so no read goes past `cp`),
`HasSkb`, and for the first session `Phases` (no skb before the addresses are
in, and no way back) and `LengthChecked` (STATUS_DATA comes with a checked
length, in the locals and in the stored fields). After a link reset `Phases`
fails, and with it the conclusion, as `host_rx_stale_len` shows. That no length has
wrapped (`Unwrapped`) follows from `LengthChecked`: with a checked length a complete
skb has at least 3 bytes (`CompleteSkb`). `InOrder` needs
`Clean` as well, which says where every byte of an undisturbed stream is. Until
netif_info is accepted (`Telling`), the received part of the array and the line behind
what the call has processed are the station's frame. From then on (`Passing`) the skb
and the line behind it are the frames of the packets forwarded and not yet delivered,
and the skb ends within the first of them, at a place that fits the state, in the
locals of a call and in the fields between calls. So the length that is read is that
of the next packet, the byte at its end is the terminator, and neither parser reaches
STATUS_SPLIT. Acceptance leaves an empty line, because the station waits for the echo
before it forwards anything. The proof also covers a signed `char` (`CHAR_SIGNED`),
where nothing is ever accepted and the parser may do what it likes.
`NothingTwice` is `DeliveredOnce` with no condition on the packets, the noise or the
resets; it is about the packets passed on with their true length, as one whose length
has wrapped has no bytes to speak of. Its invariant `Consumed` says that the bytes passed on, the skb and what is
`Unread` of the line, one behind the other, have places in `wire` in this order
(`Embeds`): a copy moves a byte from the line to the skb and changes nothing, a new
byte goes to the end of both, and a delivery, a resync, a return and a reset only take
bytes out (`EmbedsWithout`). The resync that counts too far needs `Astray`: such a call
is back in STATUS_LEN with nothing received, so that its next step faults and it never
returns its count to the tty. `EmbedsFound` then shows that the search in the
definition of `IsSubsequence` finds what has places. What the theorem does not say is
that a delivered packet was sent as such: an inserted byte can turn one packet into
another, and a reset can join the halves of two.

**DriverProofs**: `TypeCorrect`, `CallbacksSafe`, `AllGivenBack`, `WritesSafe`, for
every length of the arrays and the strings (`DriverAssumption`). The invariant adds `InStep`: a
bound device has its memory, an interface exists only on a bound device of a
loaded module, is up only when registered, and only then has the interrupt. With it
unbind with the interface up runs `Stop`, and one with it down has nothing to give
back but what a failed open left.

**HostLinkProofs**: `TypeCorrect`, `StopQuiet`, `NoEdgeLost`, `InSync`, for any
number of outside events (`HostLinkAssumption`). The invariant adds `Control`: the
interrupt is requested from open to `free_irq` and only then can an edge wait, an
open interface has `work_hold` set (so its work never gives up), and a work about to
turn the carrier on has GPIO5 low or another run ahead of it. `InSync` needs `Sync`
as well: the host sets `netif_info_vaild` only after it wrote the echo, so the station
may be up before the flag is set. An echo under way says that the flag is set or
about to be, except between the work's clearing of the flag and its flush, and GPIO5
says the same until the station is reset; a closed interface has nothing under way.

Only model-checked: liveness and its fairness, which are out of the prover's reach.
Every invariant of a passing run, and the refinement of PacketPipe, is a theorem.

## Not modelled

The statistics counters, log output, the text format of `netif_info` and of
`str_show`, the tty's line settings, lwIP and the Wi-Fi driver beyond success and
failure of their calls, a repeated `IP_EVENT_STA_GOT_IP`, the failures of the
station's `init`, and the components listed as `not_modelled` in `PROJECT.json`.
Bytes changed in place are not modelled: noise inserts bytes and resets cut them
off. HostTx and HostLink share the link work; HostTx has what it does to the
transmit buffer and HostLink its control.

## Plan

What the modules leave out and could still take in, the nearest first: a repeated
`IP_EVENT_STA_GOT_IP` in EspTx (`start_hock` runs a second time), bytes changed in
place as a second kind of noise in HostRx and EspRx, and the failures of the station's
`init`.
