------------------------------ MODULE HostLink ------------------------------
(***************************************************************************)
(* The life of the link, on both sides of the line.  On the host: ifup and *)
(* ifdown (uart_wifi_open, uart_wifi_stop), the interrupt on the edges of  *)
(* GPIO5, the link work (esp8266ex_init_work_handler), the receiver, which *)
(* answers netif_info with its echo, a reader of the netif_info attribute, *)
(* and the stack, which sends while the carrier is on.  On the station:    *)
(* reset, boot, the two credentials, Wi-Fi, netif_info, its echo, and      *)
(* GPIO5 low while the link is up.                                         *)
(*                                                                         *)
(* A frame is a name here: "ssid"; "right" or "wrong" for the password,    *)
(* "torn" for one that is cut or follows on another, "long" for the right  *)
(* one with bytes of an older one behind; "echo"; "data".  EspRx and       *)
(* HostRx have the bytes.                                                  *)
(***************************************************************************)
EXTENDS Integers, Sequences

CONSTANT
  MaxEvents   \* bound on what happens from outside: ifups, new passwords, slow boots,
              \* early retries, failed or lost connections, packets to a station not up

ASSUME HostLinkAssumption == MaxEvents \in Nat

VARIABLES
  admin,        \* "closed", "open", or the place in uart_wifi_stop
  password,     \* the password attribute: "right" or "wrong"
  work,         \* "idle", or the place in esp8266ex_init_work_handler
  pending,      \* the work is queued
  password_len, \* the password whose length the work has read
  force_reset, work_hold, netif_info_vaild,
  carrier, qstopped,
  armed, edge,  \* the interrupt is requested; an edge waits for its handler
  gpio_reset, gpio5,
  rx,           \* "idle", or "echoed": in ttyio_netif_info, past its write
  reader,       \* of netif_info: "asleep", "awake" or "done"
  st, skip,     \* the station's place; it is looking for the next SPLIT_CMD
  toEsp,        \* frames under way to the station, in the tty's buffer included
  toHost,       \* netif_info frames under way to the host
  events        \* how much has happened from outside

adminVars == <<admin, password>>
workVars  == <<work, pending, password_len, force_reset, work_hold>>
netVars   == <<carrier, qstopped>>
infoVars  == <<netif_info_vaild, rx, reader, toHost>>
irqVars   == <<armed, edge>>
stVars    == <<gpio_reset, gpio5, st, skip>>
vars == <<adminVars, workVars, netVars, infoVars, irqVars, stVars, toEsp, events>>

\* The driver is bound: probe drives gpio_reset low.
Init ==
  /\ admin = "closed" /\ password \in {"right", "wrong"}
  /\ work = "idle" /\ pending = FALSE /\ password_len = "wrong"
  /\ force_reset = FALSE /\ work_hold = FALSE /\ netif_info_vaild = FALSE
  /\ carrier = FALSE /\ qstopped = FALSE
  /\ armed = FALSE /\ edge = FALSE
  /\ gpio_reset = 0 /\ gpio5 = 1 /\ st = "off" /\ skip = FALSE
  /\ rx = "idle" /\ reader = "asleep" /\ toEsp = <<>> /\ toHost = 0 /\ events = 0

Event == events < MaxEvents /\ events' = events + 1

\* EdgeOn that only sees GPIO5 fall.
EdgeOnFallingOnly(level) == edge' = (edge \/ (armed /\ gpio5 = 1 /\ level = 0))

\* IRQF_TRIGGER_FALLING | IRQF_TRIGGER_RISING.
EdgeOn(level) == edge' = (edge \/ (armed /\ gpio5 # level))

\* The station's reset input goes low: it stops, and GPIO5 is pulled up.
ResetLow ==
  /\ gpio_reset' = 0 /\ st' = "off" /\ skip' = FALSE
  /\ gpio5' = 1 /\ EdgeOn(1) /\ UNCHANGED armed

ResetHigh ==
  /\ gpio_reset' = 1 /\ st' = IF st = "off" THEN "boot" ELSE st
  /\ UNCHANGED <<gpio5, skip, irqVars>>

-----------------------------------------------------------------------------
(* ifup and ifdown, which the stack never runs at the same time.           *)

\* uart_wifi_open, when nothing fails (module Driver has the failures); before
\* request_irq and schedule_work nobody else is there to see its steps.
Open ==
  /\ admin = "closed" /\ Event
  /\ carrier' = FALSE
  /\ work_hold' = TRUE /\ force_reset' = TRUE /\ netif_info_vaild' = FALSE
  /\ armed' = TRUE /\ pending' = TRUE
  /\ admin' = "open"
  /\ UNCHANGED <<password, work, password_len, qstopped, rx, reader, toHost,
                 edge, stVars, toEsp>>

\* gpio_set_value(gpio_reset, 0)
StopReset ==
  /\ admin = "open"
  /\ ResetLow /\ admin' = "free_irq"
  /\ UNCHANGED <<password, workVars, netVars, infoVars, toEsp, events>>

\* free_irq waits for a handler that runs.
StopFreeIrq ==
  /\ admin = "free_irq"
  /\ armed' = FALSE /\ edge' = FALSE /\ admin' = "carrier_off"
  /\ UNCHANGED <<password, workVars, netVars, infoVars, stVars, toEsp, events>>

\* netif_carrier_off, netif_stop_queue.
StopCarrierOff ==
  /\ admin = "carrier_off"
  /\ carrier' = FALSE /\ qstopped' = TRUE /\ admin' = "release"
  /\ UNCHANGED <<password, workVars, infoVars, irqVars, stVars,
                 toEsp, events>>

\* StopRelease that forgets work_hold.
StopReleaseKeepsHold ==
  /\ admin = "release"
  /\ netif_info_vaild' = FALSE /\ admin' = "cancel"
  /\ UNCHANGED <<password, workVars, netVars, rx, reader, toHost, irqVars, stVars, toEsp,
                 events>>

\* netif_info_vaild = 0, work_hold = 0.
StopRelease ==
  /\ admin = "release"
  /\ netif_info_vaild' = FALSE /\ work_hold' = FALSE /\ admin' = "cancel"
  /\ UNCHANGED <<password, work, pending, password_len, force_reset, netVars,
                 rx, reader, toHost, irqVars, stVars, toEsp, events>>

\* StopCancel that does not wait for the work.
StopCancelNoWait ==
  /\ admin = "cancel" /\ rx = "idle"
  /\ pending' = FALSE /\ admin' = "closed" /\ toEsp' = <<>> /\ toHost' = 0
  /\ UNCHANGED <<password, work, password_len, force_reset, work_hold, netVars,
                 netif_info_vaild, rx, reader, irqVars, stVars, events>>

\* cancel_work_sync drops a queued work and waits for the running one; then
\* tty_kclose, after the receiver has returned.
StopCancel ==
  /\ admin = "cancel" /\ work = "idle" /\ rx = "idle"
  /\ pending' = FALSE /\ admin' = "closed" /\ toEsp' = <<>> /\ toHost' = 0
  /\ UNCHANGED <<password, work, password_len, force_reset, work_hold, netVars,
                 netif_info_vaild, rx, reader, irqVars, stVars, events>>

Stop == StopFreeIrq \/ StopCarrierOff \/ StopRelease \/ StopCancel

\* str_store: another password, of another length.
Store ==
  /\ Event
  /\ password' = (IF password = "right" THEN "wrong" ELSE "right")
  /\ UNCHANGED <<admin, workVars, netVars, infoVars, irqVars, stVars, toEsp>>

-----------------------------------------------------------------------------
(* The interrupt and the link work.                                        *)

\* gpio_irq_handler: schedule_work.
Irq ==
  /\ edge
  /\ edge' = FALSE /\ pending' = TRUE
  /\ UNCHANGED <<adminVars, work, password_len, force_reset, work_hold, netVars, infoVars,
                 armed, stVars, toEsp, events>>

\* The lengths are read once, before the loop.
WorkStart ==
  /\ work = "idle" /\ pending
  /\ pending' = FALSE /\ work' = "top" /\ password_len' = password
  /\ UNCHANGED <<adminVars, force_reset, work_hold, netVars, infoVars, irqVars, stVars,
                 toEsp, events>>

WorkAt(place, then) ==
  /\ work = place /\ work' = then
  /\ UNCHANGED <<adminVars, pending, password_len, work_hold, rx, reader, toHost, events>>

\* The head of the loop: what the flag and the pin say.
WorkForced ==
  /\ force_reset /\ force_reset' = FALSE /\ WorkAt("top", "flush")
  /\ UNCHANGED <<carrier, qstopped, netif_info_vaild, irqVars, stVars, toEsp>>

\* WorkUp that resets the receiver before it looks at the pin.
WorkUpClears ==
  /\ ~force_reset /\ gpio5 = 0 /\ WorkAt("top", "carrier_on") /\ netif_info_vaild' = FALSE
  /\ UNCHANGED <<force_reset, carrier, qstopped, irqVars, stVars, toEsp>>

WorkUp ==
  /\ ~force_reset /\ gpio5 = 0 /\ WorkAt("top", "carrier_on")
  /\ UNCHANGED <<force_reset, carrier, qstopped, netif_info_vaild, irqVars, stVars, toEsp>>

WorkDown ==
  /\ ~force_reset /\ gpio5 = 1 /\ WorkAt("top", "clear")
  /\ UNCHANGED <<force_reset, carrier, qstopped, netif_info_vaild, irqVars, stVars, toEsp>>

\* netif_carrier_on, netif_wake_queue, return.
WorkCarrierOn ==
  /\ WorkAt("carrier_on", "idle") /\ carrier' = TRUE /\ qstopped' = FALSE
  /\ UNCHANGED <<force_reset, netif_info_vaild, irqVars, stVars, toEsp>>

\* WorkClear that leaves netif_info_vaild.
WorkClearKeepsInfo ==
  /\ WorkAt("clear", "flush")
  /\ UNCHANGED <<force_reset, carrier, qstopped, netif_info_vaild, irqVars, stVars, toEsp>>

\* netif_info_vaild = 0; the carrier stays as it is.
WorkClear ==
  /\ WorkAt("clear", "flush") /\ netif_info_vaild' = FALSE
  /\ UNCHANGED <<force_reset, carrier, qstopped, irqVars, stVars, toEsp>>

WorkFlush ==
  /\ WorkAt("flush", "low") /\ toEsp' = <<>>
  /\ UNCHANGED <<force_reset, carrier, qstopped, netif_info_vaild, irqVars, stVars>>

WorkResetLow ==
  /\ WorkAt("low", "high") /\ ResetLow
  /\ UNCHANGED <<force_reset, carrier, qstopped, netif_info_vaild, toEsp>>

WorkResetHigh ==
  /\ WorkAt("high", "ssid") /\ ResetHigh
  /\ UNCHANGED <<force_reset, carrier, qstopped, netif_info_vaild, toEsp>>

WorkSsid ==
  /\ WorkAt("ssid", "passwd") /\ toEsp' = Append(toEsp, "ssid")
  /\ UNCHANGED <<force_reset, carrier, qstopped, netif_info_vaild, irqVars, stVars>>

\* What the station gets of the array as it is now when the length it had when
\* the work began is sent: too little, or also what is left of the old password.
Sent ==
  CASE password = password_len -> {password}
    [] password # password_len /\ password = "right" -> {"torn", "long"}
    [] OTHER -> {"torn"}

WorkPasswd ==
  /\ WorkAt("passwd", "wait")
  /\ \E frame \in Sent : toEsp' = Append(toEsp, frame)
  /\ UNCHANGED <<force_reset, carrier, qstopped, netif_info_vaild, irqVars, stVars>>

\* One of the ten seconds is over and the interface is being closed.
WorkGiveUp ==
  /\ ~work_hold /\ WorkAt("wait", "idle")
  /\ UNCHANGED <<force_reset, carrier, qstopped, netif_info_vaild, irqVars, stVars, toEsp>>

\* Nothing is under way that could still bring the link up.
Settled ==
  \/ gpio5 = 0 \/ st \in {"off", "down", "stuck"}
  \/ st \in {"ssid", "passwd", "told"} /\ toEsp = <<>> /\ toHost = 0 /\ rx = "idle"

\* Ten seconds are over.  That this happens before the station is done is a fault.
WorkRetry ==
  /\ work_hold /\ work = "wait" /\ work' = "top"
  /\ \/ Settled /\ UNCHANGED events
     \/ ~Settled /\ Event
  /\ UNCHANGED <<adminVars, pending, password_len, force_reset, work_hold, netVars, infoVars,
                 irqVars, stVars, toEsp>>

Work ==
  \/ WorkStart \/ WorkForced \/ WorkUp \/ WorkDown \/ WorkCarrierOn \/ WorkClear
  \/ WorkFlush \/ WorkResetLow \/ WorkResetHigh \/ WorkSsid \/ WorkPasswd
  \/ WorkGiveUp \/ WorkRetry

-----------------------------------------------------------------------------
(* The receiver, the reader of netif_info and the stack.                   *)

\* ttyio_netif_info has a whole frame and writes it back.
ReceiveInfo ==
  /\ rx = "idle" /\ toHost > 0 /\ ~netif_info_vaild /\ admin # "closed"
  /\ toHost' = toHost - 1 /\ rx' = "echoed" /\ toEsp' = Append(toEsp, "echo")
  /\ UNCHANGED <<adminVars, workVars, netVars, netif_info_vaild, reader, irqVars, stVars,
                 events>>

\* netif_info_vaild = 1 without wake_up_interruptible_all.
InfoValidNoWake ==
  /\ rx = "echoed" /\ rx' = "idle" /\ netif_info_vaild' = TRUE
  /\ UNCHANGED <<adminVars, workVars, netVars, reader, toHost, irqVars, stVars, toEsp, events>>

\* netif_info_vaild = 1 and wake_up_interruptible_all.
InfoValid ==
  /\ rx = "echoed" /\ rx' = "idle" /\ netif_info_vaild' = TRUE
  /\ reader' = IF reader = "asleep" THEN "awake" ELSE reader
  /\ UNCHANGED <<adminVars, workVars, netVars, toHost, irqVars, stVars, toEsp, events>>

\* SwallowInfo that takes a frame that is not there.
SwallowInfoUnguarded ==
  /\ rx = "idle" /\ netif_info_vaild /\ admin # "closed"
  /\ toHost' = toHost - 1
  /\ UNCHANGED <<adminVars, workVars, netVars, netif_info_vaild, rx, reader, irqVars, stVars,
                 toEsp, events>>

\* With netif_info_vaild set the frame goes to ttyio_receive_data, which finds no packet.
SwallowInfo ==
  /\ rx = "idle" /\ toHost > 0 /\ netif_info_vaild /\ admin # "closed"
  /\ toHost' = toHost - 1
  /\ UNCHANGED <<adminVars, workVars, netVars, netif_info_vaild, rx, reader, irqVars, stVars,
                 toEsp, events>>

Receiver == ReceiveInfo \/ InfoValid \/ SwallowInfo

\* str_show_connect_info: wait_event_interruptible tests the flag, again when woken.
Read ==
  /\ reader = "awake"
  /\ reader' = IF netif_info_vaild THEN "done" ELSE "asleep"
  /\ UNCHANGED <<adminVars, workVars, netVars, netif_info_vaild, rx, toHost, irqVars, stVars,
                 toEsp, events>>

\* uart_wifi_xmit, when the station is not there to take the packet.
Xmit ==
  /\ admin = "open" /\ carrier /\ ~qstopped /\ st # "up" /\ Event
  /\ toEsp' = Append(toEsp, "data")
  /\ UNCHANGED <<adminVars, workVars, carrier, qstopped, infoVars, irqVars, stVars>>

-----------------------------------------------------------------------------
(* The station.                                                            *)

hostVars == <<adminVars, workVars, netVars, netif_info_vaild, rx, reader>>

\* init has set GPIO5 high and wifi_init_sta reads the ssid.
Booted ==
  /\ st = "boot" /\ st' = "ssid"
  /\ UNCHANGED <<hostVars, toHost, irqVars, gpio_reset, gpio5, skip, toEsp, events>>

\* What is sent to a station that is not reading may be lost; that it still
\* boots when the credentials come, a second after reset, is a fault.
Lose ==
  /\ st \in {"off", "boot"} /\ toEsp # <<>> /\ toEsp' = Tail(toEsp)
  /\ IF Head(toEsp) \in {"echo", "data"} THEN UNCHANGED events
     ELSE Event
  /\ UNCHANGED <<hostVars, toHost, irqVars, stVars>>

\* The frame each place waits for, and where it leads.
Expected == [ssid |-> "ssid", passwd |-> "right", told |-> "echo"]
Then     == [ssid |-> "passwd", passwd |-> "wifi", told |-> "up"]

\* recv_ssid, recv_passwd and recv_netif_info get the frame they wait for;
\* the echo lets start_hock pull GPIO5 low.
Take ==
  /\ st \in DOMAIN Expected /\ ~skip /\ toEsp # <<>> /\ Head(toEsp) = Expected[st]
  /\ toEsp' = Tail(toEsp) /\ st' = Then[st]
  /\ gpio5' = (IF st = "told" THEN 0 ELSE gpio5) /\ EdgeOn(gpio5')
  /\ UNCHANGED <<hostVars, toHost, armed, gpio_reset, skip, events>>

\* recv_passwd takes the new password and leaves what is behind it.
TakeLong ==
  /\ st = "passwd" /\ ~skip /\ toEsp # <<>> /\ Head(toEsp) = "long"
  /\ toEsp' = [toEsp EXCEPT ![1] = "torn"] /\ st' = "wifi"
  /\ UNCHANGED <<hostVars, toHost, irqVars, gpio_reset, gpio5, skip, events>>

\* They get another: it is skipped, alone or with all up to the next SPLIT_CMD.
Skip ==
  /\ st \in DOMAIN Expected /\ ~skip /\ toEsp # <<>> /\ Head(toEsp) # Expected[st]
  /\ toEsp' = Tail(toEsp) /\ skip' \in BOOLEAN
  /\ UNCHANGED <<hostVars, toHost, irqVars, gpio_reset, gpio5, st, events>>

\* A frame whose length fits and that ends in a NUL or in SPLIT_CMD is taken for
\* the ssid or the password: the station then never connects.
Mistake ==
  /\ st \in {"ssid", "passwd"} /\ ~skip /\ toEsp # <<>> /\ Head(toEsp) # Expected[st]
  /\ toEsp' = Tail(toEsp) /\ st' = "stuck"
  /\ UNCHANGED <<hostVars, toHost, irqVars, gpio_reset, gpio5, skip, events>>

\* STATUS_SPLIT ends at the next SPLIT_CMD, which a packet or a password that is
\* not whole may or may not have.
Resync ==
  /\ st \in DOMAIN Expected /\ skip /\ toEsp # <<>>
  /\ toEsp' = Tail(toEsp) /\ skip' \in BOOLEAN
  /\ skip' => Head(toEsp) \in {"data", "torn", "long"}
  /\ UNCHANGED <<hostVars, toHost, irqVars, gpio_reset, gpio5, st, events>>

\* IP_EVENT_STA_GOT_IP: start_hock sends netif_info.
GotIp ==
  /\ st = "wifi" /\ st' = "told"
  /\ toHost' = IF admin = "closed" THEN 0 ELSE toHost + 1
  /\ UNCHANGED <<hostVars, irqVars, gpio_reset, gpio5, skip, toEsp, events>>

\* The access point does not answer: nothing on the station tries again.
ConnectFails ==
  /\ st = "wifi" /\ Event /\ st' = "stuck"
  /\ UNCHANGED <<hostVars, toHost, irqVars, gpio_reset, gpio5, skip, toEsp>>

\* WIFI_EVENT_STA_DISCONNECTED ends the main loop: GPIO5 goes high.
WifiLost ==
  /\ st = "up" /\ Event /\ st' = "down"
  /\ gpio5' = 1 /\ EdgeOn(1)
  /\ UNCHANGED <<hostVars, toHost, armed, gpio_reset, skip, toEsp>>

\* uart2wifi, the dummy reads, or a parser that waits in vain: bytes are read.
\* While the station connects they wait behind RTS.
Consume ==
  /\ st \in {"up", "down", "stuck"} /\ toEsp # <<>> /\ toEsp' = Tail(toEsp)
  /\ UNCHANGED <<hostVars, toHost, irqVars, stVars, events>>

Station == Booted \/ Take \/ TakeLong \/ Skip \/ Mistake \/ Resync \/ GotIp \/ Consume

Next ==
  \/ Open \/ StopReset \/ Stop \/ Store
  \/ Irq \/ Work \/ Receiver \/ Read \/ Xmit
  \/ Station \/ Lose \/ ConnectFails \/ WifiLost

Spec == Init /\ [][Next]_vars

(***************************************************************************)
(* Fairness.  Interrupts, works and the tty's receiver run; ifdown, once   *)
(* begun, goes on; the station boots, reads its line and, unless that      *)
(* fails, gets its address.                                                *)
(***************************************************************************)
FairSpec ==
  /\ Spec
  /\ WF_vars(Irq) /\ WF_vars(Work) /\ WF_vars(Stop) /\ WF_vars(Receiver)
  /\ WF_vars(Station) /\ WF_vars(Read)

-----------------------------------------------------------------------------
(* Properties.                                                             *)

\* Every variable has its type.
TypeOK ==
  /\ admin \in {"closed", "open", "free_irq", "carrier_off", "release", "cancel"}
  /\ password \in {"right", "wrong"} /\ password_len \in {"right", "wrong"}
  /\ work \in {"idle", "top", "carrier_on", "clear", "flush", "low", "high", "ssid",
               "passwd", "wait"}
  /\ pending \in BOOLEAN /\ force_reset \in BOOLEAN /\ work_hold \in BOOLEAN
  /\ netif_info_vaild \in BOOLEAN /\ carrier \in BOOLEAN /\ qstopped \in BOOLEAN
  /\ armed \in BOOLEAN /\ edge \in BOOLEAN /\ gpio_reset \in {0, 1} /\ gpio5 \in {0, 1}
  /\ rx \in {"idle", "echoed"} /\ reader \in {"asleep", "awake", "done"}
  /\ st \in {"off", "boot", "ssid", "passwd", "wifi", "told", "up", "down", "stuck"}
  /\ skip \in BOOLEAN /\ toHost \in Nat
  /\ toEsp \in Seq({"ssid", "right", "wrong", "torn", "long", "echo", "data"})
  /\ events \in 0 .. MaxEvents

\* After uart_wifi_stop nothing of the driver runs or will run: no work that
\* would write to the closed tty, no interrupt that would queue one.
ClosedIsQuiet ==
  admin = "closed" => work = "idle" /\ ~pending /\ ~armed /\ ~edge /\ rx = "idle"

\* With the interface up and the work at rest the stack's view of the carrier
\* is the station's: no edge of GPIO5 gets lost, however it falls between the
\* work's steps.
AtRestMeansUp ==
  admin = "open" /\ work = "idle" /\ ~pending /\ ~edge => carrier /\ gpio5 = 0

\* While the station passes packets on, the host's receiver parses packets:
\* netif_info_vaild is set, unless the work is about to reset the station
\* (as it always is after ifup).
ReceiverInSync ==
  /\ gpio5 = 0 /\ rx = "idle" /\ admin = "open"
  /\ ~force_reset /\ work \notin {"clear", "flush", "low"}
  => netif_info_vaild

Linked == carrier /\ ~qstopped /\ gpio5 = 0 /\ st = "up" /\ netif_info_vaild

\* Once nothing more happens from outside, an interface that stays up gets its
\* link and keeps it, if the station is sent the right password: the work has
\* read the length of the password that is there now.
LinkComesUp ==
  <>[](admin = "open" /\ password = "right" /\ password_len = "right") => <>[]Linked

\* ifdown always ends, even with a password the access point refuses.
StopReturns == admin \notin {"open", "closed"} ~> admin = "closed"

\* A reader of netif_info does not sleep while the link is up.
ReaderReturns == <>[]Linked => <>[](reader # "asleep")

\* The comment at gpio_set_value(gpio_reset, 0) in uart_wifi_stop says that the
\* station is deselected.  A work that runs at that moment, or that the edge of
\* GPIO5 starts before free_irq, selects it again.
StopDeselects == admin = "closed" => gpio_reset = 0
=============================================================================
