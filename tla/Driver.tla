------------------------------- MODULE Driver -------------------------------
(***************************************************************************)
(* The life cycle of the host driver, with everything that can fail in it: *)
(* module load and unload, probe and remove, the sysfs attributes, ifup    *)
(* and ifdown.  Memory that devm_* obtained goes when the device is        *)
(* unbound or its probe fails; sysfs files, the tty, the line discipline   *)
(* and the interrupt stay until somebody gives them back.                  *)
(*                                                                         *)
(* A credential is the array the link work sends: a length of two bytes,   *)
(* the string with its NUL, SPLIT_CMD.  Of the array the model has the     *)
(* length field and how far it was written.                                *)
(***************************************************************************)
EXTENDS Integers, Sequences

CONSTANTS
  WPA_MAX_SSID_LEN,    \* 32
  WPA_MAX_PASSWD_LEN,  \* 64
  TTY_NAME_LEN,        \* 10
  MaxLen               \* bound on the length of a string that is stored

ASSUME DriverAssumption ==
  /\ WPA_MAX_SSID_LEN \in Nat \ {0} /\ WPA_MAX_PASSWD_LEN \in Nat \ {0}
  /\ TTY_NAME_LEN \in Nat \ {0} /\ MaxLen \in Nat

VARIABLES
  module, ldisc,    \* the module is loaded; its line discipline is registered
  bound,            \* probe has returned 0
  data,             \* struct uart_wifi_struct is allocated
  netdev,           \* "null", "unregistered" or "registered"
  files,            \* the attributes that are in sysfs
  ssid, password,   \* the arrays
  tty_name,         \* the bytes of tty_name that were written
  admin,            \* the interface is "down" or "up"
  tty,              \* the tty is "free", or "open" on the driver's behalf
  attached,         \* its line discipline is the driver's, disc_data is set
  irq,              \* the interrupt is requested
  failed,           \* history: which of "init", "probe" and "open" have failed
  oops              \* memory that is not there was used: the model stops

attrVars == <<ssid, password, tty_name>>
busVars  == <<bound, data, netdev, files>>
ifVars   == <<admin, tty, attached, irq>>
vars     == <<module, ldisc, busVars, attrVars, ifVars, failed, oops>>

SizeOf(max) == 2 + max + 1

\* ssid_len and password_len, which nothing reads, lie behind the arrays.
UNUSED == 4

\* kzalloc.
Blank == [len |-> 0, top |-> 0]

Init ==
  /\ module = FALSE /\ ldisc = FALSE
  /\ bound = FALSE /\ data = FALSE /\ netdev = "null" /\ files = {}
  /\ ssid = Blank /\ password = Blank /\ tty_name = 0
  /\ admin = "down" /\ tty = "free" /\ attached = FALSE /\ irq = FALSE
  /\ failed = {} /\ oops = FALSE

-----------------------------------------------------------------------------
(* The attributes.                                                         *)

\* Credential that does not count the newline and the NUL.
CredentialStripped(count) == [len |-> count - 2, top |-> 2 + count + 1]

\* A string of count bytes, the NUL included, with the length in front of it and
\* SPLIT_CMD behind.
Credential(count) == [len |-> count, top |-> 2 + count + 1]

\* StorePassword without the check.
StorePasswordUnchecked(count) ==
  /\ "password" \in files /\ data
  /\ password' = Credential(count)
  /\ UNCHANGED <<module, ldisc, busVars, ssid, tty_name, ifVars, failed, oops>>

\* str_store: the newline becomes the NUL; sysfs never passes an empty buffer.
StorePassword(count) ==
  /\ "password" \in files /\ data /\ count <= WPA_MAX_PASSWD_LEN
  /\ password' = Credential(count)
  /\ UNCHANGED <<module, ldisc, busVars, ssid, tty_name, ifVars, failed, oops>>

StoreSsid(count) ==
  /\ "ssid" \in files /\ data /\ count <= WPA_MAX_SSID_LEN
  /\ ssid' = Credential(count)
  /\ UNCHANGED <<module, ldisc, busVars, password, tty_name, ifVars, failed, oops>>

StoreTtyName(count) ==
  /\ "tty_name" \in files /\ data /\ count <= TTY_NAME_LEN
  /\ tty_name' = count
  /\ UNCHANGED <<module, ldisc, busVars, ssid, password, ifVars, failed, oops>>

Store ==
  \E count \in 1 .. MaxLen :
    StoreTtyName(count) \/ StoreSsid(count) \/ StorePassword(count)

\* A file that outlived its device: dev_get_drvdata is NULL.
SysfsOops ==
  /\ files # {} /\ ~data
  /\ oops' = TRUE
  /\ UNCHANGED <<module, ldisc, busVars, attrVars, ifVars, failed>>

-----------------------------------------------------------------------------
(* probe and remove.                                                       *)

\* What probe makes of a device-tree string of count bytes with its NUL, or of
\* none (count = 0), or of one that is too long for the check.
FromTree(count, limit) ==
  IF count \in 1 .. limit THEN Credential(count)
                          ELSE [len |-> 0, top |-> 4]

\* The password is checked against sizeof(password), the others against their maximum.
ReadTree ==
  \E n, s, p \in 0 .. MaxLen :
    /\ tty_name' = IF n <= TTY_NAME_LEN THEN n ELSE 1
    /\ ssid' = FromTree(s, WPA_MAX_SSID_LEN)
    /\ password' = FromTree(p, SizeOf(WPA_MAX_PASSWD_LEN))

Attributes == <<"tty_name", "ssid", "password", "netif_info">>
Created(k) == { Attributes[i] : i \in 1 .. k }

CanProbe == module /\ ~bound

\* kzalloc, a gpio or the creation of attribute k + 1 fails, as it must when
\* the file is there already: the memory goes, the files stay.
ProbeFails(k) ==
  /\ CanProbe /\ Created(k) \cap files = {}
  /\ files' = files \cup Created(k)
  /\ failed' = failed \cup {"probe"}
  /\ UNCHANGED <<module, ldisc, bound, data, netdev, attrVars, ifVars, oops>>

\* netdev_init fails, and probe returns the 0 of the last device_create_file.
ProbeNoNetdev ==
  /\ CanProbe /\ files = {} /\ ReadTree
  /\ files' = Created(4) /\ data' = TRUE /\ bound' = TRUE
  /\ netdev' \in {"null", "unregistered"}
  /\ UNCHANGED <<module, ldisc, ifVars, failed, oops>>

Probe ==
  /\ CanProbe /\ files = {} /\ ReadTree
  /\ files' = Created(4) /\ data' = TRUE /\ bound' = TRUE /\ netdev' = "registered"
  /\ UNCHANGED <<module, ldisc, ifVars, failed, oops>>

\* Stop that leaves the tty open with the line discipline.
StopKeepsTty == admin' = "down" /\ irq' = FALSE /\ UNCHANGED <<tty, attached>>

\* uart_wifi_stop: the interrupt, the work and the tty are given back.
Stop == admin' = "down" /\ irq' = FALSE /\ tty' = "free" /\ attached' = FALSE

\* unregister_netdev closes the interface first.  netif_info is not removed.
Remove ==
  /\ netdev # "null"
  /\ IF admin = "up" THEN Stop ELSE UNCHANGED ifVars
  /\ netdev' = "null" /\ files' = files \ Created(3)
  /\ data' = FALSE /\ bound' = FALSE
  /\ ssid' = Blank /\ password' = Blank /\ tty_name' = 0
  /\ UNCHANGED <<failed, oops>>

\* unregister_netdev(NULL).
RemoveOops ==
  /\ netdev = "null" /\ oops' = TRUE
  /\ UNCHANGED <<busVars, attrVars, ifVars, failed>>

\* The device is unbound through sysfs.
Unbind == bound /\ (Remove \/ RemoveOops) /\ UNCHANGED <<module, ldisc>>

-----------------------------------------------------------------------------
(* Module load and unload.                                                 *)

ModuleInit ==
  /\ ~module
  /\ module' = TRUE /\ ldisc' = TRUE
  /\ UNCHANGED <<busVars, attrVars, ifVars, failed, oops>>

\* platform_driver_register fails: the line discipline stays registered.
ModuleInitFails ==
  /\ ~module
  /\ ldisc' = TRUE /\ failed' = failed \cup {"init"}
  /\ UNCHANGED <<module, busVars, attrVars, ifVars, oops>>

\* An unload that a line discipline in use does not hold up.
ModuleExitForced ==
  /\ module
  /\ module' = FALSE /\ ldisc' = attached
  /\ \/ bound /\ (Remove \/ RemoveOops)
     \/ ~bound /\ UNCHANGED <<busVars, attrVars, ifVars, failed, oops>>

\* A tty with the line discipline (.owner = THIS_MODULE) holds the module.
ModuleExit ==
  /\ module /\ ~attached
  /\ module' = FALSE /\ ldisc' = FALSE
  /\ \/ bound /\ (Remove \/ RemoveOops)
     \/ ~bound /\ UNCHANGED <<busVars, attrVars, ifVars, failed, oops>>

-----------------------------------------------------------------------------
(* ifup and ifdown.                                                        *)

\* ndo_open, past the checks on ssid_len and password_len.
MayOpen == netdev = "registered" /\ admin = "down" /\ ssid.len # 0 /\ password.len # 0

\* tty_kopen gets the tty if nobody has it; each later failure keeps it open.
\* It comes from tty->ops->open, from tty_set_ldisc (nothing attached yet) or
\* from request_irq (all attached).
OpenFails ==
  /\ MayOpen /\ tty = "free"
  /\ tty' = "open" /\ attached' \in BOOLEAN
  /\ failed' = failed \cup {"open"}
  /\ UNCHANGED <<module, ldisc, busVars, attrVars, admin, irq, oops>>

Open ==
  /\ MayOpen /\ tty = "free" /\ ldisc
  /\ tty' = "open" /\ attached' = TRUE /\ irq' = TRUE /\ admin' = "up"
  /\ UNCHANGED <<module, ldisc, busVars, attrVars, failed, oops>>

\* Bytes reach a tty that a failed open left attached, and its disc_data is the
\* struct that unbind has freed.
LdiscOops ==
  /\ attached /\ ~data
  /\ oops' = TRUE
  /\ UNCHANGED <<module, ldisc, busVars, attrVars, ifVars, failed>>

Close ==
  /\ admin = "up" /\ Stop
  /\ UNCHANGED <<module, ldisc, busVars, attrVars, failed, oops>>

Next ==
  /\ ~oops
  /\ \/ ModuleInit \/ ModuleInitFails \/ ModuleExit
     \/ (\E k \in 0 .. 3 : ProbeFails(k)) \/ ProbeNoNetdev \/ Probe \/ Unbind
     \/ Store \/ SysfsOops
     \/ OpenFails \/ Open \/ Close \/ LdiscOops

Spec == Init /\ [][Next]_vars

-----------------------------------------------------------------------------
(* Properties.                                                             *)

\* Every variable has its type.
TypeOK ==
  /\ module \in BOOLEAN /\ ldisc \in BOOLEAN /\ bound \in BOOLEAN /\ data \in BOOLEAN
  /\ netdev \in {"null", "unregistered", "registered"} /\ files \subseteq Created(4)
  /\ ssid \in [len : Nat, top : Nat] /\ password \in [len : Nat, top : Nat]
  /\ tty_name \in Nat /\ failed \subseteq {"init", "probe", "open"}
  /\ admin \in {"down", "up"} /\ tty \in {"free", "open"}
  /\ attached \in BOOLEAN /\ irq \in BOOLEAN /\ oops \in BOOLEAN

\* What the kernel may call and what it then finds, whichever of probe, open,
\* unbind and unload came before and whichever of their steps failed: a registered
\* interface and a requested interrupt have their struct uart_wifi_struct and the
\* module's code; the line discipline of an open tty has the code always, and the
\* struct as long as the interface is up.  (A tty that a failed open left attached
\* loses it: LdiscOops.  The netif_info file may lose both: SysfsOops.)
CallbacksBacked ==
  /\ netdev = "registered" \/ irq => data /\ module
  /\ attached => module /\ (admin = "up" => data)

\* Everything is given back, in every order of ifdown, unbind (with the interface
\* up as well) and unload: the tty, its line discipline and the interrupt when the
\* interface goes down, unless an open has failed; the sysfs files but netif_info
\* when the device is unbound, unless a probe has failed; the line discipline when
\* the module is unloaded, unless its init has failed.
NothingLeftBehind ==
  /\ admin = "down" /\ "open" \notin failed => tty = "free" /\ ~attached /\ ~irq
  /\ ~bound /\ "probe" \notin failed => files \subseteq {"netif_info"}
  /\ ~module /\ "init" \notin failed => ~ldisc

\* No write to an attribute reaches a field that something reads: at most the
\* two unused lengths behind password are hit, by a device tree's password that
\* is longer than WPA_MAX_PASSWD_LEN and passes the check against sizeof.
WritesContained ==
  /\ tty_name <= TTY_NAME_LEN /\ ssid.top <= SizeOf(WPA_MAX_SSID_LEN)
  /\ password.top <= SizeOf(WPA_MAX_PASSWD_LEN) + UNUSED

\* probe says "netdev_init is failed", so a device that is bound has its
\* network interface.  It returns 0 there, and unregister_netdev is later
\* called with what is not registered, or NULL.
BoundHasNetdev == bound => netdev = "registered"
=============================================================================
