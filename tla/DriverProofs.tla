---------------------------- MODULE DriverProofs ----------------------------
(***************************************************************************)
(* The life cycle is safe for every length of the arrays and of the        *)
(* strings: an interface and an interrupt have their memory and code,      *)
(* what is taken is given back when nothing has failed, and no attribute   *)
(* is written past the unused fields.                                      *)
(***************************************************************************)
EXTENDS Driver, TLAPS

\* What probe, remove, open and the module's functions keep in step: a device
\* that is bound has its memory and, until something has gone wrong for good, the
\* module; an interface exists only on a bound device, is up only when it is
\* registered, and only one that is up has the interrupt.
InStep ==
  /\ bound <=> data
  /\ ~oops /\ bound => module
  /\ netdev # "null" => bound /\ module
  /\ admin = "up" => netdev = "registered"
  /\ irq => admin = "up"

Inv == TypeOK /\ CallbacksBacked /\ NothingLeftBehind /\ WritesContained /\ InStep

\* A credential buffer that was never written.
LEMMA BlankFacts ==
  /\ Blank \in [len : Nat, top : Nat] /\ Blank.top = 0
  /\ Blank.len = 0
  BY SMT DEF Blank

\* The invariant holds at the start.
LEMMA Initially == Init => Inv
  <1> SUFFICES ASSUME Init PROVE Inv
    OBVIOUS
  <1> USE DEF Init
  <1>1. TypeOK BY BlankFacts DEF TypeOK
  <1>2. CallbacksBacked BY DEF CallbacksBacked
  <1>3. NothingLeftBehind BY DEF NothingLeftBehind
  <1>4. WritesContained BY BlankFacts, DriverAssumption, SMT DEF WritesContained, SizeOf, UNUSED
  <1>5. InStep BY BlankFacts DEF InStep
  <1> QED BY <1>1, <1>2, <1>3, <1>4, <1>5 DEF Inv

\* A string that was stored is written no further than its length says.
LEMMA CredentialFacts ==
  ASSUME NEW count \in Nat \ {0}
  PROVE  /\ Credential(count) \in [len : Nat, top : Nat]
         /\ Credential(count).top = count + 3
  BY SMT DEF Credential

\* A credential from the device tree is written at most three bytes past the limit it is checked against.
LEMMA FromTreeFacts ==
  ASSUME NEW count \in Nat, NEW limit \in Nat \ {0}
  PROVE  /\ FromTree(count, limit) \in [len : Nat, top : Nat]
         /\ FromTree(count, limit).top <= limit + 3
  <1>1. CASE count \in 1 .. limit
    BY <1>1, CredentialFacts, SMT DEF FromTree
  <1>2. CASE count \notin 1 .. limit
    BY <1>2, SMT DEF FromTree
  <1> QED BY <1>1, <1>2

\* What reading the device tree leaves in the arrays.
LEMMA ReadTreeFacts ==
  ASSUME ReadTree
  PROVE  /\ tty_name' \in Nat /\ tty_name' <= TTY_NAME_LEN
         /\ ssid' \in [len : Nat, top : Nat]
         /\ password' \in [len : Nat, top : Nat]
         /\ ssid'.top <= SizeOf(WPA_MAX_SSID_LEN)
         /\ password'.top <= SizeOf(WPA_MAX_PASSWD_LEN) + UNUSED
  <1>1. PICK n, s, p \in 0 .. MaxLen :
          /\ tty_name' = IF n <= TTY_NAME_LEN THEN n ELSE 1
          /\ ssid' = FromTree(s, WPA_MAX_SSID_LEN)
          /\ password' = FromTree(p, SizeOf(WPA_MAX_PASSWD_LEN))
    BY DEF ReadTree
  <1>2. SizeOf(WPA_MAX_PASSWD_LEN) \in Nat \ {0}
    BY DriverAssumption, SMT DEF SizeOf
  <1>3. n \in Nat /\ s \in Nat /\ p \in Nat
    BY DriverAssumption, SMT
  <1>4. tty_name' \in Nat /\ tty_name' <= TTY_NAME_LEN
    BY <1>1, <1>3, DriverAssumption, SMT
  <1>5. /\ ssid' \in [len : Nat, top : Nat]
        /\ ssid'.top <= WPA_MAX_SSID_LEN + 3
    BY <1>1, <1>3, FromTreeFacts, DriverAssumption
  <1>6. /\ password' \in [len : Nat, top : Nat]
        /\ password'.top <= SizeOf(WPA_MAX_PASSWD_LEN) + 3
    BY <1>1, <1>2, <1>3, FromTreeFacts
  <1>7. ssid'.top <= SizeOf(WPA_MAX_SSID_LEN)
    BY <1>5, DriverAssumption, SMT DEF SizeOf
  <1>8. password'.top <= SizeOf(WPA_MAX_PASSWD_LEN) + UNUSED
    BY <1>2, <1>6, SMT DEF UNUSED
  <1> QED BY <1>4, <1>5, <1>6, <1>7, <1>8, Zenon

\* The attribute files created by a probe.
LEMMA CreatedFacts ==
  /\ Created(4) = {"tty_name", "ssid", "password", "netif_info"}
  /\ Created(3) = {"tty_name", "ssid", "password"}
  /\ \A k \in 0 .. 3 : Created(k) \subseteq Created(4)
  BY SMT DEF Created, Attributes

\* Remove, on its own or from the module's exit.
LEMMA RemoveKeeps ==
  ASSUME Inv, Remove, ~oops, bound, ldisc' \in BOOLEAN, module' \in BOOLEAN,
         ~module' => ~attached /\ ~ldisc', module' => module
  PROVE  Inv'
  <1> USE DEF Inv
  <1>1. /\ netdev' = "null" /\ files' = files \ Created(3) /\ ~data' /\ ~bound'
        /\ oops' = oops /\ failed' = failed
        /\ data' \in BOOLEAN /\ bound' \in BOOLEAN
        /\ ssid' = Blank /\ password' = Blank /\ tty_name' = 0
    BY DEF Remove
  <1>2. /\ admin' = "down" /\ irq' \in BOOLEAN /\ ~irq' /\ tty' \in {"free", "open"}
        /\ attached' \in BOOLEAN
        /\ attached' => attached
        /\ "open" \notin failed => tty' = "free" /\ ~attached'
    <2>1. CASE admin = "up" BY <2>1 DEF Remove, Stop, TypeOK
    <2>2. CASE admin # "up" BY <2>2 DEF Remove, ifVars, TypeOK, NothingLeftBehind, InStep
    <2> QED BY <2>1, <2>2
  <1>3. TypeOK'
    <2>1. files' \subseteq Created(4) BY <1>1 DEF TypeOK
    <2>2. oops' \in BOOLEAN /\ failed' \subseteq {"init", "probe", "open"}
      BY <1>1 DEF TypeOK
    <2>3. /\ module' \in BOOLEAN /\ ldisc' \in BOOLEAN /\ bound' \in BOOLEAN /\ data' \in BOOLEAN
          /\ attached' \in BOOLEAN /\ irq' \in BOOLEAN
      <3>1. bound' \in BOOLEAN /\ data' \in BOOLEAN BY <1>1, Zenon
      <3>2. attached' \in BOOLEAN /\ irq' \in BOOLEAN BY <1>2
      <3>3. module' \in BOOLEAN /\ ldisc' \in BOOLEAN OBVIOUS
      <3> QED BY <3>1, <3>2, <3>3, Zenon
    <2>4. /\ netdev' \in {"null", "unregistered", "registered"} /\ admin' \in {"down", "up"}
          /\ tty' \in {"free", "open"}
      BY <1>1, <1>2
    <2>5. /\ ssid' \in [len : Nat, top : Nat]
          /\ password' \in [len : Nat, top : Nat] /\ tty_name' \in Nat
      <3>1. ssid' \in [len : Nat, top : Nat] BY <1>1, BlankFacts, Zenon
      <3>2. password' \in [len : Nat, top : Nat] BY <1>1, BlankFacts, Zenon
      <3> QED BY <1>1, <3>1, <3>2
    <2> QED BY <2>1, <2>2, <2>3, <2>4, <2>5, Zenon DEF TypeOK
  <1>4. CallbacksBacked'
    <2>1. attached' => module'
      BY <1>2
    <2> QED BY <1>1, <1>2, <2>1 DEF CallbacksBacked
  <1>5. NothingLeftBehind'
    <2>1. files' \subseteq {"netif_info"} BY <1>1, CreatedFacts DEF TypeOK
    <2> QED BY <1>1, <1>2, <2>1 DEF NothingLeftBehind
  <1>6. WritesContained'
    BY <1>1, BlankFacts, DriverAssumption, SMT DEF WritesContained, SizeOf, UNUSED
  <1>7. InStep' BY <1>1, <1>2, BlankFacts DEF InStep
  <1> QED BY <1>3, <1>4, <1>5, <1>6, <1>7

\* Every step keeps the invariant.
LEMMA StepKeeps == Inv /\ [Next]_vars => Inv'
  <1> SUFFICES ASSUME Inv, [Next]_vars PROVE Inv'
    OBVIOUS
  <1>0. TypeOK /\ CallbacksBacked /\ NothingLeftBehind /\ WritesContained /\ InStep
    BY DEF Inv
  <1>1. CASE UNCHANGED vars
    <2>1. TypeOK'
      BY <1>0, <1>1 DEF TypeOK, vars, busVars, attrVars, ifVars
    <2>2. CallbacksBacked'
      BY <1>0, <1>1 DEF CallbacksBacked, NothingLeftBehind, InStep, vars, busVars, attrVars, ifVars
    <2>3. NothingLeftBehind'
      BY <1>0, <1>1 DEF NothingLeftBehind, InStep, TypeOK, vars, busVars, attrVars, ifVars
    <2>4. WritesContained'
      BY <1>0, <1>1 DEF WritesContained, TypeOK, vars, busVars, attrVars, ifVars
    <2>5. InStep'
      BY <1>0, <1>1 DEF InStep, NothingLeftBehind, CallbacksBacked, TypeOK, vars, busVars, attrVars, ifVars
    <2> QED BY <2>1, <2>2, <2>3, <2>4, <2>5 DEF Inv
  <1>2. CASE Next
    <2>0. ~oops BY <1>2 DEF Next
    <2>1. CASE ModuleInit
      <3>1. TypeOK'
        BY <1>0, <2>0, <2>1 DEF TypeOK, ModuleInit, busVars, attrVars, ifVars
      <3>2. CallbacksBacked'
        BY <1>0, <2>0, <2>1 DEF CallbacksBacked, NothingLeftBehind, InStep, ModuleInit, busVars, attrVars, ifVars
      <3>3. NothingLeftBehind'
        BY <1>0, <2>0, <2>1 DEF NothingLeftBehind, InStep, TypeOK, ModuleInit, busVars, attrVars, ifVars
      <3>4. WritesContained'
        BY <1>0, <2>0, <2>1 DEF WritesContained, TypeOK, ModuleInit, busVars, attrVars, ifVars
      <3>5. InStep'
        BY <1>0, <2>0, <2>1 DEF InStep, NothingLeftBehind, CallbacksBacked, TypeOK, ModuleInit, busVars, attrVars, ifVars
      <3> QED BY <3>1, <3>2, <3>3, <3>4, <3>5 DEF Inv
    <2>2. CASE ModuleInitFails
      <3>1. TypeOK'
        BY <1>0, <2>0, <2>2 DEF TypeOK, ModuleInitFails, busVars, attrVars, ifVars
      <3>2. CallbacksBacked'
        BY <1>0, <2>0, <2>2 DEF CallbacksBacked, NothingLeftBehind, InStep, ModuleInitFails, busVars, attrVars, ifVars
      <3>3. NothingLeftBehind'
        BY <1>0, <2>0, <2>2 DEF NothingLeftBehind, InStep, TypeOK, ModuleInitFails, busVars, attrVars, ifVars
      <3>4. WritesContained'
        BY <1>0, <2>0, <2>2 DEF WritesContained, TypeOK, ModuleInitFails, busVars, attrVars, ifVars
      <3>5. InStep'
        BY <1>0, <2>0, <2>2 DEF InStep, NothingLeftBehind, CallbacksBacked, TypeOK, ModuleInitFails, busVars, attrVars, ifVars
      <3> QED BY <3>1, <3>2, <3>3, <3>4, <3>5 DEF Inv
    <2>3. CASE ModuleExit
      <3>1. CASE bound /\ Remove
        BY <1>0, <2>0, <2>3, <3>1, RemoveKeeps DEF ModuleExit
      <3>2. CASE bound /\ RemoveOops
        <4>1. TypeOK'
          BY <1>0, <2>0, <2>3, <3>2 DEF TypeOK, ModuleExit, RemoveOops, busVars, attrVars, ifVars
        <4>2. CallbacksBacked'
          BY <1>0, <2>0, <2>3, <3>2 DEF CallbacksBacked, NothingLeftBehind, InStep, ModuleExit, RemoveOops, busVars, attrVars, ifVars
        <4>3. NothingLeftBehind'
          BY <1>0, <2>0, <2>3, <3>2 DEF NothingLeftBehind, InStep, TypeOK, ModuleExit, RemoveOops, busVars, attrVars, ifVars
        <4>4. WritesContained'
          BY <1>0, <2>0, <2>3, <3>2 DEF WritesContained, TypeOK, ModuleExit, RemoveOops, busVars, attrVars, ifVars
        <4>5. InStep'
          BY <1>0, <2>0, <2>3, <3>2 DEF InStep, NothingLeftBehind, CallbacksBacked, TypeOK, ModuleExit, RemoveOops, busVars, attrVars, ifVars
        <4> QED BY <4>1, <4>2, <4>3, <4>4, <4>5 DEF Inv
      <3>3. CASE ~bound /\ UNCHANGED <<busVars, attrVars, ifVars, failed, oops>>
        <4>1. TypeOK'
          BY <1>0, <2>0, <2>3, <3>3 DEF TypeOK, ModuleExit, busVars, attrVars, ifVars
        <4>2. CallbacksBacked'
          BY <1>0, <2>0, <2>3, <3>3 DEF CallbacksBacked, NothingLeftBehind, InStep, ModuleExit, busVars, attrVars, ifVars
        <4>3. NothingLeftBehind'
          BY <1>0, <2>0, <2>3, <3>3 DEF NothingLeftBehind, InStep, TypeOK, ModuleExit, busVars, attrVars, ifVars
        <4>4. WritesContained'
          BY <1>0, <2>0, <2>3, <3>3 DEF WritesContained, TypeOK, ModuleExit, busVars, attrVars, ifVars
        <4>5. InStep'
          BY <1>0, <2>0, <2>3, <3>3 DEF InStep, NothingLeftBehind, CallbacksBacked, TypeOK, ModuleExit, busVars, attrVars, ifVars
        <4> QED BY <4>1, <4>2, <4>3, <4>4, <4>5 DEF Inv
      <3> QED BY <2>3, <3>1, <3>2, <3>3 DEF ModuleExit
    <2>4. CASE \E k \in 0 .. 3 : ProbeFails(k)
      <3>1. TypeOK'
        BY <1>0, <2>0, <2>4, CreatedFacts DEF TypeOK, ProbeFails, CanProbe, attrVars, ifVars
      <3>2. CallbacksBacked'
        BY <1>0, <2>0, <2>4 DEF CallbacksBacked, NothingLeftBehind, InStep, ProbeFails, CanProbe, attrVars, ifVars
      <3>3. NothingLeftBehind'
        BY <1>0, <2>0, <2>4 DEF NothingLeftBehind, InStep, TypeOK, ProbeFails, CanProbe, attrVars, ifVars
      <3>4. WritesContained'
        BY <1>0, <2>0, <2>4 DEF WritesContained, TypeOK, ProbeFails, CanProbe, attrVars, ifVars
      <3>5. InStep'
        BY <1>0, <2>0, <2>4 DEF InStep, NothingLeftBehind, CallbacksBacked, TypeOK, ProbeFails, CanProbe, attrVars, ifVars
      <3> QED BY <3>1, <3>2, <3>3, <3>4, <3>5 DEF Inv
    <2>5. CASE ProbeNoNetdev
      <3>1. TypeOK'
        BY <1>0, <2>0, <2>5, ReadTreeFacts DEF TypeOK, ProbeNoNetdev, CanProbe, ifVars
      <3>2. CallbacksBacked'
        BY <1>0, <2>0, <2>5, ReadTreeFacts DEF CallbacksBacked, NothingLeftBehind, InStep, ProbeNoNetdev, CanProbe, ifVars
      <3>3. NothingLeftBehind'
        BY <1>0, <2>0, <2>5, ReadTreeFacts DEF NothingLeftBehind, InStep, TypeOK, ProbeNoNetdev, CanProbe, ifVars
      <3>4. WritesContained'
        BY <1>0, <2>0, <2>5, ReadTreeFacts DEF WritesContained, TypeOK, ProbeNoNetdev, CanProbe, ifVars
      <3>5. InStep'
        BY <1>0, <2>0, <2>5, ReadTreeFacts DEF InStep, NothingLeftBehind, CallbacksBacked, TypeOK, ProbeNoNetdev, CanProbe, ifVars
      <3> QED BY <3>1, <3>2, <3>3, <3>4, <3>5 DEF Inv
    <2>6. CASE Probe
      <3>1. TypeOK'
        BY <1>0, <2>0, <2>6, ReadTreeFacts DEF TypeOK, Probe, CanProbe, ifVars
      <3>2. CallbacksBacked'
        BY <1>0, <2>0, <2>6, ReadTreeFacts DEF CallbacksBacked, NothingLeftBehind, InStep, Probe, CanProbe, ifVars
      <3>3. NothingLeftBehind'
        BY <1>0, <2>0, <2>6, ReadTreeFacts DEF NothingLeftBehind, InStep, TypeOK, Probe, CanProbe, ifVars
      <3>4. WritesContained'
        BY <1>0, <2>0, <2>6, ReadTreeFacts DEF WritesContained, TypeOK, Probe, CanProbe, ifVars
      <3>5. InStep'
        BY <1>0, <2>0, <2>6, ReadTreeFacts DEF InStep, NothingLeftBehind, CallbacksBacked, TypeOK, Probe, CanProbe, ifVars
      <3> QED BY <3>1, <3>2, <3>3, <3>4, <3>5 DEF Inv
    <2>7. CASE Unbind
      <3>1. CASE Remove
        BY <1>0, <2>0, <2>7, <3>1, RemoveKeeps DEF Unbind, TypeOK, InStep
      <3>2. CASE RemoveOops
        <4>1. TypeOK'
          BY <1>0, <2>0, <2>7, <3>2 DEF TypeOK, Unbind, RemoveOops, busVars, attrVars, ifVars
        <4>2. CallbacksBacked'
          BY <1>0, <2>0, <2>7, <3>2 DEF CallbacksBacked, NothingLeftBehind, InStep, Unbind, RemoveOops, busVars, attrVars, ifVars
        <4>3. NothingLeftBehind'
          BY <1>0, <2>0, <2>7, <3>2 DEF NothingLeftBehind, InStep, TypeOK, Unbind, RemoveOops, busVars, attrVars, ifVars
        <4>4. WritesContained'
          BY <1>0, <2>0, <2>7, <3>2 DEF WritesContained, TypeOK, Unbind, RemoveOops, busVars, attrVars, ifVars
        <4>5. InStep'
          BY <1>0, <2>0, <2>7, <3>2 DEF InStep, NothingLeftBehind, CallbacksBacked, TypeOK, Unbind, RemoveOops, busVars, attrVars, ifVars
        <4> QED BY <4>1, <4>2, <4>3, <4>4, <4>5 DEF Inv
      <3> QED BY <2>7, <3>1, <3>2 DEF Unbind
    <2>8. CASE Store
      <3>1. PICK count \in 1 .. MaxLen :
              StoreTtyName(count) \/ StoreSsid(count) \/ StorePassword(count)
        BY <2>8 DEF Store
      <3>2. count \in Nat \ {0} BY DriverAssumption, SMT
      <3>3. CASE StoreTtyName(count)
        <4>1. TypeOK'
          BY <1>0, <2>0, <3>2, <3>3 DEF TypeOK, StoreTtyName, busVars, ifVars
        <4>2. CallbacksBacked'
          BY <1>0, <2>0, <3>2, <3>3 DEF CallbacksBacked, NothingLeftBehind, InStep, StoreTtyName, busVars, ifVars
        <4>3. NothingLeftBehind'
          BY <1>0, <2>0, <3>2, <3>3 DEF NothingLeftBehind, InStep, TypeOK, StoreTtyName, busVars, ifVars
        <4>4. WritesContained'
          BY <1>0, <2>0, <3>2, <3>3 DEF WritesContained, TypeOK, StoreTtyName, busVars, ifVars
        <4>5. InStep'
          BY <1>0, <2>0, <3>2, <3>3 DEF InStep, NothingLeftBehind, CallbacksBacked, TypeOK, StoreTtyName, busVars, ifVars
        <4> QED BY <4>1, <4>2, <4>3, <4>4, <4>5 DEF Inv
      <3>4. CASE StoreSsid(count)
        <4>1. TypeOK'
          BY <1>0, <2>0, <3>2, <3>4, CredentialFacts DEF TypeOK, StoreSsid, busVars, ifVars
        <4>2. CallbacksBacked'
          BY <1>0, <2>0, <3>2, <3>4 DEF CallbacksBacked, NothingLeftBehind, InStep, StoreSsid, busVars, ifVars
        <4>3. NothingLeftBehind'
          BY <1>0, <2>0, <3>2, <3>4, CredentialFacts DEF NothingLeftBehind, InStep, TypeOK, StoreSsid, busVars, ifVars
        <4>4. WritesContained'
          BY <1>0, <2>0, <3>2, <3>4, CredentialFacts, DriverAssumption, SMT DEF WritesContained, TypeOK, SizeOf, StoreSsid, busVars, ifVars
        <4>5. InStep'
          BY <1>0, <2>0, <3>2, <3>4, CredentialFacts DEF InStep, NothingLeftBehind, CallbacksBacked, TypeOK, StoreSsid, busVars, ifVars
        <4> QED BY <4>1, <4>2, <4>3, <4>4, <4>5 DEF Inv
      <3>5. CASE StorePassword(count)
        <4>1. TypeOK'
          BY <1>0, <2>0, <3>2, <3>5, CredentialFacts DEF TypeOK, StorePassword, busVars, ifVars
        <4>2. CallbacksBacked'
          BY <1>0, <2>0, <3>2, <3>5 DEF CallbacksBacked, NothingLeftBehind, InStep, StorePassword, busVars, ifVars
        <4>3. NothingLeftBehind'
          BY <1>0, <2>0, <3>2, <3>5, CredentialFacts DEF NothingLeftBehind, InStep, TypeOK, StorePassword, busVars, ifVars
        <4>4. WritesContained'
          BY <1>0, <2>0, <3>2, <3>5, CredentialFacts, DriverAssumption, SMT DEF WritesContained, TypeOK, SizeOf, UNUSED, StorePassword, busVars, ifVars
        <4>5. InStep'
          BY <1>0, <2>0, <3>2, <3>5, CredentialFacts DEF InStep, NothingLeftBehind, CallbacksBacked, TypeOK, StorePassword, busVars, ifVars
        <4> QED BY <4>1, <4>2, <4>3, <4>4, <4>5 DEF Inv
      <3> QED BY <3>1, <3>3, <3>4, <3>5
    <2>9. CASE SysfsOops
      <3>1. TypeOK'
        BY <1>0, <2>0, <2>9 DEF TypeOK, SysfsOops, busVars, attrVars, ifVars
      <3>2. CallbacksBacked'
        BY <1>0, <2>0, <2>9 DEF CallbacksBacked, NothingLeftBehind, InStep, SysfsOops, busVars, attrVars, ifVars
      <3>3. NothingLeftBehind'
        BY <1>0, <2>0, <2>9 DEF NothingLeftBehind, InStep, TypeOK, SysfsOops, busVars, attrVars, ifVars
      <3>4. WritesContained'
        BY <1>0, <2>0, <2>9 DEF WritesContained, TypeOK, SysfsOops, busVars, attrVars, ifVars
      <3>5. InStep'
        BY <1>0, <2>0, <2>9 DEF InStep, NothingLeftBehind, CallbacksBacked, TypeOK, SysfsOops, busVars, attrVars, ifVars
      <3> QED BY <3>1, <3>2, <3>3, <3>4, <3>5 DEF Inv
    <2>10. CASE OpenFails
      <3>1. TypeOK'
        BY <1>0, <2>0, <2>10 DEF TypeOK, OpenFails, MayOpen, busVars, attrVars
      <3>2. CallbacksBacked'
        BY <1>0, <2>0, <2>10 DEF CallbacksBacked, NothingLeftBehind, InStep, OpenFails, MayOpen, busVars, attrVars
      <3>3. NothingLeftBehind'
        BY <1>0, <2>0, <2>10 DEF NothingLeftBehind, InStep, TypeOK, OpenFails, MayOpen, busVars, attrVars
      <3>4. WritesContained'
        BY <1>0, <2>0, <2>10 DEF WritesContained, TypeOK, OpenFails, MayOpen, busVars, attrVars
      <3>5. InStep'
        BY <1>0, <2>0, <2>10 DEF InStep, NothingLeftBehind, CallbacksBacked, TypeOK, OpenFails, MayOpen, busVars, attrVars
      <3> QED BY <3>1, <3>2, <3>3, <3>4, <3>5 DEF Inv
    <2>11. CASE Open
      <3>1. TypeOK'
        BY <1>0, <2>0, <2>11 DEF TypeOK, Open, MayOpen, busVars, attrVars
      <3>2. CallbacksBacked'
        BY <1>0, <2>0, <2>11 DEF CallbacksBacked, NothingLeftBehind, InStep, Open, MayOpen, busVars, attrVars
      <3>3. NothingLeftBehind'
        BY <1>0, <2>0, <2>11 DEF NothingLeftBehind, InStep, TypeOK, Open, MayOpen, busVars, attrVars
      <3>4. WritesContained'
        BY <1>0, <2>0, <2>11 DEF WritesContained, TypeOK, Open, MayOpen, busVars, attrVars
      <3>5. InStep'
        BY <1>0, <2>0, <2>11 DEF InStep, NothingLeftBehind, CallbacksBacked, TypeOK, Open, MayOpen, busVars, attrVars
      <3> QED BY <3>1, <3>2, <3>3, <3>4, <3>5 DEF Inv
    <2>12. CASE Close
      <3>1. TypeOK'
        BY <1>0, <2>0, <2>12 DEF TypeOK, Close, Stop, busVars, attrVars
      <3>2. CallbacksBacked'
        BY <1>0, <2>0, <2>12 DEF CallbacksBacked, NothingLeftBehind, InStep, Close, Stop, busVars, attrVars
      <3>3. NothingLeftBehind'
        BY <1>0, <2>0, <2>12 DEF NothingLeftBehind, InStep, TypeOK, Close, Stop, busVars, attrVars
      <3>4. WritesContained'
        BY <1>0, <2>0, <2>12 DEF WritesContained, TypeOK, Close, Stop, busVars, attrVars
      <3>5. InStep'
        BY <1>0, <2>0, <2>12 DEF InStep, NothingLeftBehind, CallbacksBacked, TypeOK, Close, Stop, busVars, attrVars
      <3> QED BY <3>1, <3>2, <3>3, <3>4, <3>5 DEF Inv
    <2>13. CASE LdiscOops
      <3>1. TypeOK'
        BY <1>0, <2>0, <2>13 DEF TypeOK, LdiscOops, busVars, attrVars, ifVars
      <3>2. CallbacksBacked'
        BY <1>0, <2>0, <2>13 DEF CallbacksBacked, NothingLeftBehind, InStep, LdiscOops, busVars, attrVars, ifVars
      <3>3. NothingLeftBehind'
        BY <1>0, <2>0, <2>13 DEF NothingLeftBehind, InStep, TypeOK, LdiscOops, busVars, attrVars, ifVars
      <3>4. WritesContained'
        BY <1>0, <2>0, <2>13 DEF WritesContained, TypeOK, LdiscOops, busVars, attrVars, ifVars
      <3>5. InStep'
        BY <1>0, <2>0, <2>13 DEF InStep, NothingLeftBehind, CallbacksBacked, TypeOK, LdiscOops, busVars, attrVars, ifVars
      <3> QED BY <3>1, <3>2, <3>3, <3>4, <3>5 DEF Inv
    <2> QED
      BY <1>2, <2>1, <2>2, <2>3, <2>4, <2>5, <2>6, <2>7, <2>8, <2>9, <2>10, <2>11, <2>12, <2>13
      DEF Next
  <1> QED BY <1>1, <1>2

\* The fields of the private data and the kernel's view of the device keep their
\* types through every failure of probe, open and unbind.
THEOREM TypeCorrect == Spec => []TypeOK
  <1>1. Inv => TypeOK BY DEF Inv
  <1> QED BY <1>1, Initially, StepKeeps, PTL DEF Spec

\* Whatever fails in probe, open, unbind and unload, a registered interface and a
\* requested interrupt have their struct and the module's code, an attached line
\* discipline has the code, and the struct as long as the interface is up.
THEOREM CallbacksSafe == Spec => []CallbacksBacked
  <1>1. Inv => CallbacksBacked BY DEF Inv
  <1> QED BY <1>1, Initially, StepKeeps, PTL DEF Spec

\* ifdown, unbind and unload give back, in every order, what open, probe and load
\* have taken: the tty, the line discipline and the interrupt, the sysfs files but
\* netif_info, the registration of the line discipline; each unless the step that
\* takes it has failed before.
THEOREM AllGivenBack == Spec => []NothingLeftBehind
  <1>1. Inv => NothingLeftBehind BY DEF Inv
  <1> QED BY <1>1, Initially, StepKeeps, PTL DEF Spec

\* No string from sysfs or the device tree is written past the unused fields
\* behind the password.
THEOREM WritesSafe == Spec => []WritesContained
  <1>1. Inv => WritesContained BY DEF Inv
  <1> QED BY <1>1, Initially, StepKeeps, PTL DEF Spec
=============================================================================
