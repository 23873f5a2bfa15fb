--------------------------- MODULE HostLinkProofs ---------------------------
(***************************************************************************)
(* uart_wifi_stop leaves nothing running, and no edge of GPIO5 is lost,    *)
(* however often and in whatever order the interface is opened and closed  *)
(* and the station restarts.                                               *)
(***************************************************************************)
EXTENDS HostLink, TLAPS

\* The interrupt is requested from open to free_irq, and only then can an edge
\* wait; a closed interface has no work; an open one keeps its work going; and a
\* work that is about to turn the carrier on has seen GPIO5 low, unless an edge
\* since then will make it run again.
Control ==
  /\ armed <=> admin \in {"open", "free_irq"}
  /\ edge => armed
  /\ admin = "closed" => work = "idle" /\ ~pending /\ rx = "idle"
  /\ admin = "open" => work_hold
  /\ admin = "open" /\ work = "carrier_on" /\ ~pending /\ ~edge => gpio5 = 0
  /\ admin = "open" /\ work = "idle" /\ ~pending /\ ~edge => carrier /\ gpio5 = 0

Frame == {"ssid", "right", "wrong", "torn", "long", "echo", "data"}

\* TypeOK, the flags apart from the rest.
PlacesOK ==
  /\ admin \in {"closed", "open", "free_irq", "carrier_off", "release", "cancel"}
  /\ password \in {"right", "wrong"} /\ password_len \in {"right", "wrong"}
  /\ work \in {"idle", "top", "carrier_on", "clear", "flush", "low", "high", "ssid",
               "passwd", "wait"}
  /\ gpio_reset \in {0, 1} /\ gpio5 \in {0, 1}
  /\ rx \in {"idle", "echoed"} /\ reader \in {"asleep", "awake", "done"}
  /\ st \in {"off", "boot", "ssid", "passwd", "wifi", "told", "up", "down", "stuck"}
  /\ toHost \in Nat /\ toEsp \in Seq(Frame) /\ events \in 0 .. MaxEvents

FlagsOK ==
  /\ pending \in BOOLEAN /\ force_reset \in BOOLEAN /\ work_hold \in BOOLEAN
  /\ netif_info_vaild \in BOOLEAN /\ carrier \in BOOLEAN /\ qstopped \in BOOLEAN
  /\ armed \in BOOLEAN /\ edge \in BOOLEAN /\ skip \in BOOLEAN

Inv == PlacesOK /\ FlagsOK /\ Control

\* A queue of frames stays one when a frame is added,
LEMMA AppendType ==
  ASSUME NEW s \in Seq(Frame), NEW f \in Frame
  PROVE  Append(s, f) \in Seq(Frame)
  BY SMT

\* or when the first is taken.
LEMMA TailType ==
  ASSUME NEW s \in Seq(Frame), s # <<>>
  PROVE  Tail(s) \in Seq(Frame) /\ Head(s) \in Frame
  BY SMT

\* or when the first is cut in two.
LEMMA ExceptType ==
  ASSUME NEW s \in Seq(Frame), s # <<>>
  PROVE  [s EXCEPT ![1] = "torn"] \in Seq(Frame)
  BY SMT DEF Frame

\* What the link work sends for the password is one frame, and no echo.
LEMMA SentFacts ==
  ASSUME PlacesOK, NEW f \in Sent
  PROVE  f \in Frame /\ f # "echo"
  <1>1. CASE password = password_len BY <1>1 DEF PlacesOK, Sent, Frame
  <1>2. CASE password # password_len /\ password = "right" BY <1>2 DEF Sent, Frame
  <1>3. CASE password # password_len /\ password # "right" BY <1>3 DEF Sent, Frame
  <1> QED BY <1>1, <1>2, <1>3

\* The invariant holds at the start.
LEMMA Initially == Init => Inv
  <1> SUFFICES ASSUME Init PROVE Inv
    OBVIOUS
  <1>1. PlacesOK BY HostLinkAssumption DEF Init, PlacesOK
  <1>2. FlagsOK BY DEF Init, FlagsOK
  <1>3. Control BY DEF Init, Control
  <1> QED BY <1>1, <1>2, <1>3 DEF Inv

\* The steps of uart_wifi_stop.
LEMMA StopKeeps == Inv /\ Stop => Inv'
  <1> SUFFICES ASSUME Inv, Stop PROVE Inv'
    OBVIOUS
  <1> USE DEF adminVars, workVars, netVars, infoVars, irqVars, stVars
  <1>0. PlacesOK /\ FlagsOK /\ Control BY DEF Inv
  <1>1. CASE StopFreeIrq
    <2>1. PlacesOK'
      BY <1>0, <1>1, HostLinkAssumption DEF PlacesOK, StopFreeIrq
    <2>2. FlagsOK'
      BY <1>0, <1>1 DEF FlagsOK, StopFreeIrq
    <2>3. Control'
      BY <1>0, <1>1 DEF PlacesOK, FlagsOK, Control, StopFreeIrq
    <2> QED BY <2>1, <2>2, <2>3 DEF Inv
  <1>2. CASE StopCarrierOff
    <2>1. PlacesOK'
      BY <1>0, <1>2, HostLinkAssumption DEF PlacesOK, StopCarrierOff
    <2>2. FlagsOK'
      BY <1>0, <1>2 DEF FlagsOK, StopCarrierOff
    <2>3. Control'
      BY <1>0, <1>2 DEF PlacesOK, FlagsOK, Control, StopCarrierOff
    <2> QED BY <2>1, <2>2, <2>3 DEF Inv
  <1>3. CASE StopRelease
    <2>1. PlacesOK'
      BY <1>0, <1>3, HostLinkAssumption DEF PlacesOK, StopRelease
    <2>2. FlagsOK'
      BY <1>0, <1>3 DEF FlagsOK, StopRelease
    <2>3. Control'
      BY <1>0, <1>3 DEF PlacesOK, FlagsOK, Control, StopRelease
    <2> QED BY <2>1, <2>2, <2>3 DEF Inv
  <1>4. CASE StopCancel
    <2>1. PlacesOK'
      BY <1>0, <1>4, HostLinkAssumption DEF PlacesOK, StopCancel
    <2>2. FlagsOK'
      BY <1>0, <1>4 DEF FlagsOK, StopCancel
    <2>3. Control'
      BY <1>0, <1>4 DEF PlacesOK, FlagsOK, Control, StopCancel
    <2> QED BY <2>1, <2>2, <2>3 DEF Inv
  <1> QED
    BY <1>1, <1>2, <1>3, <1>4 DEF Stop

\* The steps of the link work.
LEMMA WorkKeeps == Inv /\ Work => Inv'
  <1> SUFFICES ASSUME Inv, Work PROVE Inv'
    OBVIOUS
  <1> USE DEF adminVars, workVars, netVars, infoVars, irqVars, stVars
  <1>0. PlacesOK /\ FlagsOK /\ Control BY DEF Inv
  <1>1. CASE WorkStart
    <2>1. PlacesOK'
      BY <1>0, <1>1, HostLinkAssumption DEF PlacesOK, WorkStart
    <2>2. FlagsOK'
      BY <1>0, <1>1 DEF FlagsOK, WorkStart
    <2>3. Control'
      BY <1>0, <1>1 DEF PlacesOK, FlagsOK, Control, WorkStart
    <2> QED BY <2>1, <2>2, <2>3 DEF Inv
  <1>2. CASE WorkForced
    <2>1. PlacesOK'
      BY <1>0, <1>2, HostLinkAssumption DEF PlacesOK, WorkForced, WorkAt
    <2>2. FlagsOK'
      BY <1>0, <1>2 DEF FlagsOK, WorkForced, WorkAt
    <2>3. Control'
      BY <1>0, <1>2 DEF PlacesOK, FlagsOK, Control, WorkForced, WorkAt
    <2> QED BY <2>1, <2>2, <2>3 DEF Inv
  <1>3. CASE WorkUp
    <2>1. PlacesOK'
      BY <1>0, <1>3, HostLinkAssumption DEF PlacesOK, WorkUp, WorkAt
    <2>2. FlagsOK'
      BY <1>0, <1>3 DEF FlagsOK, WorkUp, WorkAt
    <2>3. Control'
      BY <1>0, <1>3 DEF PlacesOK, FlagsOK, Control, WorkUp, WorkAt
    <2> QED BY <2>1, <2>2, <2>3 DEF Inv
  <1>4. CASE WorkDown
    <2>1. PlacesOK'
      BY <1>0, <1>4, HostLinkAssumption DEF PlacesOK, WorkDown, WorkAt
    <2>2. FlagsOK'
      BY <1>0, <1>4 DEF FlagsOK, WorkDown, WorkAt
    <2>3. Control'
      BY <1>0, <1>4 DEF PlacesOK, FlagsOK, Control, WorkDown, WorkAt
    <2> QED BY <2>1, <2>2, <2>3 DEF Inv
  <1>5. CASE WorkCarrierOn
    <2>1. PlacesOK'
      BY <1>0, <1>5, HostLinkAssumption DEF PlacesOK, WorkCarrierOn, WorkAt
    <2>2. FlagsOK'
      BY <1>0, <1>5 DEF FlagsOK, WorkCarrierOn, WorkAt
    <2>3. Control'
      BY <1>0, <1>5 DEF PlacesOK, FlagsOK, Control, WorkCarrierOn, WorkAt
    <2> QED BY <2>1, <2>2, <2>3 DEF Inv
  <1>6. CASE WorkClear
    <2>1. PlacesOK'
      BY <1>0, <1>6, HostLinkAssumption DEF PlacesOK, WorkClear, WorkAt
    <2>2. FlagsOK'
      BY <1>0, <1>6 DEF FlagsOK, WorkClear, WorkAt
    <2>3. Control'
      BY <1>0, <1>6 DEF PlacesOK, FlagsOK, Control, WorkClear, WorkAt
    <2> QED BY <2>1, <2>2, <2>3 DEF Inv
  <1>7. CASE WorkFlush
    <2>1. PlacesOK'
      BY <1>0, <1>7, HostLinkAssumption DEF PlacesOK, WorkFlush, WorkAt
    <2>2. FlagsOK'
      BY <1>0, <1>7 DEF FlagsOK, WorkFlush, WorkAt
    <2>3. Control'
      BY <1>0, <1>7 DEF PlacesOK, FlagsOK, Control, WorkFlush, WorkAt
    <2> QED BY <2>1, <2>2, <2>3 DEF Inv
  <1>8. CASE WorkResetLow
    <2>1. PlacesOK'
      BY <1>0, <1>8, HostLinkAssumption DEF PlacesOK, WorkResetLow, WorkAt, ResetLow, EdgeOn
    <2>2. FlagsOK'
      BY <1>0, <1>8 DEF FlagsOK, WorkResetLow, WorkAt, ResetLow, EdgeOn
    <2>3. Control'
      BY <1>0, <1>8 DEF PlacesOK, FlagsOK, Control, WorkResetLow, WorkAt, ResetLow, EdgeOn
    <2> QED BY <2>1, <2>2, <2>3 DEF Inv
  <1>9. CASE WorkResetHigh
    <2>1. PlacesOK'
      BY <1>0, <1>9, HostLinkAssumption DEF PlacesOK, WorkResetHigh, WorkAt, ResetHigh
    <2>2. FlagsOK'
      BY <1>0, <1>9 DEF FlagsOK, WorkResetHigh, WorkAt, ResetHigh
    <2>3. Control'
      BY <1>0, <1>9 DEF PlacesOK, FlagsOK, Control, WorkResetHigh, WorkAt, ResetHigh
    <2> QED BY <2>1, <2>2, <2>3 DEF Inv
  <1>10. CASE WorkSsid
    <2>1. PlacesOK'
      BY <1>0, <1>10, HostLinkAssumption, AppendType DEF PlacesOK, Frame, WorkSsid, WorkAt
    <2>2. FlagsOK'
      BY <1>0, <1>10 DEF FlagsOK, WorkSsid, WorkAt
    <2>3. Control'
      BY <1>0, <1>10 DEF PlacesOK, FlagsOK, Control, WorkSsid, WorkAt
    <2> QED BY <2>1, <2>2, <2>3 DEF Inv
  <1>11. CASE WorkPasswd
    <2>1. PlacesOK'
      <3>1. PICK f \in Sent : toEsp' = Append(toEsp, f)
        BY <1>11 DEF WorkPasswd
      <3>2. f \in Frame
        BY <1>0, SentFacts
      <3>3. toEsp' \in Seq(Frame)
        BY <1>0, <3>1, <3>2, AppendType DEF PlacesOK
      <3> QED BY <1>0, <1>11, <3>3 DEF PlacesOK, WorkPasswd, WorkAt
    <2>2. FlagsOK'
      BY <1>0, <1>11 DEF FlagsOK, WorkPasswd, WorkAt
    <2>3. Control'
      BY <1>0, <1>11 DEF PlacesOK, FlagsOK, Control, WorkPasswd, WorkAt
    <2> QED BY <2>1, <2>2, <2>3 DEF Inv
  <1>12. CASE WorkGiveUp
    <2>1. PlacesOK'
      BY <1>0, <1>12, HostLinkAssumption DEF PlacesOK, WorkGiveUp, WorkAt
    <2>2. FlagsOK'
      BY <1>0, <1>12 DEF FlagsOK, WorkGiveUp, WorkAt
    <2>3. Control'
      BY <1>0, <1>12 DEF PlacesOK, FlagsOK, Control, WorkGiveUp, WorkAt
    <2> QED BY <2>1, <2>2, <2>3 DEF Inv
  <1>13. CASE WorkRetry
    <2>1. PlacesOK'
      BY <1>0, <1>13, HostLinkAssumption DEF PlacesOK, WorkRetry, Event
    <2>2. FlagsOK'
      BY <1>0, <1>13 DEF FlagsOK, WorkRetry, Event
    <2>3. Control'
      BY <1>0, <1>13 DEF PlacesOK, FlagsOK, Control, WorkRetry, Event
    <2> QED BY <2>1, <2>2, <2>3 DEF Inv
  <1> QED
    BY <1>1, <1>2, <1>3, <1>4, <1>5, <1>6, <1>7, <1>8, <1>9, <1>10, <1>11, <1>12, <1>13 DEF Work

\* The steps of the receiver.
LEMMA ReceiverKeeps == Inv /\ Receiver => Inv'
  <1> SUFFICES ASSUME Inv, Receiver PROVE Inv'
    OBVIOUS
  <1> USE DEF adminVars, workVars, netVars, infoVars, irqVars, stVars
  <1>0. PlacesOK /\ FlagsOK /\ Control BY DEF Inv
  <1>1. CASE ReceiveInfo
    <2>1. PlacesOK'
      BY <1>0, <1>1, HostLinkAssumption, AppendType DEF PlacesOK, Frame, ReceiveInfo
    <2>2. FlagsOK'
      BY <1>0, <1>1 DEF FlagsOK, ReceiveInfo
    <2>3. Control'
      BY <1>0, <1>1 DEF PlacesOK, FlagsOK, Control, ReceiveInfo
    <2> QED BY <2>1, <2>2, <2>3 DEF Inv
  <1>2. CASE InfoValid
    <2>1. PlacesOK'
      BY <1>0, <1>2, HostLinkAssumption DEF PlacesOK, InfoValid
    <2>2. FlagsOK'
      BY <1>0, <1>2 DEF FlagsOK, InfoValid
    <2>3. Control'
      BY <1>0, <1>2 DEF PlacesOK, FlagsOK, Control, InfoValid
    <2> QED BY <2>1, <2>2, <2>3 DEF Inv
  <1>3. CASE SwallowInfo
    <2>1. PlacesOK'
      BY <1>0, <1>3, HostLinkAssumption DEF PlacesOK, SwallowInfo
    <2>2. FlagsOK'
      BY <1>0, <1>3 DEF FlagsOK, SwallowInfo
    <2>3. Control'
      BY <1>0, <1>3 DEF PlacesOK, FlagsOK, Control, SwallowInfo
    <2> QED BY <2>1, <2>2, <2>3 DEF Inv
  <1> QED
    BY <1>1, <1>2, <1>3 DEF Receiver

\* The steps of the station.
LEMMA StationKeeps == Inv /\ Station => Inv'
  <1> SUFFICES ASSUME Inv, Station PROVE Inv'
    OBVIOUS
  <1> USE DEF adminVars, workVars, netVars, infoVars, irqVars, stVars
  <1>0. PlacesOK /\ FlagsOK /\ Control BY DEF Inv
  <1>1. CASE Booted
    <2>1. PlacesOK'
      BY <1>0, <1>1, HostLinkAssumption DEF PlacesOK, Booted, hostVars
    <2>2. FlagsOK'
      BY <1>0, <1>1 DEF FlagsOK, Booted, hostVars
    <2>3. Control'
      BY <1>0, <1>1 DEF PlacesOK, FlagsOK, Control, Booted, hostVars
    <2> QED BY <2>1, <2>2, <2>3 DEF Inv
  <1>2. CASE Take
    <2>1. PlacesOK'
      BY <1>0, <1>2, HostLinkAssumption, TailType DEF PlacesOK, Frame, Take, EdgeOn, Expected, Then, hostVars
    <2>2. FlagsOK'
      BY <1>0, <1>2 DEF FlagsOK, Take, EdgeOn, Expected, Then, hostVars
    <2>3. Control'
      BY <1>0, <1>2 DEF PlacesOK, FlagsOK, Control, Take, EdgeOn, Expected, Then, hostVars
    <2> QED BY <2>1, <2>2, <2>3 DEF Inv
  <1>3. CASE Skip
    <2>1. PlacesOK'
      BY <1>0, <1>3, HostLinkAssumption, TailType DEF PlacesOK, Frame, Skip, Expected, hostVars
    <2>2. FlagsOK'
      BY <1>0, <1>3 DEF FlagsOK, Skip, Expected, hostVars
    <2>3. Control'
      BY <1>0, <1>3 DEF PlacesOK, FlagsOK, Control, Skip, Expected, hostVars
    <2> QED BY <2>1, <2>2, <2>3 DEF Inv
  <1>4. CASE Mistake
    <2>1. PlacesOK'
      BY <1>0, <1>4, HostLinkAssumption, TailType DEF PlacesOK, Frame, Mistake, Expected, hostVars
    <2>2. FlagsOK'
      BY <1>0, <1>4 DEF FlagsOK, Mistake, Expected, hostVars
    <2>3. Control'
      BY <1>0, <1>4 DEF PlacesOK, FlagsOK, Control, Mistake, Expected, hostVars
    <2> QED BY <2>1, <2>2, <2>3 DEF Inv
  <1>5. CASE Resync
    <2>1. PlacesOK'
      BY <1>0, <1>5, HostLinkAssumption, TailType DEF PlacesOK, Frame, Resync, Expected, hostVars
    <2>2. FlagsOK'
      BY <1>0, <1>5 DEF FlagsOK, Resync, Expected, hostVars
    <2>3. Control'
      BY <1>0, <1>5 DEF PlacesOK, FlagsOK, Control, Resync, Expected, hostVars
    <2> QED BY <2>1, <2>2, <2>3 DEF Inv
  <1>6. CASE GotIp
    <2>1. PlacesOK'
      BY <1>0, <1>6, HostLinkAssumption DEF PlacesOK, GotIp, hostVars
    <2>2. FlagsOK'
      BY <1>0, <1>6 DEF FlagsOK, GotIp, hostVars
    <2>3. Control'
      BY <1>0, <1>6 DEF PlacesOK, FlagsOK, Control, GotIp, hostVars
    <2> QED BY <2>1, <2>2, <2>3 DEF Inv
  <1>7. CASE Consume
    <2>1. PlacesOK'
      BY <1>0, <1>7, HostLinkAssumption, TailType DEF PlacesOK, Frame, Consume, hostVars
    <2>2. FlagsOK'
      BY <1>0, <1>7 DEF FlagsOK, Consume, hostVars
    <2>3. Control'
      BY <1>0, <1>7 DEF PlacesOK, FlagsOK, Control, Consume, hostVars
    <2> QED BY <2>1, <2>2, <2>3 DEF Inv
  <1>8. CASE TakeLong
    <2>1. PlacesOK'
      BY <1>0, <1>8, HostLinkAssumption, ExceptType DEF PlacesOK, TakeLong, hostVars
    <2>2. FlagsOK'
      BY <1>0, <1>8 DEF FlagsOK, TakeLong, hostVars
    <2>3. Control'
      BY <1>0, <1>8 DEF PlacesOK, FlagsOK, Control, TakeLong, hostVars
    <2> QED BY <2>1, <2>2, <2>3 DEF Inv
  <1> QED
    BY <1>1, <1>2, <1>3, <1>4, <1>5, <1>6, <1>7, <1>8 DEF Station

\* Every step keeps the invariant.
LEMMA StepKeeps == Inv /\ [Next]_vars => Inv'
  <1> SUFFICES ASSUME Inv, [Next]_vars PROVE Inv'
    OBVIOUS
  <1> USE DEF adminVars, workVars, netVars, infoVars, irqVars, stVars
  <1>0. PlacesOK /\ FlagsOK /\ Control BY DEF Inv
  <1>1. CASE Open
    <2>1. PlacesOK'
      BY <1>0, <1>1, HostLinkAssumption DEF PlacesOK, Open, Event
    <2>2. FlagsOK'
      BY <1>0, <1>1 DEF FlagsOK, Open, Event
    <2>3. Control'
      BY <1>0, <1>1 DEF PlacesOK, FlagsOK, Control, Open, Event
    <2> QED BY <2>1, <2>2, <2>3 DEF Inv
  <1>2. CASE StopReset
    <2>1. PlacesOK'
      BY <1>0, <1>2, HostLinkAssumption DEF PlacesOK, StopReset, ResetLow, EdgeOn
    <2>2. FlagsOK'
      BY <1>0, <1>2 DEF FlagsOK, StopReset, ResetLow, EdgeOn
    <2>3. Control'
      BY <1>0, <1>2 DEF PlacesOK, FlagsOK, Control, StopReset, ResetLow, EdgeOn
    <2> QED BY <2>1, <2>2, <2>3 DEF Inv
  <1>3. CASE Stop
    BY <1>3, StopKeeps
  <1>4. CASE Store
    <2>1. PlacesOK'
      BY <1>0, <1>4, HostLinkAssumption DEF PlacesOK, Store, Event
    <2>2. FlagsOK'
      BY <1>0, <1>4 DEF FlagsOK, Store, Event
    <2>3. Control'
      BY <1>0, <1>4 DEF PlacesOK, FlagsOK, Control, Store, Event
    <2> QED BY <2>1, <2>2, <2>3 DEF Inv
  <1>5. CASE Irq
    <2>1. PlacesOK'
      BY <1>0, <1>5, HostLinkAssumption DEF PlacesOK, Irq
    <2>2. FlagsOK'
      BY <1>0, <1>5 DEF FlagsOK, Irq
    <2>3. Control'
      BY <1>0, <1>5 DEF PlacesOK, FlagsOK, Control, Irq
    <2> QED BY <2>1, <2>2, <2>3 DEF Inv
  <1>6. CASE Work
    BY <1>6, WorkKeeps
  <1>7. CASE Receiver
    BY <1>7, ReceiverKeeps
  <1>8. CASE Read
    <2>1. PlacesOK'
      BY <1>0, <1>8, HostLinkAssumption DEF PlacesOK, Read
    <2>2. FlagsOK'
      BY <1>0, <1>8 DEF FlagsOK, Read
    <2>3. Control'
      BY <1>0, <1>8 DEF PlacesOK, FlagsOK, Control, Read
    <2> QED BY <2>1, <2>2, <2>3 DEF Inv
  <1>9. CASE Xmit
    <2>1. PlacesOK'
      BY <1>0, <1>9, HostLinkAssumption, AppendType DEF PlacesOK, Frame, Xmit, Event
    <2>2. FlagsOK'
      BY <1>0, <1>9 DEF FlagsOK, Xmit, Event
    <2>3. Control'
      BY <1>0, <1>9 DEF PlacesOK, FlagsOK, Control, Xmit, Event
    <2> QED BY <2>1, <2>2, <2>3 DEF Inv
  <1>10. CASE Station
    BY <1>10, StationKeeps
  <1>11. CASE Lose
    <2>1. PlacesOK'
      BY <1>0, <1>11, HostLinkAssumption, TailType DEF PlacesOK, Frame, Lose, Event, hostVars
    <2>2. FlagsOK'
      BY <1>0, <1>11 DEF FlagsOK, Lose, Event, hostVars
    <2>3. Control'
      BY <1>0, <1>11 DEF PlacesOK, FlagsOK, Control, Lose, Event, hostVars
    <2> QED BY <2>1, <2>2, <2>3 DEF Inv
  <1>12. CASE ConnectFails
    <2>1. PlacesOK'
      BY <1>0, <1>12, HostLinkAssumption DEF PlacesOK, ConnectFails, Event, hostVars
    <2>2. FlagsOK'
      BY <1>0, <1>12 DEF FlagsOK, ConnectFails, Event, hostVars
    <2>3. Control'
      BY <1>0, <1>12 DEF PlacesOK, FlagsOK, Control, ConnectFails, Event, hostVars
    <2> QED BY <2>1, <2>2, <2>3 DEF Inv
  <1>13. CASE WifiLost
    <2>1. PlacesOK'
      BY <1>0, <1>13, HostLinkAssumption DEF PlacesOK, WifiLost, Event, EdgeOn, hostVars
    <2>2. FlagsOK'
      BY <1>0, <1>13 DEF FlagsOK, WifiLost, Event, EdgeOn, hostVars
    <2>3. Control'
      BY <1>0, <1>13 DEF PlacesOK, FlagsOK, Control, WifiLost, Event, EdgeOn, hostVars
    <2> QED BY <2>1, <2>2, <2>3 DEF Inv
  <1>14. CASE UNCHANGED vars
    <2>1. PlacesOK' BY <1>0, <1>14 DEF PlacesOK, vars
    <2>2. FlagsOK' BY <1>0, <1>14 DEF FlagsOK, vars
    <2>3. Control' BY <1>0, <1>14 DEF Control, vars
    <2> QED BY <2>1, <2>2, <2>3 DEF Inv
  <1> QED
    BY <1>1, <1>2, <1>3, <1>4, <1>5, <1>6, <1>7, <1>8, <1>9, <1>10, <1>11, <1>12, <1>13, <1>14 DEF Next

\* Every variable of the link's two ends keeps its type.
THEOREM TypeCorrect == Spec => []TypeOK
  <1>1. Inv => TypeOK BY DEF Inv, PlacesOK, FlagsOK, Frame, TypeOK
  <1> QED BY Initially, StepKeeps, <1>1, PTL DEF Spec

\* After uart_wifi_stop neither work nor interrupt of the driver is left, for
\* any number of opens, stops, retries and losses of the link.
THEOREM StopQuiet == Spec => []ClosedIsQuiet
  <1>1. Inv => ClosedIsQuiet BY DEF Inv, Control, ClosedIsQuiet
  <1> QED BY Initially, StepKeeps, <1>1, PTL DEF Spec

\* With the interface up and the work at rest, the carrier is on and the station
\* says that the link is up: no edge of GPIO5 was lost between the work's steps.
THEOREM NoEdgeLost == Spec => []AtRestMeansUp
  <1>1. Inv => AtRestMeansUp BY DEF Inv, Control, AtRestMeansUp
  <1> QED BY Initially, StepKeeps, <1>1, PTL DEF Spec
-----------------------------------------------------------------------------
(* The receiver and the station agree on what the line carries.  The host  *)
(* sets netif_info_vaild only after it has written the echo, and the       *)
(* station may answer in between; what the work clears it clears before it *)
(* empties the tty's buffer and resets the station.  So an echo under way  *)
(* to the station vouches for the receiver, except between WorkClear and   *)
(* WorkFlush, and so does GPIO5 once the echo has been taken.              *)

EchoSent == \E i \in 1 .. Len(toEsp) : toEsp[i] = "echo"

Vouched == netif_info_vaild \/ rx = "echoed"

Sync ==
  /\ admin = "closed" => toEsp = <<>>
  /\ admin = "open" /\ work # "flush" /\ EchoSent => Vouched
  /\ admin = "open" /\ ~force_reset /\ work \notin {"flush", "low"} /\ gpio5 = 0 => Vouched

\* An empty line carries no echo.
LEMMA EchoEmpty == ASSUME toEsp = <<>> PROVE ~EchoSent
  BY SMT DEF EchoSent

\* An unchanged line carries an echo if it did.
LEMMA EchoSame == ASSUME UNCHANGED toEsp PROVE EchoSent' <=> EchoSent
  BY DEF EchoSent

\* A line that is emptied carries no echo.
LEMMA EchoEmptied == ASSUME toEsp' = <<>> PROVE ~EchoSent'
  BY SMT DEF EchoSent

\* Taking a frame off the line puts no echo on it.
LEMMA EchoTail ==
  ASSUME toEsp \in Seq(Frame), toEsp # <<>>, toEsp' = Tail(toEsp), EchoSent'
  PROVE  EchoSent
  <1>1. PICK i \in 1 .. Len(Tail(toEsp)) : Tail(toEsp)[i] = "echo"
    BY DEF EchoSent
  <1>2. Tail(toEsp)[i] = toEsp[i + 1] /\ i + 1 \in 1 .. Len(toEsp)
    BY <1>1, SMT
  <1> QED BY <1>1, <1>2 DEF EchoSent

\* Another frame on the line is not an echo.
LEMMA EchoAppend ==
  ASSUME toEsp \in Seq(Frame), NEW f \in Frame, f # "echo", toEsp' = Append(toEsp, f),
         EchoSent'
  PROVE  EchoSent
  <1>1. PICK i \in 1 .. Len(Append(toEsp, f)) : Append(toEsp, f)[i] = "echo"
    BY DEF EchoSent
  <1>2. i \in 1 .. Len(toEsp) /\ Append(toEsp, f)[i] = toEsp[i]
    BY <1>1, SMT
  <1> QED BY <1>1, <1>2 DEF EchoSent

\* A frame that is cut in two is no echo.
LEMMA EchoExcept ==
  ASSUME toEsp \in Seq(Frame), toEsp # <<>>, toEsp' = [toEsp EXCEPT ![1] = "torn"], EchoSent'
  PROVE  EchoSent
  <1>1. PICK i \in 1 .. Len(toEsp') : toEsp'[i] = "echo"
    BY DEF EchoSent
  <1>2. i \in 1 .. Len(toEsp) /\ toEsp[i] = "echo"
    BY <1>1, SMT
  <1> QED BY <1>2 DEF EchoSent

\* An echo at the front is on the line.
LEMMA EchoHead ==
  ASSUME toEsp \in Seq(Frame), toEsp # <<>>, Head(toEsp) = "echo"
  PROVE  EchoSent
  <1>1. 1 \in 1 .. Len(toEsp) /\ toEsp[1] = "echo"
    BY SMT
  <1> QED BY <1>1 DEF EchoSent

\* Sync holds at the start.
LEMMA SyncInitially == Init => Sync
  BY EchoEmpty DEF Init, Sync

\* The steps of uart_wifi_stop.
LEMMA StopSyncs == Inv /\ Sync /\ Stop => Sync'
  <1> SUFFICES ASSUME Inv, Sync, Stop PROVE Sync'
    OBVIOUS
  <1> USE DEF adminVars, workVars, netVars, infoVars, irqVars, stVars
  <1>0. PlacesOK /\ FlagsOK /\ Control BY DEF Inv
  <1>1. CASE StopFreeIrq
    <2>1. EchoSent' <=> EchoSent
      BY <1>1, EchoSame DEF StopFreeIrq
    <2> QED
      BY <1>0, <1>1, <2>1 DEF PlacesOK, FlagsOK, Control, Sync, Vouched, StopFreeIrq
  <1>2. CASE StopCarrierOff
    <2>1. EchoSent' <=> EchoSent
      BY <1>2, EchoSame DEF StopCarrierOff
    <2> QED
      BY <1>0, <1>2, <2>1 DEF PlacesOK, FlagsOK, Control, Sync, Vouched, StopCarrierOff
  <1>3. CASE StopRelease
    <2>1. EchoSent' <=> EchoSent
      BY <1>3, EchoSame DEF StopRelease
    <2> QED
      BY <1>0, <1>3, <2>1 DEF PlacesOK, FlagsOK, Control, Sync, Vouched, StopRelease
  <1>4. CASE StopCancel
    <2>1. ~EchoSent'
      BY <1>4, EchoEmptied DEF StopCancel
    <2> QED
      BY <1>0, <1>4, <2>1 DEF PlacesOK, FlagsOK, Control, Sync, Vouched, StopCancel
  <1> QED
    BY <1>1, <1>2, <1>3, <1>4 DEF Stop

\* The steps of the link work.
LEMMA WorkSyncs == Inv /\ Sync /\ Work => Sync'
  <1> SUFFICES ASSUME Inv, Sync, Work PROVE Sync'
    OBVIOUS
  <1> USE DEF adminVars, workVars, netVars, infoVars, irqVars, stVars
  <1>0. PlacesOK /\ FlagsOK /\ Control BY DEF Inv
  <1>1. CASE WorkStart
    <2>1. EchoSent' <=> EchoSent
      BY <1>1, EchoSame DEF WorkStart
    <2> QED
      BY <1>0, <1>1, <2>1 DEF PlacesOK, FlagsOK, Control, Sync, Vouched, WorkStart
  <1>2. CASE WorkForced
    <2>1. EchoSent' <=> EchoSent
      BY <1>2, EchoSame DEF WorkForced, WorkAt
    <2> QED
      BY <1>0, <1>2, <2>1 DEF PlacesOK, FlagsOK, Control, Sync, Vouched, WorkForced, WorkAt
  <1>3. CASE WorkUp
    <2>1. EchoSent' <=> EchoSent
      BY <1>3, EchoSame DEF WorkUp, WorkAt
    <2> QED
      BY <1>0, <1>3, <2>1 DEF PlacesOK, FlagsOK, Control, Sync, Vouched, WorkUp, WorkAt
  <1>4. CASE WorkDown
    <2>1. EchoSent' <=> EchoSent
      BY <1>4, EchoSame DEF WorkDown, WorkAt
    <2> QED
      BY <1>0, <1>4, <2>1 DEF PlacesOK, FlagsOK, Control, Sync, Vouched, WorkDown, WorkAt
  <1>5. CASE WorkCarrierOn
    <2>1. EchoSent' <=> EchoSent
      BY <1>5, EchoSame DEF WorkCarrierOn, WorkAt
    <2> QED
      BY <1>0, <1>5, <2>1 DEF PlacesOK, FlagsOK, Control, Sync, Vouched, WorkCarrierOn, WorkAt
  <1>6. CASE WorkClear
    <2>1. EchoSent' <=> EchoSent
      BY <1>6, EchoSame DEF WorkClear, WorkAt
    <2> QED
      BY <1>0, <1>6, <2>1 DEF PlacesOK, FlagsOK, Control, Sync, Vouched, WorkClear, WorkAt
  <1>7. CASE WorkFlush
    <2>1. ~EchoSent'
      BY <1>7, EchoEmptied DEF WorkFlush, WorkAt
    <2> QED
      BY <1>0, <1>7, <2>1 DEF PlacesOK, FlagsOK, Control, Sync, Vouched, WorkFlush, WorkAt
  <1>8. CASE WorkResetLow
    <2>1. EchoSent' <=> EchoSent
      BY <1>8, EchoSame DEF WorkResetLow, WorkAt, ResetLow
    <2> QED
      BY <1>0, <1>8, <2>1 DEF PlacesOK, FlagsOK, Control, Sync, Vouched, WorkResetLow, WorkAt, ResetLow
  <1>9. CASE WorkResetHigh
    <2>1. EchoSent' <=> EchoSent
      BY <1>9, EchoSame DEF WorkResetHigh, WorkAt, ResetHigh
    <2> QED
      BY <1>0, <1>9, <2>1 DEF PlacesOK, FlagsOK, Control, Sync, Vouched, WorkResetHigh, WorkAt, ResetHigh
  <1>10. CASE WorkSsid
    <2> DEFINE f == "ssid"
    <2>1. f \in Frame /\ f # "echo"
      BY <1>0 DEF PlacesOK, Frame
    <2>2. toEsp' = Append(toEsp, f)
      BY <1>10 DEF WorkSsid, WorkAt
    <2> HIDE DEF f
    <2>3. EchoSent' => EchoSent
      BY <1>0, <2>1, <2>2, EchoAppend DEF PlacesOK
    <2> QED
      BY <1>0, <1>10, <2>3 DEF PlacesOK, FlagsOK, Control, Sync, Vouched, WorkSsid, WorkAt
  <1>11. CASE WorkPasswd
    <2>1. PICK f \in Sent : toEsp' = Append(toEsp, f)
      BY <1>11 DEF WorkPasswd
    <2>2. f \in Frame /\ f # "echo"
      BY <1>0, SentFacts
    <2>3. EchoSent' => EchoSent
      BY <1>0, <2>1, <2>2, EchoAppend DEF PlacesOK
    <2> QED
      BY <1>0, <1>11, <2>3 DEF PlacesOK, FlagsOK, Control, Sync, Vouched, WorkPasswd, WorkAt
  <1>12. CASE WorkGiveUp
    <2>1. EchoSent' <=> EchoSent
      BY <1>12, EchoSame DEF WorkGiveUp, WorkAt
    <2> QED
      BY <1>0, <1>12, <2>1 DEF PlacesOK, FlagsOK, Control, Sync, Vouched, WorkGiveUp, WorkAt
  <1>13. CASE WorkRetry
    <2>1. EchoSent' <=> EchoSent
      BY <1>13, EchoSame DEF WorkRetry
    <2> QED
      BY <1>0, <1>13, <2>1 DEF PlacesOK, FlagsOK, Control, Sync, Vouched, WorkRetry
  <1> QED
    BY <1>1, <1>2, <1>3, <1>4, <1>5, <1>6, <1>7, <1>8, <1>9, <1>10, <1>11, <1>12, <1>13 DEF Work

\* The steps of the receiver.
LEMMA ReceiverSyncs == Inv /\ Sync /\ Receiver => Sync'
  <1> SUFFICES ASSUME Inv, Sync, Receiver PROVE Sync'
    OBVIOUS
  <1> USE DEF adminVars, workVars, netVars, infoVars, irqVars, stVars
  <1>0. PlacesOK /\ FlagsOK /\ Control BY DEF Inv
  <1>1. CASE ReceiveInfo
    <2> QED
      BY <1>0, <1>1 DEF PlacesOK, FlagsOK, Control, Sync, Vouched, ReceiveInfo
  <1>2. CASE InfoValid
    <2>1. EchoSent' <=> EchoSent
      BY <1>2, EchoSame DEF InfoValid
    <2> QED
      BY <1>0, <1>2, <2>1 DEF PlacesOK, FlagsOK, Control, Sync, Vouched, InfoValid
  <1>3. CASE SwallowInfo
    <2>1. EchoSent' <=> EchoSent
      BY <1>3, EchoSame DEF SwallowInfo
    <2> QED
      BY <1>0, <1>3, <2>1 DEF PlacesOK, FlagsOK, Control, Sync, Vouched, SwallowInfo
  <1> QED
    BY <1>1, <1>2, <1>3 DEF Receiver

\* The steps of the station.
LEMMA StationSyncs == Inv /\ Sync /\ Station => Sync'
  <1> SUFFICES ASSUME Inv, Sync, Station PROVE Sync'
    OBVIOUS
  <1> USE DEF adminVars, workVars, netVars, infoVars, irqVars, stVars
  <1>0. PlacesOK /\ FlagsOK /\ Control BY DEF Inv
  <1>1. CASE Booted
    <2>1. EchoSent' <=> EchoSent
      BY <1>1, EchoSame DEF Booted, hostVars
    <2> QED
      BY <1>0, <1>1, <2>1 DEF PlacesOK, FlagsOK, Control, Sync, Vouched, Booted, hostVars
  <1>2. CASE Take
    <2>1. EchoSent' => EchoSent
      BY <1>0, <1>2, EchoTail DEF PlacesOK, Take, hostVars
    <2>2. st = "told" => EchoSent
      BY <1>0, <1>2, EchoHead DEF PlacesOK, Expected, Take, hostVars
    <2> QED
      BY <1>0, <1>2, <2>1, <2>2 DEF PlacesOK, FlagsOK, Control, Sync, Vouched, Take, hostVars
  <1>3. CASE Skip
    <2>1. EchoSent' => EchoSent
      BY <1>0, <1>3, EchoTail DEF PlacesOK, Skip, hostVars
    <2> QED
      BY <1>0, <1>3, <2>1 DEF PlacesOK, FlagsOK, Control, Sync, Vouched, Skip, hostVars
  <1>4. CASE Mistake
    <2>1. EchoSent' => EchoSent
      BY <1>0, <1>4, EchoTail DEF PlacesOK, Mistake, hostVars
    <2> QED
      BY <1>0, <1>4, <2>1 DEF PlacesOK, FlagsOK, Control, Sync, Vouched, Mistake, hostVars
  <1>5. CASE Resync
    <2>1. EchoSent' => EchoSent
      BY <1>0, <1>5, EchoTail DEF PlacesOK, Resync, hostVars
    <2> QED
      BY <1>0, <1>5, <2>1 DEF PlacesOK, FlagsOK, Control, Sync, Vouched, Resync, hostVars
  <1>6. CASE GotIp
    <2>1. EchoSent' <=> EchoSent
      BY <1>6, EchoSame DEF GotIp, hostVars
    <2> QED
      BY <1>0, <1>6, <2>1 DEF PlacesOK, FlagsOK, Control, Sync, Vouched, GotIp, hostVars
  <1>7. CASE Consume
    <2>1. EchoSent' => EchoSent
      BY <1>0, <1>7, EchoTail DEF PlacesOK, Consume, hostVars
    <2> QED
      BY <1>0, <1>7, <2>1 DEF PlacesOK, FlagsOK, Control, Sync, Vouched, Consume, hostVars
  <1>8. CASE TakeLong
    <2>1. EchoSent' => EchoSent
      BY <1>0, <1>8, EchoExcept DEF PlacesOK, TakeLong
    <2> QED
      BY <1>0, <1>8, <2>1 DEF PlacesOK, FlagsOK, Control, Sync, Vouched, TakeLong, hostVars
  <1> QED
    BY <1>1, <1>2, <1>3, <1>4, <1>5, <1>6, <1>7, <1>8 DEF Station

\* Every step.
LEMMA StepSyncs == Inv /\ Sync /\ [Next]_vars => Sync'
  <1> SUFFICES ASSUME Inv, Sync, [Next]_vars PROVE Sync'
    OBVIOUS
  <1> USE DEF adminVars, workVars, netVars, infoVars, irqVars, stVars
  <1>0. PlacesOK /\ FlagsOK /\ Control BY DEF Inv
  <1>1. CASE Open
    <2>1. ~EchoSent'
      BY <1>1, EchoEmptied DEF Sync, Open
    <2> QED
      BY <1>0, <1>1, <2>1 DEF PlacesOK, FlagsOK, Control, Sync, Vouched, Open
  <1>2. CASE StopReset
    <2>1. EchoSent' <=> EchoSent
      BY <1>2, EchoSame DEF StopReset, ResetLow
    <2> QED
      BY <1>0, <1>2, <2>1 DEF PlacesOK, FlagsOK, Control, Sync, Vouched, StopReset, ResetLow
  <1>3. CASE Stop
    BY <1>3, StopSyncs
  <1>4. CASE Store
    <2>1. EchoSent' <=> EchoSent
      BY <1>4, EchoSame DEF Store
    <2> QED
      BY <1>0, <1>4, <2>1 DEF PlacesOK, FlagsOK, Control, Sync, Vouched, Store
  <1>5. CASE Irq
    <2>1. EchoSent' <=> EchoSent
      BY <1>5, EchoSame DEF Irq
    <2> QED
      BY <1>0, <1>5, <2>1 DEF PlacesOK, FlagsOK, Control, Sync, Vouched, Irq
  <1>6. CASE Work
    BY <1>6, WorkSyncs
  <1>7. CASE Receiver
    BY <1>7, ReceiverSyncs
  <1>8. CASE Read
    <2>1. EchoSent' <=> EchoSent
      BY <1>8, EchoSame DEF Read
    <2> QED
      BY <1>0, <1>8, <2>1 DEF PlacesOK, FlagsOK, Control, Sync, Vouched, Read
  <1>9. CASE Xmit
    <2> DEFINE f == "data"
    <2>1. f \in Frame /\ f # "echo"
      BY <1>0 DEF PlacesOK, Frame
    <2>2. toEsp' = Append(toEsp, f)
      BY <1>9 DEF Xmit
    <2> HIDE DEF f
    <2>3. EchoSent' => EchoSent
      BY <1>0, <2>1, <2>2, EchoAppend DEF PlacesOK
    <2> QED
      BY <1>0, <1>9, <2>3 DEF PlacesOK, FlagsOK, Control, Sync, Vouched, Xmit
  <1>10. CASE Station
    BY <1>10, StationSyncs
  <1>11. CASE Lose
    <2>1. EchoSent' => EchoSent
      BY <1>0, <1>11, EchoTail DEF PlacesOK, Lose, hostVars
    <2> QED
      BY <1>0, <1>11, <2>1 DEF PlacesOK, FlagsOK, Control, Sync, Vouched, Lose, hostVars
  <1>12. CASE ConnectFails
    <2>1. EchoSent' <=> EchoSent
      BY <1>12, EchoSame DEF ConnectFails, hostVars
    <2> QED
      BY <1>0, <1>12, <2>1 DEF PlacesOK, FlagsOK, Control, Sync, Vouched, ConnectFails, hostVars
  <1>13. CASE WifiLost
    <2>1. EchoSent' <=> EchoSent
      BY <1>13, EchoSame DEF WifiLost, hostVars
    <2> QED
      BY <1>0, <1>13, <2>1 DEF PlacesOK, FlagsOK, Control, Sync, Vouched, WifiLost, hostVars
  <1>14. CASE UNCHANGED vars
    <2>1. EchoSent' <=> EchoSent
      BY <1>14, EchoSame DEF vars
    <2> QED
      BY <1>0, <1>14, <2>1 DEF PlacesOK, FlagsOK, Control, Sync, Vouched, vars
  <1> QED
    BY <1>1, <1>2, <1>3, <1>4, <1>5, <1>6, <1>7, <1>8, <1>9, <1>10, <1>11, <1>12, <1>13, <1>14 DEF Next

\* While the station passes packets on, the host's receiver parses packets, in
\* every interleaving of the receiver's echo, the station's answer to it, the
\* link work and ifup.
THEOREM InSync == Spec => []ReceiverInSync
  <1>1. Init => Inv /\ Sync
    BY Initially, SyncInitially
  <1>2. Inv /\ Sync /\ [Next]_vars => Inv' /\ Sync'
    BY StepKeeps, StepSyncs
  <1>3. Inv /\ Sync => ReceiverInSync
    BY DEF Sync, Vouched, ReceiverInSync
  <1> QED BY <1>1, <1>2, <1>3, PTL DEF Spec
=============================================================================
