---------------------------- MODULE HostRxProofs ----------------------------
(***************************************************************************)
(* Proofs about HostRx, for every frame limit, byte stream, number of line *)
(* disturbances and number of link resets.                                 *)
(***************************************************************************)
EXTENDS HostRx, FramesProofs

USE DEF stack

\* The types of everything but wrapped, which has an invariant of its own below.
Typing == EnvOK /\ DevOK /\ CallOK /\ delivered \in Seq(Seq(Byte))

\* What a call counts as processed and what it counts as left add up to what
\* the tty passed in, even after the resync arithmetic has gone wrong.
Bookkeeping == call \in {"data", "info"} => processed + surplus = Len(cp)

\* ttyio_receive_data works on an skb.
HasSkb == call = "data" => recv_skb # NoSkb

\* In the first session no skb exists before the addresses are in, and they
\* stay in: the status a netif_info call leaves behind is never used to
\* continue a data frame.
Phases ==
  /\ ~attached => (call = "none" /\ ~netif_info_vaild)
  /\ call = "info" => ~netif_info_vaild
  /\ call = "data" => netif_info_vaild
  /\ ~netif_info_vaild => recv_skb = NoSkb

\* In the first session STATUS_DATA comes with a length that was checked.
LengthChecked ==
  /\ (call = "data" /\ st = "DATA") => dlen \in MIN_DATA_LEN .. MTU_LEN
  /\ (call = "none" /\ recv_skb # NoSkb /\ uart_recv_status = "DATA")
       => uartDataLen \in MIN_DATA_LEN .. MTU_LEN

FirstSession == relinks = 0 => (Phases /\ LengthChecked /\ SkbFits /\ DeliveredSizes)

\* The inductive invariant.
IInv == Typing /\ InfoFits /\ Bookkeeping /\ HasSkb /\ FirstSession

\* What the assumptions on the constants give the steps below.
LEMMA Constants ==
  /\ MTU_LEN \in Nat /\ MIN_DATA_LEN \in 1 .. MTU_LEN
  /\ InfoSize \in Nat /\ InfoSize >= 4 /\ INFO_LEN \in Byte
  /\ MAX_FRAME_LEN = MTU_LEN + 3 /\ MaxNoise \in Nat /\ MaxRelinks \in Nat
BY FrameAssumption, HostRxAssumption DEF InfoSize, MAX_FRAME_LEN, Byte

\* The invariant holds at the start.
THEOREM InitIInv == Init => IInv
<1> SUFFICES ASSUME Init PROVE IInv
  OBVIOUS
<1>1. EnvOK
  <2>1. /\ line \in Seq(Byte) /\ wire \in Seq(Byte) /\ sent \in Seq(Seq(Byte))
        /\ esp \in {"boot", "told", "linked"}
    BY HostRxAssumption, EmptySeq DEF Init
  <2>2. flush \in BOOLEAN
    BY Zenon DEF Init
  <2>3. noise \in 0 .. MaxNoise /\ relinks \in 0 .. MaxRelinks
    BY Constants DEF Init
  <2> QED
    BY <2>1, <2>2, <2>3 DEF EnvOK
<1>2. DevOK
  <2>1. attached \in BOOLEAN /\ netif_info_vaild \in BOOLEAN
    BY Zenon DEF Init
  <2>2. netif_info \in [1 .. InfoSize -> Byte]
    BY DEF Init, Byte
  <2> QED
    BY <2>1, <2>2, EmptySeq DEF Init, DevOK, Statuses
<1>3. CallOK /\ delivered \in Seq(Seq(Byte))
  BY EmptySeq DEF Init, CallOK, Statuses
<1>4. InfoFits
  BY Constants DEF Init, InfoFits
<1>5. FirstSession
  BY EmptySeq DEF Init, FirstSession, Phases, LengthChecked, SkbFits, DeliveredSizes
<1> QED
  BY <1>1, <1>2, <1>3, <1>4, <1>5 DEF Init, IInv, Typing, Bookkeeping, HasSkb

\* The parts of the invariant that a step leaves alone when it changes neither
\* the driver's fields nor a call.
LEMMA EnvStep ==
  ASSUME IInv, UNCHANGED <<dev, locals, delivered>>, EnvOK', relinks' = relinks
  PROVE  IInv'
BY DEF IInv, Typing, DevOK, CallOK, InfoFits, Bookkeeping, HasSkb, FirstSession,
       Phases, LengthChecked, SkbFits, DeliveredSizes, dev, locals

\* The station's and the line's steps keep the invariant.
LEMMA EnvIInv ==
  ASSUME IInv, EspInfo \/ EspSend \/ (\E b \in NoiseBytes : LineNoise(b))
  PROVE  IInv'
<1> USE DEF IInv, Typing
<1>1. ASSUME NEW bytes \in Seq(Byte), Push(bytes)
      PROVE  line' \in Seq(Byte) /\ wire' \in Seq(Byte) /\ flush' \in BOOLEAN
  <2>1. line' \in Seq(Byte) /\ wire' \in Seq(Byte)
    BY <1>1, ConcatProperties DEF Push, EnvOK
  <2>2. flush' \in BOOLEAN
    BY <1>1, Zenon DEF Push
  <2> QED
    BY <2>1, <2>2
<1>2. CASE EspInfo
  <2>1. Frame(NetifInfo, SPLIT_CMD) \in Seq(Byte)
    <3>1. NetifInfo \in Seq(Byte) /\ Len(NetifInfo) <= MTU_LEN /\ SPLIT_CMD \in Byte
      BY FrameAssumption, HostRxAssumption
    <3> QED
      BY <3>1, FrameType
  <2>2. line' \in Seq(Byte) /\ wire' \in Seq(Byte) /\ flush' \in BOOLEAN
    BY <1>1, <1>2, <2>1 DEF EspInfo
  <2>3. EnvOK' /\ relinks' = relinks
    BY <1>2, <2>2 DEF EspInfo, EnvOK
  <2> QED
    BY <1>2, <2>3, EnvStep DEF EspInfo
<1>3. CASE EspSend
  <2> DEFINE p == Packets[Len(sent) + 1]
  <2>1. Len(sent) + 1 \in 1 .. Len(Packets)
    BY <1>3, LenProperties, HostRxAssumption DEF EspSend, EnvOK
  <2>2. p \in Seq(Byte) /\ Len(p) <= MTU_LEN
    BY <2>1, ElementOfSeq, HostRxAssumption, FrameAssumption
  <2>3. Frame(p, SPLIT_DATA) \in Seq(Byte)
    BY <2>2, FrameType, FrameAssumption
  <2>4. line' \in Seq(Byte) /\ wire' \in Seq(Byte) /\ flush' \in BOOLEAN
    BY <1>1, <1>3, <2>3 DEF EspSend
  <2>5. sent' \in Seq(Seq(Byte))
    BY <1>3, <2>2, AppendProperties DEF EspSend, EnvOK
  <2>6. EnvOK' /\ relinks' = relinks
    BY <1>3, <2>4, <2>5 DEF EspSend, EnvOK
  <2> QED
    BY <1>3, <2>6, EnvStep DEF EspSend
<1>4. CASE \E b \in NoiseBytes : LineNoise(b)
  <2>1. PICK b \in NoiseBytes : LineNoise(b)
    BY <1>4
  <2>2. <<b>> \in Seq(Byte)
    BY HostRxAssumption
  <2>3. line' \in Seq(Byte) /\ wire' \in Seq(Byte) /\ flush' \in BOOLEAN
    BY <1>1, <2>1, <2>2 DEF LineNoise
  <2>4. EnvOK' /\ relinks' = relinks
    BY <2>1, <2>3, Constants DEF LineNoise, EnvOK
  <2> QED
    BY <2>1, <2>4, EnvStep DEF LineNoise
<1> QED
  BY <1>2, <1>3, <1>4

\* The calls that change no field of the driver keep the invariant.
LEMMA IdleCallIInv ==
  ASSUME IInv, EnterNoSkb \/ (\E n \in 1 .. Len(line) : ReceiveUnattached(n))
  PROVE  IInv'
<1> USE DEF IInv, Typing
<1>1. CASE EnterNoSkb
  <2>1. flush' \in BOOLEAN
    BY <1>1, Zenon DEF EnterNoSkb
  <2>2. EnvOK' /\ relinks' = relinks
    BY <1>1, <2>1 DEF EnterNoSkb, EnvOK
  <2> QED
    BY <1>1, <2>2, EnvStep DEF EnterNoSkb
<1>2. CASE \E n \in 1 .. Len(line) : ReceiveUnattached(n)
  <2>1. PICK n \in 1 .. Len(line) : ReceiveUnattached(n)
    BY <1>2
  <2>2. line' \in Seq(Byte)
    BY <2>1, DropType, LenProperties DEF ReceiveUnattached, EnvOK
  <2>3. EnvOK' /\ relinks' = relinks
    BY <2>1, <2>2 DEF ReceiveUnattached, EnvOK
  <2> QED
    BY <2>1, <2>3, EnvStep DEF ReceiveUnattached
<1> QED
  BY <1>1, <1>2

\* The reset by the link work keeps the invariant: it ends the first session.
LEMMA LinkResetIInv ==
  ASSUME IInv, NEW k \in 0 .. Len(line), LinkReset(k)
  PROVE  IInv'
<1> USE DEF IInv, Typing
<1>1. line' \in Seq(Byte)
  <2>1. Len(line) \in Nat
    BY LenProperties DEF EnvOK
  <2>2. \A i \in 1 .. (Len(line) - k) : line[i] \in Byte
    BY <2>1, ElementOfSeq DEF EnvOK
  <2>3. SubSeq(line, 1, Len(line) - k) \in Seq(Byte)
    BY <2>1, <2>2, SubSeqProperties
  <2> QED
    BY <2>3 DEF LinkReset
<1>2. EnvOK'
  BY <1>1, Constants DEF LinkReset, EnvOK
<1>3. netif_info_vaild' \in BOOLEAN
  BY Zenon DEF LinkReset
<1>4. DevOK'
  BY <1>3 DEF LinkReset, DevOK, Statuses
<1>5. CallOK' /\ delivered' \in Seq(Seq(Byte)) /\ Bookkeeping' /\ HasSkb'
  BY DEF LinkReset, CallOK, locals, Bookkeeping, HasSkb
<1>6. InfoFits'
  BY Constants DEF LinkReset, InfoFits, locals
<1>7. relinks' # 0
  BY DEF LinkReset, EnvOK
<1> QED
  BY <1>2, <1>4, <1>5, <1>6, <1>7 DEF FirstSession

\* Bringing the interface up keeps the invariant.
LEMMA AttachIInv == ASSUME IInv, Attach PROVE IInv'
<1> USE DEF IInv, Typing
<1>1. EnvOK'
  BY DEF Attach, EnvOK, env
<1>2. attached' \in BOOLEAN /\ netif_info_vaild' \in BOOLEAN
  BY Zenon DEF Attach
<1>3. DevOK'
  BY <1>2 DEF Attach, DevOK, Statuses
<1>4. CallOK' /\ delivered' \in Seq(Seq(Byte)) /\ Bookkeeping' /\ HasSkb'
  BY DEF Attach, CallOK, locals, Bookkeeping, HasSkb
<1>5. InfoFits'
  BY Constants DEF Attach, InfoFits, locals
<1>6. FirstSession'
  BY DEF Attach, FirstSession, Phases, LengthChecked, SkbFits, DeliveredSizes,
         env, locals
<1> QED
  BY <1>1, <1>3, <1>4, <1>5, <1>6

\* Entering either parser keeps the invariant.
LEMMA EnterIInv ==
  ASSUME IInv, NEW n \in 1 .. Len(line), EnterData(n) \/ EnterInfo(n)
  PROVE  IInv'
<1> USE DEF IInv, Typing
<1>1. cp' \in Seq(Byte) /\ Len(cp') = n
  <2>1. Len(line) \in Nat /\ 0 + n <= Len(line) /\ n \in Nat
    BY LenProperties DEF EnvOK
  <2>2. SubSeq(line, 0 + 1, 0 + n) \in Seq(Byte) /\ Len(SubSeq(line, 0 + 1, 0 + n)) = n
    BY <2>1, TakeProperties DEF EnvOK
  <2>3. cp' = SubSeq(line, 1, n)
    BY DEF EnterData, EnterInfo, Enter
  <2> QED
    BY <2>2, <2>3, <2>1
<1>2. EnvOK' /\ delivered' = delivered /\ relinks' = relinks
  BY DEF EnterData, EnterInfo, Enter, EnvOK, env
<1>3. DevOK'
  BY EmptySeq DEF EnterData, EnterInfo, AllocOnEntry, DevOK, Statuses, dev
<1>4. n \in Nat /\ processed' = 0 /\ surplus' = n
  BY LenProperties DEF EnterData, EnterInfo, Enter, EnvOK
<1>5. CallOK'
  BY <1>1, <1>4 DEF EnterData, EnterInfo, Enter, AllocOnEntry, CallOK, DevOK, Statuses
<1>6. Bookkeeping'
  BY <1>1, <1>4 DEF Bookkeeping
<1>7. HasSkb'
  BY EmptySeq, HostRxAssumption DEF HasSkb, EnterData, EnterInfo, Enter, AllocOnEntry
<1>8. InfoFits'
  BY DEF InfoFits, EnterData, EnterInfo, dev
<1>9. ASSUME relinks' = 0
      PROVE  Phases' /\ LengthChecked' /\ SkbFits' /\ DeliveredSizes'
  <2>1. Phases /\ LengthChecked /\ SkbFits /\ DeliveredSizes
    BY <1>2, <1>9 DEF FirstSession
  <2>2. CASE EnterData(n)
    <3>1. Phases'
      BY <2>1, <2>2 DEF EnterData, Enter, Phases
    <3>2. LengthChecked'
      BY <2>1, <2>2 DEF EnterData, Enter, AllocOnEntry, LengthChecked
    <3>3. SkbFits'
      BY <2>1, <2>2, EmptySeq, Constants DEF EnterData, AllocOnEntry, SkbFits
    <3> QED
      BY <1>2, <2>1, <3>1, <3>2, <3>3 DEF DeliveredSizes
  <2>3. CASE EnterInfo(n)
    BY <1>2, <2>1, <2>3
    DEF EnterInfo, Enter, dev, Phases, LengthChecked, SkbFits, DeliveredSizes
  <2> QED
    BY <2>2, <2>3
<1> QED
  BY <1>2, <1>3, <1>5, <1>6, <1>7, <1>8, <1>9 DEF FirstSession

\* A call that faults has no further steps.
LEMMA OverrunIInv == ASSUME IInv, DataOverrun \/ InfoOverrun PROVE IInv'
<1> USE DEF IInv, Typing
<1> USE DEF DataOverrun, InfoOverrun, Overrun, InData, InInfo
<1>1. EnvOK' /\ DevOK' /\ CallOK' /\ delivered' = delivered
  BY DEF env, dev, EnvOK, DevOK, CallOK
<1>2. InfoFits' /\ Bookkeeping' /\ HasSkb'
  BY DEF env, dev, InfoFits, Bookkeeping, HasSkb
<1>3. FirstSession'
  BY DEF env, dev, FirstSession, Phases, LengthChecked, SkbFits, DeliveredSizes
<1> QED
  BY <1>1, <1>2, <1>3

\* Copying into the skb keeps the invariant: in STATUS_DATA at most
\* uartDataLen + 3 bytes, and in the first session that length was checked.
LEMMA DataCopyIInv == ASSUME IInv, DataCopy PROVE IInv'
<1> USE DEF IInv, Typing
<1> DEFINE k == Least(surplus, DataMissing)
<1>1. recv_skb \in Seq(Byte) /\ Len(recv_skb) \in Nat /\ DataMissing \in Int
  BY LenProperties DEF DataCopy, InData, HasSkb, DevOK, CallOK, Statuses, DataMissing
<1>2. k \in Nat /\ k <= surplus /\ k <= DataMissing
  BY <1>1 DEF DataCopy, CallOK, Least
<1>3. processed + k <= Len(cp)
  BY <1>2, LenProperties DEF Bookkeeping, DataCopy, InData, CallOK
<1>4. Take(k) \in Seq(Byte) /\ Len(Take(k)) = k
  BY <1>2, <1>3, TakeProperties DEF Take, CallOK
<1> HIDE DEF k
<1>5. recv_skb' = recv_skb \o Take(k) /\ Advance(k)
  BY DEF DataCopy, k
<1>6. recv_skb' \in Seq(Byte) /\ Len(recv_skb') = Len(recv_skb) + k
  BY <1>1, <1>4, <1>5, ConcatProperties
<1>7. EnvOK' /\ DevOK' /\ delivered' = delivered /\ InfoFits'
  BY <1>6 DEF DataCopy, env, EnvOK, DevOK, InfoFits
<1>8. CallOK' /\ Bookkeeping'
  BY <1>2, <1>5, LenProperties DEF DataCopy, Advance, CallOK, Bookkeeping
<1>9. HasSkb'
  BY <1>6, HostRxAssumption DEF HasSkb
<1>10. ASSUME relinks' = 0
       PROVE  Phases' /\ LengthChecked' /\ SkbFits' /\ DeliveredSizes'
  <2>1. Phases /\ LengthChecked /\ SkbFits /\ DeliveredSizes
    BY <1>10 DEF DataCopy, env, FirstSession
  <2>2. Len(recv_skb) + DataMissing <= MAX_FRAME_LEN
    <3>1. CASE st = "LEN"
      BY <1>1, <3>1, Constants DEF DataMissing
    <3>2. CASE st = "DATA"
      BY <1>1, <2>1, <3>2, Constants DEF DataCopy, InData, DataMissing, LengthChecked
    <3>3. CASE st = "SPLIT"
      BY <3>3 DEF DataCopy, DataMissing
    <3> QED
      BY <3>1, <3>2, <3>3 DEF CallOK, Statuses
  <2>3. SkbFits'
    BY <1>1, <1>2, <1>6, <2>2, Constants DEF SkbFits
  <2>4. Phases'
    BY <2>1 DEF DataCopy, InData, Phases
  <2> QED
    BY <2>1, <2>3, <2>4 DEF DataCopy, InData, LengthChecked, DeliveredSizes
<1> QED
  BY <1>7, <1>8, <1>9, <1>10 DEF FirstSession

\* Reading the length keeps the invariant: a bad one leads to STATUS_SPLIT.
LEMMA DataReadLenIInv == ASSUME IInv, DataReadLen PROVE IInv'
<1> USE DEF IInv, Typing
<1>1. recv_skb \in Seq(Byte) /\ Len(recv_skb) >= 2
  BY LenProperties DEF DataReadLen, InData, DataShort, DataMissing, HasSkb, DevOK
<1>2. FrameLen(recv_skb) \in Int
  BY <1>1, FrameLenType
<1>3. EnvOK' /\ DevOK' /\ delivered' = delivered /\ InfoFits' /\ HasSkb' /\ Bookkeeping'
  BY DEF DataReadLen, env, dev, EnvOK, DevOK, InfoFits, HasSkb, Bookkeeping
<1>4. CallOK'
  BY <1>2 DEF DataReadLen, CallOK, Statuses
<1>5. FirstSession'
  <2>1. st' = "DATA" => dlen' \in MIN_DATA_LEN .. MTU_LEN
    BY <1>2, Constants DEF DataReadLen, DataLenBad
  <2> QED
    BY <2>1 DEF DataReadLen, InData, env, dev, FirstSession, Phases, LengthChecked,
                SkbFits, DeliveredSizes
<1> QED
  BY <1>3, <1>4, <1>5

\* A wrong terminator only changes the state to STATUS_SPLIT.
LEMMA DataRejectIInv == ASSUME IInv, DataReject PROVE IInv'
<1> USE DEF IInv, Typing
<1>1. EnvOK' /\ DevOK' /\ delivered' = delivered /\ InfoFits' /\ HasSkb' /\ Bookkeeping'
  BY DEF DataReject, env, dev, EnvOK, DevOK, InfoFits, HasSkb, Bookkeeping
<1>2. CallOK'
  BY DEF DataReject, CallOK, Statuses
<1>3. FirstSession'
  BY DEF DataReject, DataComplete, InData, env, dev, FirstSession, Phases,
         LengthChecked, SkbFits, DeliveredSizes
<1> QED
  BY <1>1, <1>2, <1>3

\* What has been received of a complete frame; in the first session its length was
\* checked, so that the stripped skb->len does not wrap.
LEMMA CompleteSkb ==
  ASSUME IInv, DataComplete
  PROVE  /\ recv_skb \in Seq(Byte) /\ Len(recv_skb) \in Nat /\ dlen \in Int
         /\ dlen + 3 >= 0 /\ Len(recv_skb) >= dlen + 3
         /\ relinks = 0 => dlen \in MIN_DATA_LEN .. MTU_LEN /\ Len(recv_skb) >= 4
<1> USE DEF IInv, Typing
<1>1. recv_skb \in Seq(Byte) /\ Len(recv_skb) \in Nat /\ dlen \in Int
  BY LenProperties DEF DataComplete, InData, HasSkb, DevOK, CallOK
<1>2. dlen + 3 >= 0 /\ Len(recv_skb) >= dlen + 3
  BY <1>1 DEF DataComplete, DataShort, DataMissing
<1>3. relinks = 0 => dlen \in MIN_DATA_LEN .. MTU_LEN
  BY DEF DataComplete, InData, FirstSession, LengthChecked
<1> QED
  BY <1>1, <1>2, <1>3, Constants

\* What is delivered in the first session has a size the stack may see.
LEMMA DeliverSizes ==
  ASSUME IInv, Deliver
  PROVE  /\ delivered' \in Seq(Seq(Byte))
         /\ relinks = 0 => DeliveredSizes'
<1> USE DEF IInv, Typing
<1> DEFINE p == SubSeq(recv_skb, 3, Len(recv_skb) - 1)
<1>1. recv_skb \in Seq(Byte) /\ Len(recv_skb) \in Nat
  BY CompleteSkb DEF Deliver
<1>2. \A i \in 3 .. (Len(recv_skb) - 1) : recv_skb[i] \in Byte
  BY <1>1, ElementOfSeq
<1>3. /\ p \in Seq(Byte)
      /\ Len(p) = IF 3 <= Len(recv_skb) - 1 THEN Len(recv_skb) - 1 - 3 + 1 ELSE 0
  BY <1>1, <1>2, SubSeqProperties
<1> HIDE DEF p
<1>4. delivered' = IF Len(recv_skb) < 3 THEN delivered ELSE Append(delivered, p)
  BY DEF Deliver, p
<1>5. /\ Append(delivered, p) \in Seq(Seq(Byte))
      /\ Len(Append(delivered, p)) = Len(delivered) + 1
      /\ \A i \in 1 .. Len(delivered) : Append(delivered, p)[i] = delivered[i]
      /\ Append(delivered, p)[Len(delivered) + 1] = p
  BY <1>3, AppendProperties
<1>6. ASSUME relinks = 0 PROVE DeliveredSizes'
  <2>1. SkbFits /\ DeliveredSizes
    BY <1>6 DEF FirstSession
  <2>2. dlen \in MIN_DATA_LEN .. MTU_LEN /\ Len(recv_skb) >= dlen + 3 /\ Len(recv_skb) >= 4
    BY <1>6, CompleteSkb DEF Deliver
  <2>3. Len(recv_skb) <= MTU_LEN + 3
    BY <1>1, <2>1, Constants, HostRxAssumption DEF SkbFits
  <2>4. Len(p) \in MIN_DATA_LEN .. MTU_LEN
    BY <1>1, <1>3, <2>2, <2>3, Constants
  <2>5. Len(delivered) \in Nat
    BY LenProperties
  <2>6. delivered' = Append(delivered, p)
    BY <1>1, <1>4, <2>2
  <2>7. ASSUME NEW i \in 1 .. Len(delivered')
        PROVE  Len(delivered'[i]) \in MIN_DATA_LEN .. MTU_LEN
    <3>1. i \in 1 .. Len(delivered) \/ i = Len(delivered) + 1
      BY <1>5, <2>5, <2>6
    <3> QED
      BY <1>5, <2>1, <2>4, <2>6, <3>1 DEF DeliveredSizes
  <2> QED
    BY <2>7 DEF DeliveredSizes
<1> QED
  BY <1>4, <1>5, <1>6

\* A call that returns leaves well-typed locals and a shorter line.
LEMMA ReturnOK ==
  ASSUME IInv, NEW n \in Nat, Return(n), esp' \in {"boot", "told", "linked"}
  PROVE  /\ EnvOK' /\ CallOK' /\ Bookkeeping' /\ HasSkb'
         /\ call' = "none" /\ rlen' = 0 /\ relinks' = relinks
<1> USE DEF IInv, Typing
<1>1. line' \in Seq(Byte)
  BY DropType DEF Return, EnvOK
<1>2. EnvOK'
  BY <1>1 DEF Return, EnvOK
<1>3. CallOK'
  BY EmptySeq DEF Return, CallOK, Statuses
<1> QED
  BY <1>2, <1>3 DEF Return, Bookkeeping, HasSkb

\* The exit of ttyio_receive_data keeps the invariant.
LEMMA DataStoreIInv ==
  ASSUME IInv, NEW n \in Nat, InData, DataStore(n),
         recv_skb' = recv_skb \/ recv_skb' = <<>> \/ recv_skb' = NoSkb,
         delivered' \in Seq(Seq(Byte)), relinks = 0 => DeliveredSizes'
  PROVE  IInv'
<1> USE DEF IInv, Typing
<1>1. esp' \in {"boot", "told", "linked"} /\ Return(n)
  BY DEF DataStore, EnvOK
<1>2. /\ EnvOK' /\ CallOK' /\ Bookkeeping' /\ HasSkb'
      /\ call' = "none" /\ rlen' = 0 /\ relinks' = relinks
  BY <1>1, ReturnOK
<1>3. DevOK'
  BY EmptySeq DEF DataStore, DevOK, CallOK
<1>4. InfoFits'
  BY <1>2, Constants DEF DataStore, InfoFits
<1>5. ASSUME relinks' = 0
      PROVE  Phases' /\ LengthChecked' /\ SkbFits' /\ DeliveredSizes'
  <2>1. Phases /\ LengthChecked /\ SkbFits /\ DeliveredSizes'
    BY <1>2, <1>5 DEF FirstSession
  <2>2. Phases'
    BY <1>2, <2>1 DEF DataStore, InData, Phases
  <2>3. LengthChecked'
    BY <1>2, <2>1 DEF DataStore, InData, LengthChecked
  <2>4. SkbFits'
    BY <2>1, EmptySeq, Constants DEF SkbFits
  <2> QED
    BY <2>1, <2>2, <2>3, <2>4
<1> QED
  BY <1>2, <1>3, <1>4, <1>5 DEF FirstSession

\* The three ways out of ttyio_receive_data keep the invariant.
LEMMA DataReturnIInv ==
  ASSUME IInv, DataExit \/ DeliverNoSkb \/ SplitNowhere
  PROVE  IInv'
<1>1. processed \in Nat /\ Len(cp) \in Nat
  BY LenProperties DEF IInv, Typing, CallOK
<1>2. CASE DataExit
  <2>1. relinks = 0 => DeliveredSizes'
    BY <1>2 DEF IInv, FirstSession, DeliveredSizes, DataExit
  <2> QED
    BY <1>1, <1>2, <2>1, DataStoreIInv DEF DataExit, IInv, Typing
<1>3. CASE DeliverNoSkb
  BY <1>1, <1>3, DeliverSizes, DataStoreIInv DEF DeliverNoSkb, Deliver, DataComplete
<1>4. CASE SplitNowhere
  <2>1. relinks = 0 => DeliveredSizes'
    BY <1>4 DEF IInv, FirstSession, DeliveredSizes, SplitNowhere
  <2> QED
    BY <1>1, <1>4, <2>1, DataStoreIInv DEF SplitNowhere, IInv, Typing
<1> QED
  BY <1>2, <1>3, <1>4

\* A step inside ttyio_receive_data that empties or shortens the skb and goes
\* back to STATUS_LEN.
LEMMA BackToLenIInv ==
  ASSUME IInv, InData, UNCHANGED <<env, attached, uartDataLen, netif_info, netif_text,
           netif_info_recv_len, netif_info_vaild, call, cp, dlen, rlen>>,
         uart_recv_status' \in {uart_recv_status, "LEN"}, st' = "LEN",
         recv_skb' \in Seq(Byte), Len(recv_skb') <= Len(recv_skb) \/ recv_skb' = <<>>,
         processed' \in Nat, surplus' \in Int,
         processed' + surplus' = processed + surplus,
         delivered' \in Seq(Seq(Byte)), relinks = 0 => DeliveredSizes'
  PROVE  IInv'
<1> USE DEF IInv, Typing
<1>1. EnvOK' /\ DevOK' /\ CallOK' /\ InfoFits' /\ Bookkeeping'
  BY DEF env, EnvOK, DevOK, CallOK, InfoFits, Bookkeeping, Statuses
<1>2. HasSkb'
  BY HostRxAssumption DEF HasSkb
<1>3. ASSUME relinks' = 0
      PROVE  Phases' /\ LengthChecked' /\ SkbFits' /\ DeliveredSizes'
  <2>1. Phases /\ LengthChecked /\ SkbFits /\ DeliveredSizes'
    BY <1>3 DEF env, FirstSession
  <2>2. Phases' /\ LengthChecked'
    BY <2>1 DEF InData, Phases, LengthChecked
  <2>3. recv_skb \in Seq(Byte) /\ Len(recv_skb) \in Nat /\ Len(recv_skb') \in Nat
    BY LenProperties DEF InData, HasSkb, DevOK
  <2>4. Len(recv_skb) <= MAX_FRAME_LEN
    BY <2>1 DEF InData, HasSkb, SkbFits
  <2>5. SkbFits'
    BY <2>3, <2>4, EmptySeq, Constants DEF SkbFits
  <2> QED
    BY <2>1, <2>2, <2>5
<1> QED
  BY <1>1, <1>2, <1>3 DEF FirstSession

\* The resync steps and the delivery that allocates the next skb keep the
\* invariant.
LEMMA DataRestartIInv ==
  ASSUME IInv,
         \/ DeliverAlloc
         \/ \E i \in 1 .. Len(recv_skb) : SplitInSkb(i)
         \/ \E i \in 1 .. Len(cp) : SplitInCp(i),
         InData
  PROVE  IInv'
<1> USE DEF IInv, Typing
<1>0. /\ recv_skb \in Seq(Byte) /\ Len(recv_skb) \in Nat
      /\ processed \in Nat /\ surplus \in Int /\ Len(cp) \in Nat
  BY LenProperties DEF InData, HasSkb, DevOK, CallOK
<1>1. CASE DeliverAlloc
  <2>1. delivered' \in Seq(Seq(Byte)) /\ (relinks = 0 => DeliveredSizes')
    BY <1>1, DeliverSizes DEF DeliverAlloc
  <2> QED
    BY <1>0, <1>1, <2>1, BackToLenIInv, EmptySeq DEF DeliverAlloc
<1>2. CASE \E i \in 1 .. Len(recv_skb) : SplitInSkb(i)
  <2>1. PICK i \in 1 .. Len(recv_skb) : SplitInSkb(i)
    BY <1>2
  <2>2. recv_skb' \in Seq(Byte) /\ Len(recv_skb') <= Len(recv_skb)
    BY <1>0, <2>1, DropProperties DEF SplitInSkb
  <2>3. relinks = 0 => DeliveredSizes'
    BY <2>1 DEF SplitInSkb, FirstSession, DeliveredSizes
  <2> QED
    BY <1>0, <2>1, <2>2, <2>3, BackToLenIInv DEF SplitInSkb
<1>3. CASE \E i \in 1 .. Len(cp) : SplitInCp(i)
  <2>1. PICK i \in 1 .. Len(cp) : SplitInCp(i)
    BY <1>3
  <2>2. relinks = 0 => DeliveredSizes'
    BY <2>1 DEF SplitInCp, FirstSession, DeliveredSizes
  <2>3. /\ processed' \in Nat /\ surplus' \in Int
        /\ processed' + surplus' = processed + surplus
    BY <1>0, <2>1 DEF SplitInCp, Advance
  <2> QED
    BY <1>0, <2>1, <2>2, <2>3, BackToLenIInv, EmptySeq DEF SplitInCp
<1> QED
  BY <1>1, <1>2, <1>3

\* A step inside ttyio_netif_info changes only the array and the locals.
LEMMA InsideInfoIInv ==
  ASSUME IInv, InInfo,
         UNCHANGED <<env, attached, uart_recv_status, uartDataLen, recv_skb,
           netif_text, netif_info_recv_len, netif_info_vaild, call, cp, dlen, delivered>>,
         netif_info' \in [1 .. InfoSize -> Byte], st' \in Statuses,
         rlen' \in Nat, rlen' <= InfoSize, processed' \in Nat, surplus' \in Int,
         processed' + surplus' = processed + surplus
  PROVE  IInv'
<1> USE DEF IInv, Typing
<1>1. EnvOK' /\ DevOK' /\ CallOK' /\ InfoFits' /\ Bookkeeping' /\ HasSkb'
  BY DEF env, EnvOK, DevOK, CallOK, InfoFits, Bookkeeping, HasSkb
<1>2. FirstSession'
  BY DEF InInfo, env, FirstSession, Phases, LengthChecked, SkbFits, DeliveredSizes
<1> QED
  BY <1>1, <1>2

\* Copying into the array stays within its frame area.
LEMMA InfoCopyIInv == ASSUME IInv, InfoCopy PROVE IInv'
<1> USE DEF IInv, Typing
<1> DEFINE k == Least(surplus, InfoMissing)
<1>1. InfoMissing \in Int /\ rlen + InfoMissing <= InfoSize /\ rlen \in Nat
  <2>1. rlen \in Nat /\ rlen <= InfoSize
    BY DEF CallOK, InfoFits
  <2>2. CASE st = "LEN"
    BY <2>1, <2>2, Constants DEF InfoMissing
  <2>3. CASE st = "DATA"
    BY <2>1, <2>3, Constants DEF InfoMissing
  <2>4. CASE st = "SPLIT"
    BY <2>4 DEF InfoCopy, InfoMissing
  <2> QED
    BY <2>2, <2>3, <2>4 DEF CallOK, Statuses
<1>2. k \in Nat /\ k <= surplus /\ k <= InfoMissing
  BY <1>1 DEF InfoCopy, CallOK, Least
<1>3. processed \in Nat /\ surplus \in Int /\ processed + k <= Len(cp)
  BY <1>2, LenProperties DEF Bookkeeping, InfoCopy, InInfo, CallOK
<1>4. \A i \in (rlen + 1) .. (rlen + k) : cp[processed + i - rlen] \in Byte
  BY <1>1, <1>2, <1>3, ElementOfSeq, LenProperties DEF CallOK
<1> HIDE DEF k
<1>5. /\ netif_info' = [i \in 1 .. InfoSize |->
            IF i \in (rlen + 1) .. (rlen + k) THEN cp[processed + i - rlen]
                                              ELSE netif_info[i]]
      /\ rlen' = rlen + k /\ Advance(k) /\ st' = st
  BY DEF InfoCopy, k
<1>6. netif_info' \in [1 .. InfoSize -> Byte]
  BY <1>4, <1>5 DEF DevOK
<1>7. /\ rlen' \in Nat /\ rlen' <= InfoSize /\ processed' \in Nat /\ surplus' \in Int
      /\ processed' + surplus' = processed + surplus
  BY <1>1, <1>2, <1>3, <1>5, Constants DEF Advance
<1> QED
  BY <1>5, <1>6, <1>7, InsideInfoIInv DEF InfoCopy, CallOK

\* The part of the array that has been received, as a sequence.
LEMMA InfoHeldLen == ASSUME IInv PROVE Len(InfoHeld) = rlen
<1>1. rlen \in Nat /\ rlen <= InfoSize /\ \A i \in 1 .. rlen : netif_info[i] \in Byte
  BY Constants DEF IInv, Typing, CallOK, DevOK, InfoFits
<1>2. Len(SubSeq(netif_info, 1, rlen)) = IF 1 <= rlen THEN rlen - 1 + 1 ELSE 0
  BY <1>1, SubSeqProperties
<1> QED
  BY <1>1, <1>2 DEF InfoHeld

\* Moving the received part to the front keeps the invariant.
LEMMA InfoShiftIInv ==
  ASSUME IInv, NEW i \in 1 .. InfoSize, InfoLenRetry(i) \/ InfoSplitInArray(i)
  PROVE  IInv'
<1> USE DEF IInv, Typing
<1>1. InInfo /\ InfoShift(i - 1) /\ i \in 1 .. rlen
  BY InfoHeldLen, Constants
  DEF InfoLenRetry, InfoSplitInArray, InfoHaveLen, FirstAt, CallOK
<1>2. rlen \in Nat /\ rlen <= InfoSize
  BY DEF CallOK, InfoFits
<1>3. netif_info' \in [1 .. InfoSize -> Byte]
  BY <1>1, <1>2, Constants DEF InfoShift, DevOK
<1>4. rlen' \in Nat /\ rlen' <= InfoSize /\ st' \in Statuses
  BY <1>1, <1>2, Constants DEF InfoShift, Statuses
<1>5. processed' = processed /\ surplus' = surplus
  BY <1>1 DEF InfoShift
<1>6. UNCHANGED <<env, attached, uart_recv_status, uartDataLen, recv_skb,
        netif_text, netif_info_recv_len, netif_info_vaild, call, cp, dlen, delivered>>
  BY <1>1 DEF InfoShift
<1> QED
  BY <1>1, <1>3, <1>4, <1>5, <1>6, InsideInfoIInv DEF CallOK

\* The steps that only change the state of the parser, or skip in cp.
LEMMA InfoGotoIInv ==
  ASSUME IInv,
         \/ InfoLenOk \/ InfoLenBad \/ InfoReject
         \/ \E i \in 1 .. Len(cp) : InfoSplitInCp(i)
  PROVE  IInv'
<1> USE DEF IInv, Typing
<1>0. /\ rlen \in Nat /\ rlen <= InfoSize /\ processed \in Nat /\ surplus \in Int
      /\ Len(cp) \in Nat
  BY LenProperties DEF CallOK, InfoFits
<1>1. CASE InfoLenOk \/ InfoLenBad \/ InfoReject
  <2>1. /\ InInfo /\ st' \in Statuses
        /\ UNCHANGED <<env, dev, call, cp, processed, surplus, dlen, rlen, delivered>>
    BY <1>1 DEF InfoLenOk, InfoLenBad, InfoReject, InfoHaveLen, InfoComplete,
                InfoGoto, Statuses
  <2> QED
    BY <1>0, <2>1, InsideInfoIInv DEF dev, DevOK
<1>2. CASE \E i \in 1 .. Len(cp) : InfoSplitInCp(i)
  <2>1. PICK i \in 1 .. Len(cp) : InfoSplitInCp(i)
    BY <1>2
  <2>2. /\ processed' \in Nat /\ surplus' \in Int
        /\ processed' + surplus' = processed + surplus
    BY <1>0, <2>1 DEF InfoSplitInCp, Advance
  <2>3. rlen' \in Nat /\ rlen' <= InfoSize /\ st' \in Statuses
    BY <2>1, Constants DEF InfoSplitInCp, Statuses
  <2> QED
    BY <2>1, <2>2, <2>3, InsideInfoIInv DEF InfoSplitInCp, dev, DevOK
<1> QED
  BY <1>1, <1>2

\* The exits of ttyio_netif_info keep the invariant.
LEMMA InfoReturnIInv ==
  ASSUME IInv, InfoExit \/ InfoSplitNowhere \/ InfoAccept
  PROVE  IInv'
<1> USE DEF IInv, Typing
<1>0. /\ rlen \in Nat /\ rlen <= InfoSize /\ processed \in Nat /\ Len(cp) \in Nat
      /\ esp \in {"boot", "told", "linked"}
  BY LenProperties DEF CallOK, InfoFits, EnvOK
<1>1. CASE InfoExit \/ InfoSplitNowhere
  <2>1. PICK n \in Nat, len \in 0 .. InfoSize : InInfo /\ InfoStore(n, len)
    BY <1>0, <1>1, Constants DEF InfoExit, InfoSplitNowhere
  <2>2. esp' \in {"boot", "told", "linked"} /\ Return(n)
    BY <1>0, <2>1 DEF InfoStore
  <2>3. /\ EnvOK' /\ CallOK' /\ Bookkeeping' /\ HasSkb'
        /\ call' = "none" /\ rlen' = 0 /\ relinks' = relinks
    BY <2>2, ReturnOK
  <2>4. DevOK' /\ delivered' = delivered
    BY <2>1, Constants DEF InfoStore, DevOK, CallOK
  <2>5. InfoFits'
    BY <2>1, <2>3, Constants DEF InfoStore, InfoFits
  <2>6. FirstSession'
    BY <2>1, <2>3 DEF InfoStore, InInfo, FirstSession, Phases, LengthChecked,
                      SkbFits, DeliveredSizes
  <2> QED
    BY <2>3, <2>4, <2>5, <2>6
<1>2. CASE InfoAccept
  <2>1. esp' \in {"boot", "told", "linked"} /\ Return(processed)
    BY <1>0, <1>2 DEF InfoAccept
  <2>2. /\ EnvOK' /\ CallOK' /\ Bookkeeping' /\ HasSkb'
        /\ call' = "none" /\ rlen' = 0 /\ relinks' = relinks
    BY <1>0, <2>1, ReturnOK
  <2>3. netif_text' \in Seq(Byte)
    <3>1. INFO_LEN \in Nat /\ INFO_LEN + 3 = InfoSize
      BY FrameAssumption DEF InfoSize
    <3>2. \A i \in 3 .. (INFO_LEN + 2) : i \in 1 .. InfoSize
      BY <3>1
    <3>3. \A i \in 3 .. (INFO_LEN + 2) : netif_info[i] \in Byte
      BY <3>2 DEF DevOK
    <3>4. SubSeq(netif_info, 3, INFO_LEN + 2) \in Seq(Byte)
      BY <3>1, <3>3, SubSeqProperties
    <3> QED
      BY <1>2, <3>4 DEF InfoAccept, Payload
  <2>4. netif_info_vaild' \in BOOLEAN /\ netif_info_vaild' = TRUE
    BY <1>2, Zenon DEF InfoAccept
  <2>5. DevOK' /\ delivered' = delivered
    BY <1>2, <2>3, <2>4 DEF InfoAccept, DevOK
  <2>6. InfoFits'
    BY <1>2, <2>2, Constants DEF InfoAccept, InfoFits
  <2>7. FirstSession'
    BY <1>2, <2>2, <2>4 DEF InfoAccept, InfoComplete, InInfo, FirstSession, Phases,
                      LengthChecked, SkbFits, DeliveredSizes
  <2> QED
    BY <2>2, <2>5, <2>6, <2>7
<1> QED
  BY <1>1, <1>2

\* Every step keeps the invariant.
THEOREM NextIInv == IInv /\ [Next]_vars => IInv'
<1> SUFFICES ASSUME IInv, [Next]_vars PROVE IInv'
  OBVIOUS
<1>1. CASE UNCHANGED vars
  BY <1>1 DEF vars, env, dev, locals, IInv, Typing, EnvOK, DevOK, CallOK, InfoFits,
       Bookkeeping, HasSkb, FirstSession, Phases, LengthChecked, SkbFits, DeliveredSizes
<1>2. CASE ReceiveBuf2
  BY <1>2, EnterIInv, IdleCallIInv DEF ReceiveBuf2
<1>3. CASE DataStep
  <2>1. CASE DeliverAlloc
    BY <2>1, DataRestartIInv DEF DeliverAlloc, Deliver, DataComplete
  <2> QED
    BY <1>3, <2>1, DataCopyIInv, OverrunIInv, DataReturnIInv, DataReadLenIInv,
       DataRejectIInv, DataRestartIInv DEF DataStep
<1>4. CASE InfoStep
  BY <1>4, InfoCopyIInv, OverrunIInv, InfoReturnIInv, InfoGotoIInv, InfoShiftIInv
  DEF InfoStep
<1> QED
  BY <1>1, <1>2, <1>3, <1>4, EnvIInv, LinkResetIInv, AttachIInv DEF Next

\* In the first session no packet has been passed on with a wrapped length.
Unwrapped == wrapped \in BOOLEAN /\ (relinks = 0 => ~wrapped)

\* Only a delivery can change that, and in the first session it has an skb of at
\* least 4 bytes.
LEMMA NextUnwrapped == IInv /\ Unwrapped /\ [Next]_vars => Unwrapped'
<1> SUFFICES ASSUME IInv, Unwrapped, [Next]_vars PROVE Unwrapped'
  OBVIOUS
<1>1. ASSUME Deliver, relinks' = relinks PROVE Unwrapped'
  <2>1. wrapped' \in BOOLEAN
    BY <1>1, Zenon DEF Deliver
  <2>2. relinks = 0 => ~(Len(recv_skb) < 3)
    BY <1>1, CompleteSkb DEF Deliver
  <2>3. relinks = 0 => ~wrapped'
    BY <1>1, <2>2 DEF Deliver, Unwrapped
  <2> QED BY <1>1, <2>1, <2>3 DEF Unwrapped
<1>2. ASSUME wrapped' = wrapped, relinks' = relinks PROVE Unwrapped'
  BY <1>2 DEF Unwrapped
<1>3. ASSUME NEW k \in 0 .. Len(line), LinkReset(k) PROVE Unwrapped'
  <2>1. wrapped' = wrapped
    BY <1>3 DEF LinkReset
  <2>2. relinks' # 0
    BY <1>3 DEF LinkReset, IInv, Typing, EnvOK
  <2> QED BY <2>1, <2>2, Zenon DEF Unwrapped
<1>4. CASE UNCHANGED vars
  BY <1>2, <1>4 DEF vars, env
<1>5. CASE EspInfo \/ EspSend \/ Attach \/ (\E b \in NoiseBytes : LineNoise(b))
  BY <1>2, <1>5 DEF EspInfo, EspSend, Attach, LineNoise, env
<1>6. CASE ReceiveBuf2
  BY <1>2, <1>6 DEF ReceiveBuf2, EnterNoSkb, ReceiveUnattached, EnterData, EnterInfo, Enter, env
<1>7. CASE DataStep
  <2>1. CASE DeliverAlloc \/ DeliverNoSkb
    BY <1>1, <2>1 DEF DeliverAlloc, DeliverNoSkb, DataStore, Return, env
  <2>2. CASE DataCopy \/ DataOverrun \/ DataExit \/ DataReadLen \/ DataReject \/ SplitNowhere
    BY <1>2, <2>2 DEF DataCopy, DataOverrun, Overrun, DataExit, DataReadLen, DataReject,
                      SplitNowhere, DataStore, Return, env
  <2>3. CASE \/ \E i \in 1 .. Len(recv_skb) : SplitInSkb(i)
             \/ \E i \in 1 .. Len(cp) : SplitInCp(i)
    BY <1>2, <2>3 DEF SplitInSkb, SplitInCp, env
  <2> QED BY <1>7, <2>1, <2>2, <2>3 DEF DataStep
<1>8. CASE InfoStep
  <2>1. CASE InfoCopy \/ InfoOverrun \/ InfoExit \/ InfoAccept \/ InfoSplitNowhere
    BY <1>2, <2>1 DEF InfoCopy, InfoOverrun, Overrun, InfoExit, InfoAccept, InfoSplitNowhere,
                      InfoStore, Return, env
  <2>2. CASE InfoLenOk \/ InfoLenBad \/ InfoReject
    BY <1>2, <2>2 DEF InfoLenOk, InfoLenBad, InfoReject, InfoGoto, env
  <2>3. CASE \/ \E i \in 1 .. InfoSize : InfoLenRetry(i) \/ InfoSplitInArray(i)
             \/ \E i \in 1 .. Len(cp) : InfoSplitInCp(i)
    BY <1>2, <2>3 DEF InfoLenRetry, InfoSplitInArray, InfoShift, InfoSplitInCp, env
  <2> QED BY <1>8, <2>1, <2>2, <2>3 DEF InfoStep
<1> QED
  BY <1>3, <1>4, <1>5, <1>6, <1>7, <1>8 DEF Next

\* It holds at the start.
LEMMA InitUnwrapped == Init => Unwrapped
<1>1. Init => wrapped = FALSE
  BY DEF Init
<1> QED BY <1>1, Zenon DEF Unwrapped

\* The variables of the driver and of its calls keep their types.
THEOREM TypeCorrect == Spec => []TypeOK
<1>1. IInv /\ Unwrapped => TypeOK
  BY DEF IInv, Typing, Unwrapped, TypeOK
<1> QED
  BY <1>1, InitIInv, NextIInv, InitUnwrapped, NextUnwrapped, PTL DEF Spec


\* ttyio_netif_info never writes behind the frame area of netif_info, for every
\* byte stream and any number of link resets.
THEOREM InfoSafe == Spec => []InfoFits
<1>1. IInv => InfoFits
  BY DEF IInv
<1> QED
  BY <1>1, InitIInv, NextIInv, PTL DEF Spec

\* Until the first link reset ttyio_receive_data never writes behind the skb and
\* delivers no packet of a wrong size and none whose skb->len has wrapped, for every
\* byte stream and every MTU_LEN.
THEOREM SessionSafe == Spec => []FirstSessionSafe
<1>1. IInv /\ Unwrapped => FirstSessionSafe
  BY DEF IInv, FirstSession, FirstSessionSafe, Unwrapped
<1> QED
  BY <1>1, InitIInv, NextIInv, InitUnwrapped, NextUnwrapped, PTL DEF Spec

-----------------------------------------------------------------------------
(* The undisturbed line.  What has been received and not yet passed on,    *)
(* with the bytes still on the line behind it, is the netif_info frame     *)
(* until it is accepted, and from then on the frames of the packets still  *)
(* to be delivered; neither parser ever gets to STATUS_SPLIT.              *)

\* The packets the station forwards.
Deliverable == { d \in Seq(Byte) : Len(d) \in MIN_DATA_LEN .. MTU_LEN }

InfoFrame == Frame(NetifInfo, SPLIT_CMD)

\* The first n bytes of the array, and the line behind its first `off' bytes.
TellsInfo(n, off) ==
  /\ n + (Len(line) - off) = InfoSize
  /\ \A i \in 1 .. InfoSize :
       InfoFrame[i] = IF i <= n THEN netif_info[i] ELSE line[off + i - n]

NothingSent == sent = <<>> /\ delivered = <<>> /\ ~netif_info_vaild

\* Before the station has its address.
Waiting ==
  /\ NothingSent /\ line = <<>> /\ call = "none"
  /\ uart_recv_status = "LEN" /\ netif_info_recv_len = 0

\* Until netif_info is accepted; where no terminator is ever recognised (a signed
\* char against 0xaa) it never is, and the parser may do what it likes.
Telling ==
  /\ NothingSent /\ attached
  /\ IsSplitCmd(SPLIT_CMD) =>
       /\ call # "fault" /\ processed <= Len(cp)
       /\ call = "none" => uart_recv_status # "SPLIT" /\ TellsInfo(netif_info_recv_len, 0)
       /\ call = "info" => st # "SPLIT" /\ TellsInfo(rlen, processed)

\* The packets not yet delivered.
Rest == Drop(sent, Len(delivered))

Skb == IF recv_skb = NoSkb THEN <<>> ELSE recv_skb

\* The skb is within a frame, in state s with the length d.
InFrame(s, d) ==
  /\ s \in {"LEN", "DATA"}
  /\ s = "LEN" => Len(Skb) <= 2
  /\ s = "DATA" => Len(Skb) >= 2 /\ d = FrameLen(Skb) /\ Len(Skb) <= d + 3

\* Once it is accepted.
Passing ==
  /\ attached /\ netif_info_vaild /\ call # "fault" /\ processed <= Len(cp)
  /\ Len(delivered) <= Len(sent) /\ sent = Cat(delivered, Rest)
  /\ Cat(Skb, Drop(line, processed)) = DataBytes(Rest)
  /\ call = "none" /\ recv_skb # NoSkb => InFrame(uart_recv_status, uartDataLen)
  /\ call = "data" => InFrame(st, dlen)

\* A call works on a prefix of what is buffered.
Portion ==
  /\ call = "none" => processed = 0 /\ cp = <<>>
  /\ Starts(cp, line)

Clean ==
  Undisturbed =>
    /\ Portion /\ sent \in Seq(Deliverable)
    /\ esp = "boot" => Waiting
    /\ esp = "told" => Telling
    /\ esp = "linked" => Passing

\* What the type part of the invariant says of the variables used below.
LEMMA Typed ==
  ASSUME IInv
  PROVE  /\ line \in Seq(Byte) /\ Len(line) \in Nat /\ cp \in Seq(Byte) /\ Len(cp) \in Nat
         /\ processed \in Nat /\ surplus \in Int /\ rlen \in Nat /\ rlen <= InfoSize
         /\ netif_info_recv_len \in Nat /\ netif_info_recv_len <= InfoSize
         /\ recv_skb \in Seq(Byte) \cup {NoSkb} /\ Skb \in Seq(Byte) /\ Len(Skb) \in Nat
         /\ netif_info \in [1 .. InfoSize -> Byte] /\ InfoSize \in Nat /\ InfoSize >= 4
         /\ delivered \in Seq(Seq(Byte)) /\ Len(delivered) \in Nat
         /\ dlen \in Int /\ uartDataLen \in Int /\ st \in Statuses
         /\ uart_recv_status \in Statuses /\ esp \in {"boot", "told", "linked"}
         /\ call \in {"none", "data", "info", "fault"}
<1>1. EnvOK /\ DevOK /\ CallOK /\ delivered \in Seq(Seq(Byte)) /\ InfoFits
  BY DEF IInv, Typing
<1>2. Skb \in Seq(Byte)
  BY <1>1, EmptySeq DEF DevOK, Skb
<1> QED BY <1>1, <1>2, Constants, LenProperties DEF EnvOK, DevOK, CallOK, InfoFits

\* The netif_info frame, its length field and its terminator.
LEMMA InfoFrameIs ==
  /\ InfoFrame \in Seq(Byte) /\ Len(InfoFrame) = InfoSize
  /\ FrameLen(InfoFrame) = INFO_LEN /\ InfoFrame[InfoSize] = SPLIT_CMD
<1>1. NetifInfo \in Sendable /\ Len(NetifInfo) = INFO_LEN /\ SPLIT_CMD \in Byte
      /\ INFO_LEN \in Nat /\ INFO_LEN <= 32764
  BY FrameAssumption, HostRxAssumption DEF Sendable
<1> DEFINE n == Len(NetifInfo)
<1>2. /\ InfoFrame \in Seq(Byte) /\ Len(InfoFrame) = n + 3
      /\ InfoFrame[1] = n % 256 /\ InfoFrame[2] = n \div 256
      /\ InfoFrame[n + 3] = SPLIT_CMD
  <2>1. NetifInfo \in Sendable /\ SPLIT_CMD \in Byte
    BY <1>1
  <2> DEFINE f == Frame(NetifInfo, SPLIT_CMD)
  <2>2. /\ f \in Seq(Byte) /\ Len(f) = Len(NetifInfo) + 3
        /\ f[1] = Len(NetifInfo) % 256 /\ f[2] = Len(NetifInfo) \div 256
        /\ f[Len(NetifInfo) + 3] = SPLIT_CMD
    BY <2>1, AnyFrameBytes
  <2> QED BY <2>2, Zenon DEF InfoFrame
<1>3. n = INFO_LEN
  BY <1>1
<1> HIDE DEF n
<1>4. Int16(n % 256, n \div 256) = n
  BY <1>1, <1>3, LengthRead
<1> QED BY <1>2, <1>3, <1>4, Zenon DEF FrameLen, InfoSize

\* Clean holds at the start.
LEMMA CleanInitially == Init => Clean
<1> SUFFICES ASSUME Init PROVE Clean
  OBVIOUS
<1>1. Portion
  BY EmptySeq DEF Init, Portion, Starts
<1>2. sent \in Seq(Deliverable) /\ Waiting /\ esp = "boot"
  BY EmptySeq DEF Init, Waiting, NothingSent
<1> QED BY <1>1, <1>2 DEF Clean

-----------------------------------------------------------------------------
(* Until netif_info is accepted.                                           *)

\* The station sends netif_info: the whole frame is on the line.
LEMMA EspInfoClean == ASSUME IInv, Clean, EspInfo PROVE Clean'
<1> SUFFICES ASSUME Undisturbed' PROVE Clean'
  BY DEF Clean
<1>1. Undisturbed
  BY DEF EspInfo, Undisturbed
<1>2. Portion /\ sent \in Seq(Deliverable) /\ Waiting
  BY <1>1 DEF Clean, EspInfo
<1>3. line' = InfoFrame
  <2>1. line' = <<>> \o InfoFrame
    BY <1>2 DEF EspInfo, Push, InfoFrame, Waiting
  <2> QED BY <2>1, InfoFrameIs, ConcatEmptySeq
<1>4. cp' = <<>> /\ call' = "none" /\ processed' = 0
  BY <1>2 DEF EspInfo, locals, Portion, Waiting
<1>5. Portion'
  BY <1>3, <1>4, InfoFrameIs, Constants DEF Portion, Starts
<1>6. TellsInfo(netif_info_recv_len, 0)'
  BY <1>2, <1>3, InfoFrameIs, Constants DEF TellsInfo, Waiting, EspInfo, dev
<1>7. Telling'
  BY <1>2, <1>4, <1>6 DEF Telling, NothingSent, Waiting, EspInfo, dev
<1> QED BY <1>2, <1>5, <1>7 DEF Clean, EspInfo

\* Bringing the interface up finds an empty line and starts from nothing.
LEMMA AttachClean == ASSUME IInv, Clean, Attach PROVE Clean'
<1> SUFFICES ASSUME Undisturbed' PROVE Clean'
  BY DEF Clean
<1>1. Undisturbed
  BY DEF Attach, Undisturbed, env
<1>2. esp \in {"boot", "told", "linked"}
  BY Typed
<1>3. Portion /\ sent \in Seq(Deliverable) /\ Waiting /\ esp = "boot"
  BY <1>1, <1>2 DEF Clean, Attach, Telling, Passing
<1>4. Portion'
  BY <1>3 DEF Portion, Starts, Attach, env, locals
<1>5. Waiting' /\ esp' = "boot" /\ (sent \in Seq(Deliverable))'
  BY <1>3 DEF Waiting, NothingSent, Attach, env, locals
<1> QED BY <1>4, <1>5 DEF Clean

\* Nothing is on a clean line before the interface is up: no byte is thrown away.
LEMMA UnattachedClean ==
  ASSUME IInv, Clean, NEW n \in 1 .. Len(line), ReceiveUnattached(n)
  PROVE  Clean'
<1> SUFFICES ASSUME Undisturbed' PROVE FALSE
  BY DEF Clean
<1>1. Undisturbed
  BY DEF ReceiveUnattached, Undisturbed
<1>2. esp \in {"boot", "told", "linked"} /\ n \in 1 .. Len(line)
  BY Typed
<1>3. Waiting
  BY <1>1, <1>2 DEF Clean, ReceiveUnattached, Telling, Passing
<1> QED BY <1>2, <1>3 DEF Waiting

\* A step that changes neither the line, the histories, the fields nor a call.
LEMMA SameClean ==
  ASSUME IInv, Clean, UNCHANGED <<line, esp, noise, relinks, sent, dev, locals, delivered>>
  PROVE  Clean'
<1>1. Portion' <=> Portion
  BY DEF locals, Portion, Starts
<1>2. Waiting' <=> Waiting
  BY DEF dev, locals, Waiting, NothingSent
<1>3. Telling' <=> Telling
  BY DEF dev, locals, Telling, NothingSent, TellsInfo
<1>4. Passing' <=> Passing
  BY DEF dev, locals, Passing, Rest, Skb, InFrame
<1> QED BY <1>1, <1>2, <1>3, <1>4 DEF Clean, Undisturbed

-----------------------------------------------------------------------------
(* Once it is accepted.                                                    *)

\* A deliverable packet is one a data frame can carry.
LEMMA DeliverablesSendable ==
  ASSUME NEW r \in Seq(Deliverable)
  PROVE  r \in PacketSeq /\ r \in Seq(Seq(Byte))
<1>1. Deliverable \subseteq Sendable /\ Deliverable \subseteq Seq(Byte)
  BY Constants DEF Deliverable, Sendable
<1>2. Seq(Deliverable) \subseteq Seq(Sendable) /\ Seq(Deliverable) \subseteq Seq(Seq(Byte))
  BY <1>1
<1> QED BY <1>2 DEF PacketSeq

\* The packets not yet delivered when the history is known.
LEMMA RestIs ==
  ASSUME NEW d \in Seq(Seq(Byte)), NEW r \in Seq(Seq(Byte)), NEW s, s = Cat(d, r)
  PROVE  Len(d) <= Len(s) /\ Drop(s, Len(d)) = r
<1>1. Len(d) \in Nat /\ Len(r) \in Nat /\ Len(s) = Len(d) + Len(r)
  BY CatType, LenProperties
<1>2. Drop(s, Len(d)) = r
  BY DropFront
<1> QED BY <1>1, <1>2

\* What Clean says of a linked station.
LEMMA Linked ==
  ASSUME IInv, Clean, Undisturbed, esp = "linked"
  PROVE  /\ Passing /\ Portion /\ sent \in Seq(Deliverable)
         /\ Rest \in Seq(Deliverable) /\ Rest \in PacketSeq /\ Rest \in Seq(Seq(Byte))
         /\ processed \in 0 .. Len(line)
         /\ Drop(line, processed) \in Seq(Byte)
<1>1. Passing /\ Portion /\ sent \in Seq(Deliverable)
  BY DEF Clean
<1>2. Len(delivered) \in 0 .. Len(sent)
  BY <1>1, Typed, LenProperties DEF Passing
<1>3. Rest \in Seq(Deliverable)
  BY <1>1, <1>2, DropCut DEF Rest
<1>4. processed \in 0 .. Len(line)
  BY <1>1, Typed DEF Passing, Portion, Starts
<1>5. Drop(line, processed) \in Seq(Byte)
  BY <1>4, Typed, DropCut
<1> QED BY <1>1, <1>3, <1>4, <1>5, DeliverablesSendable

\* A packet the station forwards is one frame more behind those on the line.
LEMMA EspSendClean == ASSUME IInv, Clean, EspSend PROVE Clean'
<1> SUFFICES ASSUME Undisturbed' PROVE Clean'
  BY DEF Clean
<1> DEFINE p == Packets[Len(sent) + 1]
           F == Frame(p, SPLIT_DATA)
           D == Drop(line, processed)
<1>1. Undisturbed /\ esp = "linked" /\ esp' = "linked"
  BY DEF EspSend, Undisturbed
<1>2. /\ Passing /\ Portion /\ sent \in Seq(Deliverable)
      /\ Rest \in Seq(Deliverable) /\ Rest \in PacketSeq /\ Rest \in Seq(Seq(Byte))
      /\ processed \in 0 .. Len(line) /\ D \in Seq(Byte)
  BY <1>1, Linked
<1>3. p \in Deliverable /\ p \in Sendable /\ p \in Seq(Byte)
  <2>1. Len(sent) + 1 \in 1 .. Len(Packets)
    BY <1>2, LenProperties, HostRxAssumption DEF EspSend
  <2> QED BY <2>1, ElementOfSeq, HostRxAssumption, Constants DEF Deliverable, Sendable
<1>4. F \in Seq(Byte)
  BY <1>3, DataFrame
<1>5. /\ line' = Cat(line, F) /\ sent' = Append(sent, p)
      /\ UNCHANGED <<noise, relinks, dev, locals, delivered>>
  BY DEF EspSend, Push, Cat
<1> HIDE DEF p, F
<1>6. line' \in Seq(Byte) /\ Starts(line, line')
  BY <1>4, <1>5, Typed, CatType, StartsCat
<1>7. Portion'
  <2>1. Starts(cp, line')
    BY <1>2, <1>6, Typed, StartsTransitive DEF Portion
  <2> QED BY <1>2, <1>5, <2>1 DEF Portion, locals, Starts
<1>8. sent' \in Seq(Deliverable)
  BY <1>2, <1>3, <1>5, AppendProperties
<1> DEFINE r == Append(Rest, p)
<1>9. r \in Seq(Seq(Byte)) /\ sent' = Cat(delivered, r)
  <2>1. r \in Seq(Seq(Byte))
    BY <1>2, <1>3, AppendProperties
  <2>2. r = Cat(Rest, <<p>>) /\ <<p>> \in Seq(Seq(Byte))
    BY <1>2, <1>3, CatOne
  <2>3. sent = Cat(delivered, Rest) /\ delivered \in Seq(Seq(Byte)) /\ sent \in Seq(Seq(Byte))
    BY <1>2, Typed, DeliverablesSendable DEF Passing
  <2>4. sent' = Cat(sent, <<p>>)
    BY <1>3, <1>5, <2>3, CatOne
  <2> DEFINE o == <<p>>
  <2> HIDE DEF o
  <2>5. Cat(Cat(delivered, Rest), o) = Cat(delivered, Cat(Rest, o))
    <3>1. o \in Seq(Seq(Byte))
      BY <2>2 DEF o
    <3> QED BY <1>2, <2>3, <3>1, CatAssociative
  <2> QED BY <2>1, <2>2, <2>3, <2>4, <2>5 DEF o
<1>10. Len(delivered) <= Len(sent') /\ Drop(sent', Len(delivered)) = r
  BY <1>9, Typed, RestIs
<1>11. Rest' = r /\ Len(delivered') <= Len(sent') /\ sent' = Cat(delivered', Rest')
  BY <1>5, <1>9, <1>10 DEF Rest
<1>12. Cat(Skb, Drop(line', processed)) = DataBytes(r)
  <2>1. Drop(line', processed) = Cat(D, F)
    BY <1>2, <1>4, <1>5, Typed, DropCat
  <2>2. Cat(Skb, D) = DataBytes(Rest)
    BY <1>2 DEF Passing
  <2>3. DataBytes(r) = Cat(DataBytes(Rest), F)
    BY <1>2, <1>3, DataBytesAppend DEF F
  <2>4. Cat(Cat(Skb, D), F) = Cat(Skb, Cat(D, F))
    BY <1>2, <1>4, Typed, CatAssociative
  <2> QED BY <2>1, <2>2, <2>3, <2>4
<1> HIDE DEF r
<1>13. Passing'
  <2>1. Skb' = Skb /\ processed' = processed
    BY <1>5 DEF dev, locals, Skb
  <2>2. Cat(Skb, Drop(line, processed))' = DataBytes(Rest)'
    BY <1>11, <1>12, <2>1
  <2>3. attached' /\ netif_info_vaild' /\ call' # "fault" /\ processed' <= Len(cp')
    BY <1>2, <1>5 DEF Passing, dev, locals
  <2>4. /\ (call = "none" /\ recv_skb # NoSkb => InFrame(uart_recv_status, uartDataLen))'
        /\ (call = "data" => InFrame(st, dlen))'
    BY <1>2, <1>5, <2>1 DEF Passing, dev, locals, InFrame
  <2> QED BY <1>11, <2>2, <2>3, <2>4 DEF Passing
<1> QED BY <1>1, <1>7, <1>8, <1>13 DEF Clean

\* Once the addresses are in, the station is linked.
LEMMA ValidLinked ==
  ASSUME IInv, Clean, Undisturbed, netif_info_vaild
  PROVE  esp = "linked" /\ call # "info"
<1>1. Phases
  BY DEF IInv, FirstSession, Undisturbed
<1> QED BY <1>1, Typed DEF Clean, Waiting, Telling, NothingSent, Phases

\* What a step of ttyio_receive_data may rely on.
LEMMA DataFacts ==
  ASSUME IInv, Clean, Undisturbed, InData
  PROVE  /\ esp = "linked" /\ recv_skb \in Seq(Byte) /\ recv_skb # NoSkb /\ Skb = recv_skb
         /\ InFrame(st, dlen) /\ surplus \in Nat /\ Len(cp) = processed + surplus
         /\ Len(recv_skb) \in Nat /\ DataMissing \in Nat
<1>1. Phases /\ HasSkb /\ Bookkeeping
  BY DEF IInv, FirstSession, Undisturbed
<1>2. netif_info_vaild /\ recv_skb # NoSkb
  BY <1>1 DEF Phases, InData, HasSkb
<1>3. esp = "linked"
  BY <1>2, ValidLinked
<1>4. recv_skb \in Seq(Byte) /\ Skb = recv_skb /\ Len(recv_skb) \in Nat
  BY <1>2, Typed, LenProperties DEF Skb
<1>5. Passing
  BY <1>3, Linked
<1>6. InFrame(st, dlen)
  BY <1>5 DEF Passing, InData
<1>7. surplus \in Nat /\ Len(cp) = processed + surplus
  BY <1>1, <1>5, Typed DEF Passing, Bookkeeping, InData
<1>8. DataMissing \in Nat
  BY <1>4, <1>6, Typed DEF DataMissing, InFrame
<1> QED BY <1>2, <1>3, <1>4, <1>6, <1>7, <1>8

\* A step inside ttyio_receive_data that delivers nothing.
LEMMA InsideDataClean ==
  ASSUME IInv, Clean, Undisturbed, InData, UNCHANGED <<env, attached, netif_info_vaild>>,
         UNCHANGED <<call, cp, delivered>>,
         recv_skb' \in Seq(Byte), processed' <= Len(cp),
         Cat(recv_skb', Drop(line, processed')) = Cat(recv_skb, Drop(line, processed)),
         InFrame(st, dlen)'
  PROVE  Clean'
<1>1. esp = "linked" /\ Skb = recv_skb
  BY DataFacts
<1>2. Passing /\ Portion /\ sent \in Seq(Deliverable)
  BY <1>1, Linked
<1>3. Skb' = recv_skb'
  BY HostRxAssumption DEF Skb
<1>4. Rest' = Rest
  BY DEF Rest, env
<1>5. Cat(Skb, Drop(line, processed))' = DataBytes(Rest)'
  BY <1>1, <1>2, <1>3, <1>4 DEF Passing, env
<1>6. Passing'
  <2>1. attached' /\ netif_info_vaild' /\ call' # "fault" /\ processed' <= Len(cp')
    BY <1>2 DEF Passing
  <2>2. Len(delivered') <= Len(sent') /\ sent' = Cat(delivered', Rest')
    BY <1>2, <1>4 DEF Passing, env
  <2>3. call' # "none"
    BY DEF InData
  <2> QED BY <1>5, <2>1, <2>2, <2>3 DEF Passing
<1>7. Portion'
  BY <1>2 DEF Portion, Starts, env, InData
<1> QED BY <1>1, <1>2, <1>6, <1>7 DEF Clean, env

\* Copying moves bytes from the line to the skb.
LEMMA DataCopyClean == ASSUME IInv, Clean, DataCopy PROVE Clean'
<1> SUFFICES ASSUME Undisturbed' PROVE Clean'
  BY DEF Clean
<1> DEFINE k == Least(surplus, DataMissing)
<1>1. Undisturbed /\ InData
  BY DEF DataCopy, Undisturbed, env
<1>2. /\ esp = "linked" /\ recv_skb \in Seq(Byte) /\ Skb = recv_skb
      /\ InFrame(st, dlen) /\ surplus \in Nat /\ Len(cp) = processed + surplus
      /\ Len(recv_skb) \in Nat /\ DataMissing \in Nat
  BY <1>1, DataFacts
<1>3. k \in Nat /\ k <= surplus /\ k <= DataMissing
  BY <1>2 DEF Least
<1>4. /\ recv_skb' = Cat(recv_skb, Take(k)) /\ processed' = processed + k
      /\ st' = st /\ dlen' = dlen
  BY DEF DataCopy, Cat, Advance
<1> HIDE DEF k
<1>5. processed \in Nat /\ processed + k <= Len(cp)
  BY <1>2, <1>3, Typed
<1>6. Take(k) \in Seq(Byte) /\ Len(Take(k)) = k
  BY <1>3, <1>5, Typed, TakeProperties DEF Take
<1>7. recv_skb' \in Seq(Byte) /\ Len(recv_skb') = Len(recv_skb) + k
  BY <1>2, <1>4, <1>6, CatType
<1>8. Starts(cp, line)
  BY <1>1, <1>2, Linked DEF Portion
<1>9. /\ processed + k <= Len(line)
      /\ Cat(Take(k), Drop(line, processed + k)) = Drop(line, processed)
  <2>1. cp \in Seq(Byte) /\ line \in Seq(Byte) /\ processed \in Nat /\ k \in Nat
    BY <1>3, <1>5, Typed
  <2> QED BY <1>5, <1>8, <2>1, TakeDrop, Zenon DEF Take
<1>10. Drop(line, processed + k) \in Seq(Byte)
  <2>1. processed + k \in 0 .. Len(line)
    BY <1>3, <1>5, <1>9
  <2> QED BY <2>1, Typed, DropCut
<1>11. Cat(recv_skb', Drop(line, processed')) = Cat(recv_skb, Drop(line, processed))
  <2>1. Cat(Cat(recv_skb, Take(k)), Drop(line, processed + k))
          = Cat(recv_skb, Drop(line, processed))
    BY <1>2, <1>6, <1>9, <1>10, MoveFront
  <2> QED BY <1>4, <2>1
<1>12. InFrame(st, dlen)'
  <2>1. Skb' = recv_skb'
    BY <1>7, HostRxAssumption DEF Skb
  <2>2. CASE st = "LEN"
    BY <1>2, <1>3, <1>4, <1>7, <2>1, <2>2 DEF InFrame, DataMissing
  <2>3. CASE st = "DATA"
    <3>1. Len(recv_skb) >= 2 /\ dlen = FrameLen(recv_skb)
      BY <1>2, <2>3 DEF InFrame
    <3>2. Starts(recv_skb, recv_skb')
      BY <1>2, <1>4, <1>6, StartsCat
    <3>3. FrameLen(recv_skb') = FrameLen(recv_skb)
      <4>1. 1 \in 1 .. Len(recv_skb) /\ 2 \in 1 .. Len(recv_skb)
        BY <1>2, <3>1
      <4>2. recv_skb'[1] = recv_skb[1] /\ recv_skb'[2] = recv_skb[2]
        BY <3>2, <4>1 DEF Starts
      <4> QED BY <4>2, Zenon DEF FrameLen
    <3>4. Len(recv_skb') >= 2 /\ Len(recv_skb') <= dlen + 3
      <4>1. DataMissing = dlen + 3 - Len(recv_skb) /\ dlen \in Int
        BY <2>3, Typed DEF DataMissing
      <4> QED BY <1>2, <1>3, <1>7, <3>1, <4>1
    <3> QED BY <1>4, <2>1, <2>3, <3>1, <3>3, <3>4 DEF InFrame
  <2> QED BY <1>2, <2>2, <2>3 DEF InFrame
<1> QED
  BY <1>1, <1>4, <1>5, <1>7, <1>11, <1>12, InsideDataClean DEF DataCopy

\* The length is that of the first packet, so it is good.
LEMMA DataReadLenClean == ASSUME IInv, Clean, DataReadLen PROVE Clean'
<1> SUFFICES ASSUME Undisturbed' PROVE Clean'
  BY DEF Clean
<1>1. Undisturbed /\ InData
  BY DEF DataReadLen, Undisturbed, env
<1>2. /\ esp = "linked" /\ recv_skb \in Seq(Byte) /\ Skb = recv_skb
      /\ InFrame(st, dlen) /\ Len(recv_skb) \in Nat
  BY <1>1, DataFacts
<1>3. Len(recv_skb) = 2 /\ Len(recv_skb) >= 2
  <2>1. st = "LEN" /\ DataMissing <= 0 /\ Len(recv_skb) <= 2
    <3>1. DataMissing \in Nat
      BY <1>1, DataFacts
    <3> QED BY <1>2, <3>1 DEF DataReadLen, DataShort, InFrame
  <2> DEFINE n == Len(recv_skb)
  <2>2. 2 - n <= 0
    BY <2>1 DEF DataMissing
  <2>3. n \in Nat /\ n <= 2
    BY <1>2, <2>1
  <2> HIDE DEF n
  <2>4. n = 2 /\ n >= 2
    BY <2>2, <2>3
  <2> QED BY <2>4 DEF n
<1>4. /\ Rest \in Seq(Deliverable) /\ Rest \in PacketSeq
      /\ Drop(line, processed) \in Seq(Byte) /\ Passing
  BY <1>1, <1>2, Linked
<1>5. Cat(recv_skb, Drop(line, processed)) = DataBytes(Rest)
  BY <1>2, <1>4 DEF Passing
<1>6. Rest # <<>> /\ FrameLen(recv_skb) = Len(Head(Rest))
  BY <1>2, <1>3, <1>4, <1>5, FirstLength
<1>7. Len(Head(Rest)) \in MIN_DATA_LEN .. MTU_LEN
  <2>1. Head(Rest) \in Deliverable
    BY <1>4, <1>6, HeadTailProperties
  <2> QED BY <2>1 DEF Deliverable
<1>8. ~DataLenBad(FrameLen(recv_skb))
  BY <1>6, <1>7, Constants DEF DataLenBad
<1>9. /\ dlen' = FrameLen(recv_skb) /\ st' = "DATA" /\ recv_skb' = recv_skb
      /\ processed' = processed
  BY <1>8 DEF DataReadLen, dev
<1>10. InFrame(st, dlen)'
  <2>1. Skb' = recv_skb
    BY <1>2, <1>9, HostRxAssumption DEF Skb
  <2>2. FrameLen(recv_skb) \in Nat
    BY <1>6, <1>7, Constants
  <2>3. Len(recv_skb) <= FrameLen(recv_skb) + 3
    BY <1>3, <2>2
  <2>4. /\ Len(Skb') >= 2 /\ dlen' = FrameLen(Skb') /\ Len(Skb') <= dlen' + 3
        /\ st' = "DATA" /\ st' # "LEN"
    BY <1>3, <1>9, <2>1, <2>3
  <2> QED BY <2>4, Zenon DEF InFrame
<1>11. processed' <= Len(cp)
  BY <1>4, <1>9 DEF Passing
<1> QED
  BY <1>1, <1>2, <1>9, <1>10, <1>11, InsideDataClean DEF DataReadLen, dev

\* A complete frame is the frame of the first packet not yet delivered.
LEMMA CompleteFrame ==
  ASSUME IInv, Clean, Undisturbed, DataComplete
  PROVE  /\ Rest # <<>> /\ Head(Rest) \in Seq(Byte) /\ Tail(Rest) \in Seq(Deliverable)
         /\ EndByte = SPLIT_DATA /\ SubSeq(recv_skb, 3, Len(recv_skb) - 1) = Head(Rest)
         /\ Drop(line, processed) = DataBytes(Tail(Rest))
<1>1. InData /\ st = "DATA" /\ DataMissing <= 0
  <2>1. InData /\ st = "DATA" /\ dlen + 3 >= 0 /\ Len(recv_skb) >= dlen + 3
        /\ dlen \in Int /\ Len(recv_skb) \in Nat
    BY CompleteSkb DEF DataComplete
  <2> QED BY <2>1 DEF DataMissing
<1>2. /\ esp = "linked" /\ recv_skb \in Seq(Byte) /\ Skb = recv_skb
      /\ InFrame(st, dlen) /\ Len(recv_skb) \in Nat
  BY <1>1, DataFacts
<1>3. Len(recv_skb) >= 2 /\ dlen = FrameLen(recv_skb) /\ Len(recv_skb) = dlen + 3
  <2> DEFINE n == Len(recv_skb)
  <2>1. n \in Nat /\ n >= 2 /\ dlen = FrameLen(recv_skb) /\ n <= dlen + 3 /\ dlen \in Int
    BY <1>1, <1>2, Typed DEF InFrame
  <2>2. dlen + 3 - n <= 0
    BY <1>1 DEF DataMissing
  <2> HIDE DEF n
  <2>3. n = dlen + 3
    BY <2>1, <2>2
  <2> QED BY <2>1, <2>3 DEF n
<1>4. /\ Rest \in Seq(Deliverable) /\ Rest \in PacketSeq /\ Rest \in Seq(Seq(Byte))
      /\ Drop(line, processed) \in Seq(Byte) /\ Passing
  BY <1>1, <1>2, Linked
<1>5. Cat(recv_skb, Drop(line, processed)) = DataBytes(Rest)
  BY <1>2, <1>4 DEF Passing
<1>6. Rest # <<>> /\ FrameLen(recv_skb) = Len(Head(Rest))
  BY <1>2, <1>3, <1>4, <1>5, FirstLength
<1>7. Head(Rest) \in Seq(Byte) /\ Tail(Rest) \in Seq(Deliverable)
  BY <1>4, <1>6, HeadTailProperties
<1>8. Len(recv_skb) = Len(Head(Rest)) + 3
  BY <1>3, <1>6
<1>9. /\ Drop(line, processed) = DataBytes(Tail(Rest))
      /\ recv_skb[Len(Head(Rest)) + 3] = SPLIT_DATA
      /\ SubSeq(recv_skb, 3, Len(recv_skb) - 1) = Head(Rest)
  BY <1>2, <1>4, <1>5, <1>6, <1>8, FirstFrame
<1>10. EndByte = SPLIT_DATA
  <2>1. recv_skb[dlen + 3] = SPLIT_DATA
    BY <1>3, <1>6, <1>9
  <2>2. dlen # -3
    <3>1. dlen \in Int
      BY Typed
    <3> QED BY <1>2, <1>3, <3>1
  <2> QED BY <2>1, <2>2, Zenon DEF EndByte
<1> QED BY <1>6, <1>7, <1>9, <1>10

\* Delivering moves the first packet of the rest behind those delivered.
LEMMA DeliverHistory ==
  ASSUME IInv, Clean, Undisturbed, Deliver, sent' = sent
  PROVE  /\ Rest' = Tail(Rest) /\ Len(delivered') <= Len(sent') /\ sent' = Cat(delivered', Rest')
         /\ Drop(line, processed) = DataBytes(Rest')
<1>1. InData /\ DataComplete
  BY DEF Deliver, DataComplete
<1>2. /\ Rest # <<>> /\ Head(Rest) \in Seq(Byte) /\ Tail(Rest) \in Seq(Deliverable)
      /\ SubSeq(recv_skb, 3, Len(recv_skb) - 1) = Head(Rest)
      /\ Drop(line, processed) = DataBytes(Tail(Rest))
  BY <1>1, CompleteFrame
<1>3. Rest \in Seq(Seq(Byte)) /\ sent = Cat(delivered, Rest) /\ delivered \in Seq(Seq(Byte))
  <2>1. esp = "linked"
    BY <1>1, DataFacts
  <2> QED BY <2>1, Linked, Typed DEF Passing
<1> DEFINE h == Head(Rest)
           o == <<h>>
           t == Tail(Rest)
<1>4. delivered' = Append(delivered, h)
  <2>1. ~(Len(recv_skb) < 3)
    BY <1>1, CompleteSkb DEF Undisturbed
  <2> QED BY <1>2, <2>1 DEF Deliver
<1>5. o \in Seq(Seq(Byte)) /\ t \in Seq(Seq(Byte)) /\ Cat(o, t) = Rest
  BY <1>2, <1>3, CutHead
<1>6. delivered' = Cat(delivered, o) /\ delivered' \in Seq(Seq(Byte))
  <2>1. Append(delivered, h) = Cat(delivered, o)
    BY <1>2, <1>3, CatOne
  <2>2. Cat(delivered, o) \in Seq(Seq(Byte))
    <3> HIDE DEF o
    <3> QED BY <1>3, <1>5, CatType
  <2> QED BY <1>4, <2>1, <2>2
<1> HIDE DEF o, t
<1>7. Cat(Cat(delivered, o), t) = Cat(delivered, Rest)
  BY <1>3, <1>5, MoveFront
<1>8. sent' = Cat(delivered', t)
  BY <1>3, <1>6, <1>7
<1>9. Len(delivered') <= Len(sent') /\ Drop(sent', Len(delivered')) = t
  BY <1>5, <1>6, <1>8, RestIs
<1> QED BY <1>2, <1>8, <1>9 DEF Rest, t

\* A call of ttyio_receive_data returns at the byte it has got to.
LEMMA StoreClean ==
  ASSUME IInv, Clean, Undisturbed, InData, DataStore(processed),
         Len(delivered') <= Len(sent), sent = Cat(delivered', Rest'),
         Cat(Skb', Drop(line, processed)) = DataBytes(Rest'),
         recv_skb' # NoSkb => (Skb' = Skb)
  PROVE  Clean'
<1>1. esp = "linked" /\ InFrame(st, dlen)
  BY DataFacts
<1>2. Passing /\ Portion /\ sent \in Seq(Deliverable) /\ Drop(line, processed) \in Seq(Byte)
  BY <1>1, Linked
<1>3. /\ line' = Drop(line, processed) /\ call' = "none" /\ cp' = <<>> /\ processed' = 0
      /\ uart_recv_status' = st /\ uartDataLen' = dlen
      /\ UNCHANGED <<esp, noise, relinks, sent, attached, netif_info_vaild>>
  BY DEF DataStore, Return
<1>4. Drop(line', 0) = line'
  BY <1>2, <1>3, DropNone
<1>5. Cat(Skb, Drop(line, processed))' = DataBytes(Rest)'
  BY <1>3, <1>4
<1>6. Portion'
  BY <1>2, <1>3, EmptySeq, LenProperties DEF Portion, Starts
<1>7. Passing'
  <2>1. attached' /\ netif_info_vaild' /\ call' # "fault" /\ processed' <= Len(cp')
    BY <1>2, <1>3, EmptySeq DEF Passing
  <2>2. ASSUME recv_skb' # NoSkb PROVE InFrame(uart_recv_status, uartDataLen)'
    BY <1>1, <1>3, <2>2 DEF InFrame
  <2>3. call' # "data"
    BY <1>3
  <2> QED BY <1>3, <1>5, <2>1, <2>2, <2>3 DEF Passing
<1> QED BY <1>1, <1>2, <1>3, <1>6, <1>7 DEF Clean

\* A call that has used up its bytes, or gets no skb for the next frame, leaves the
\* rest of them on the line.
LEMMA DataReturnClean ==
  ASSUME IInv, Clean, DataExit \/ DeliverNoSkb
  PROVE  Clean'
<1> SUFFICES ASSUME Undisturbed' PROVE Clean'
  BY DEF Clean
<1>1. Undisturbed /\ InData /\ DataStore(processed) /\ sent' = sent
  BY DEF DataExit, DeliverNoSkb, Deliver, DataComplete, Undisturbed, DataStore, Return
<1>2. CASE DataExit
  <2>1. esp = "linked"
    BY <1>1, DataFacts
  <2>2. Passing
    BY <1>1, <2>1, Linked
  <2>3. Skb' = Skb /\ Rest' = Rest /\ delivered' = delivered
    BY <1>1, <1>2 DEF DataExit, Skb, Rest
  <2> QED BY <1>1, <2>2, <2>3, StoreClean DEF Passing
<1>3. CASE DeliverNoSkb
  <2>1. /\ Len(delivered') <= Len(sent') /\ sent' = Cat(delivered', Rest')
        /\ Drop(line, processed) = DataBytes(Rest')
    BY <1>1, <1>3, DeliverHistory DEF DeliverNoSkb
  <2>2. recv_skb' = NoSkb /\ Skb' = <<>>
    BY <1>3 DEF DeliverNoSkb, Skb
  <2>3. Drop(line, processed) \in Seq(Byte)
    BY Typed, DropType
  <2>4. Cat(Skb', Drop(line, processed)) = DataBytes(Rest')
    BY <2>1, <2>2, <2>3, CatEmpty
  <2> QED BY <1>1, <2>1, <2>2, <2>4, StoreClean
<1> QED BY <1>2, <1>3

\* A delivery that gets the next skb goes on with the next frame.
LEMMA DeliverAllocClean == ASSUME IInv, Clean, DeliverAlloc PROVE Clean'
<1> SUFFICES ASSUME Undisturbed' PROVE Clean'
  BY DEF Clean
<1>1. /\ Undisturbed /\ InData /\ Deliver
      /\ recv_skb' = <<>> /\ st' = "LEN" /\ UNCHANGED <<line, esp, noise, relinks, sent>>
      /\ UNCHANGED <<attached, netif_info_vaild, call, cp, processed>>
  BY DEF DeliverAlloc, Deliver, DataComplete, Undisturbed, env
<1>2. /\ Len(delivered') <= Len(sent') /\ sent' = Cat(delivered', Rest')
      /\ Drop(line, processed) = DataBytes(Rest')
  BY <1>1, DeliverHistory
<1>3. esp = "linked"
  BY <1>1, DataFacts
<1>4. Passing /\ Portion /\ sent \in Seq(Deliverable) /\ Drop(line, processed) \in Seq(Byte)
  BY <1>1, <1>3, Linked
<1>5. Skb' = <<>> /\ Len(Skb') = 0
  BY <1>1, EmptySeq DEF Skb
<1>6. Cat(Skb, Drop(line, processed))' = DataBytes(Rest)'
  BY <1>1, <1>2, <1>4, <1>5, CatEmpty
<1>7. Passing'
  <2>1. InFrame(st, dlen)'
    BY <1>1, <1>5 DEF InFrame
  <2>2. attached' /\ netif_info_vaild' /\ call' # "fault" /\ processed' <= Len(cp')
    BY <1>1, <1>4 DEF Passing
  <2>3. call' # "none"
    BY <1>1 DEF InData
  <2> QED BY <1>2, <1>6, <2>1, <2>2, <2>3 DEF Passing
<1>8. Portion'
  BY <1>1, <1>4 DEF Portion, Starts, InData
<1> QED BY <1>1, <1>3, <1>4, <1>7, <1>8 DEF Clean

\* On a clean line ttyio_receive_data never rejects, resyncs or overruns.
LEMMA NoDataResync ==
  ASSUME IInv, Clean, Undisturbed, InData
  PROVE  /\ st # "SPLIT" /\ ~DataOverrun /\ ~DataReject
<1>1. InFrame(st, dlen) /\ surplus \in Nat /\ DataMissing \in Nat
  BY DataFacts
<1>2. st # "SPLIT"
  BY <1>1 DEF InFrame
<1>3. ~DataOverrun
  BY <1>1 DEF DataOverrun, Overrun, Least
<1>4. ~DataReject
  BY CompleteFrame DEF DataReject
<1> QED BY <1>2, <1>3, <1>4

\* Every step of ttyio_receive_data keeps Clean.
LEMMA DataStepClean == ASSUME IInv, Clean, DataStep PROVE Clean'
<1>1. CASE DataCopy
  BY <1>1, DataCopyClean
<1>2. CASE DataReadLen
  BY <1>2, DataReadLenClean
<1>3. CASE DataExit \/ DeliverNoSkb
  BY <1>3, DataReturnClean
<1>4. CASE DeliverAlloc
  BY <1>4, DeliverAllocClean
<1>5. CASE \/ DataOverrun \/ DataReject \/ SplitNowhere
           \/ (InData /\ \E i \in 1 .. Len(recv_skb) : SplitInSkb(i))
           \/ (InData /\ \E i \in 1 .. Len(cp) : SplitInCp(i))
  <2> SUFFICES ASSUME Undisturbed' PROVE FALSE
    BY DEF Clean
  <2>1. Undisturbed
    BY <1>5 DEF DataOverrun, Overrun, DataReject, SplitNowhere, DataStore, Return,
                SplitInSkb, SplitInCp, env, Undisturbed
  <2>2. InData /\ (st = "SPLIT" \/ DataOverrun \/ DataReject)
    BY <1>5 DEF DataOverrun, Overrun, DataReject, DataComplete, SplitNowhere,
                SplitInSkb, SplitInCp
  <2> QED BY <2>1, <2>2, NoDataResync
<1> QED BY <1>1, <1>2, <1>3, <1>4, <1>5 DEF DataStep

\* A call is given the front of the line.
LEMMA EnterPortion ==
  ASSUME IInv, NEW n \in 1 .. Len(line), NEW f, Enter(f, n)
  PROVE  /\ Starts(cp', line) /\ line' = line /\ processed' = 0 /\ Len(cp') = n /\ n \in Nat
         /\ call = "none" /\ call' = f /\ UNCHANGED <<esp, noise, relinks, sent, delivered>>
<1>1. n \in 0 .. Len(line) /\ n \in Nat /\ line \in Seq(Byte)
  BY Typed
<1> DEFINE c == SubSeq(line, 1, n)
           d == Drop(line, n)
<1>2. c \in Seq(Byte) /\ d \in Seq(Byte) /\ Len(c) = n /\ Cat(c, d) = line
  BY <1>1, DropCut
<1> HIDE DEF c, d
<1>3. Starts(c, line)
  <2>1. Starts(c, Cat(c, d))
    BY <1>2, StartsCat
  <2> QED BY <1>2, <2>1
<1>4. /\ cp' = c /\ line' = line /\ processed' = 0 /\ call = "none" /\ call' = f
      /\ UNCHANGED <<esp, noise, relinks, sent, delivered>>
  BY DEF Enter, c, env
<1> QED BY <1>1, <1>2, <1>3, <1>4

\* A call of ttyio_receive_data takes up the frame where the last one left it.
LEMMA EnterDataClean ==
  ASSUME IInv, Clean, NEW n \in 1 .. Len(line), EnterData(n)
  PROVE  Clean'
<1> SUFFICES ASSUME Undisturbed' PROVE Clean'
  BY DEF Clean
<1>1. /\ Starts(cp', line) /\ line' = line /\ processed' = 0 /\ Len(cp') = n /\ n \in Nat
      /\ call = "none" /\ call' = "data" /\ UNCHANGED <<esp, noise, relinks, sent, delivered>>
      /\ netif_info_vaild
  BY EnterPortion DEF EnterData
<1>2. Undisturbed
  BY <1>1 DEF Undisturbed
<1>3. esp = "linked"
  BY <1>1, <1>2, ValidLinked
<1>4. Passing /\ Portion /\ sent \in Seq(Deliverable)
  BY <1>2, <1>3, Linked
<1>5. processed = 0 /\ Rest' = Rest
  BY <1>1, <1>4 DEF Portion, Rest
<1>6. Skb' = Skb
  BY DEF EnterData, AllocOnEntry, Skb
<1>7. InFrame(st, dlen)'
  <2>1. CASE recv_skb = NoSkb
    <3>1. Skb' = <<>> /\ Len(Skb') = 0 /\ st' = "LEN"
      BY <1>6, <2>1, EmptySeq DEF EnterData, AllocOnEntry, Skb
    <3> QED BY <3>1 DEF InFrame
  <2>2. CASE recv_skb # NoSkb
    <3>1. InFrame(uart_recv_status, uartDataLen)
      BY <1>1, <1>4, <2>2 DEF Passing
    <3>2. st' = uart_recv_status /\ dlen' = uartDataLen
      BY <2>2 DEF EnterData
    <3> QED BY <1>6, <3>1, <3>2 DEF InFrame
  <2> QED BY <2>1, <2>2
<1>8. Passing'
  <2>1. Cat(Skb, Drop(line, processed))' = DataBytes(Rest)'
    BY <1>1, <1>4, <1>5, <1>6 DEF Passing
  <2>2. attached' /\ netif_info_vaild'
    BY <1>4 DEF Passing, EnterData
  <2>3. call' # "fault" /\ processed' <= Len(cp') /\ call' # "none"
    BY <1>1
  <2>4. Len(delivered') <= Len(sent') /\ sent' = Cat(delivered', Rest')
    BY <1>1, <1>4, <1>5 DEF Passing
  <2> QED BY <1>7, <2>1, <2>2, <2>3, <2>4 DEF Passing
<1>9. Portion'
  BY <1>1 DEF Portion
<1> QED BY <1>1, <1>3, <1>4, <1>8, <1>9 DEF Clean

\* A call of ttyio_netif_info takes up the frame where the last one left it.
LEMMA EnterInfoClean ==
  ASSUME IInv, Clean, NEW n \in 1 .. Len(line), EnterInfo(n)
  PROVE  Clean'
<1> SUFFICES ASSUME Undisturbed' PROVE Clean'
  BY DEF Clean
<1>1. /\ Starts(cp', line) /\ line' = line /\ processed' = 0 /\ Len(cp') = n /\ n \in Nat
      /\ call = "none" /\ call' = "info" /\ UNCHANGED <<esp, noise, relinks, sent, delivered>>
      /\ ~netif_info_vaild /\ st' = uart_recv_status /\ rlen' = netif_info_recv_len
      /\ UNCHANGED <<attached, netif_info, netif_info_vaild>>
  BY EnterPortion DEF EnterInfo, dev
<1>2. Undisturbed
  BY <1>1 DEF Undisturbed
<1>3. line # <<>>
  <2>1. n \in 1 .. Len(line) /\ Len(<<>>) = 0
    BY EmptySeq
  <2> QED BY <2>1
<1>4. esp = "told"
  BY <1>1, <1>2, <1>3, Typed DEF Clean, Waiting, Passing
<1>5. Telling /\ Portion /\ sent \in Seq(Deliverable)
  BY <1>2, <1>4 DEF Clean
<1>6. ASSUME IsSplitCmd(SPLIT_CMD)
      PROVE  st' # "SPLIT" /\ TellsInfo(rlen, processed)'
  <2>1. uart_recv_status # "SPLIT" /\ TellsInfo(netif_info_recv_len, 0)
    BY <1>1, <1>5, <1>6 DEF Telling
  <2> QED BY <1>1, <2>1 DEF TellsInfo
<1>7. Telling'
  BY <1>1, <1>5, <1>6 DEF Telling, NothingSent, IsSplitCmd
<1>8. Portion'
  BY <1>1 DEF Portion
<1> QED BY <1>1, <1>4, <1>5, <1>7, <1>8 DEF Clean

\* What a step of ttyio_netif_info may rely on.
LEMMA InfoFacts ==
  ASSUME IInv, Clean, Undisturbed, InInfo
  PROVE  /\ esp = "told" /\ NothingSent /\ attached /\ Starts(cp, line)
         /\ sent \in Seq(Deliverable) /\ recv_skb = NoSkb
         /\ IsSplitCmd(SPLIT_CMD) =>
              /\ st # "SPLIT" /\ TellsInfo(rlen, processed)
              /\ surplus \in Nat /\ Len(cp) = processed + surplus
<1>1. Phases /\ Bookkeeping
  BY DEF IInv, FirstSession, Undisturbed
<1>2. ~netif_info_vaild /\ recv_skb = NoSkb
  BY <1>1 DEF Phases, InInfo
<1>3. esp = "told"
  BY <1>2, Typed DEF Clean, Waiting, Passing, InInfo
<1>4. Telling /\ Portion /\ sent \in Seq(Deliverable)
  BY <1>3 DEF Clean
<1>5. ASSUME IsSplitCmd(SPLIT_CMD)
      PROVE  /\ st # "SPLIT" /\ TellsInfo(rlen, processed)
             /\ surplus \in Nat /\ Len(cp) = processed + surplus
  <2>1. st # "SPLIT" /\ TellsInfo(rlen, processed) /\ processed <= Len(cp)
    BY <1>4, <1>5 DEF Telling, InInfo
  <2>2. processed + surplus = Len(cp)
    BY <1>1 DEF Bookkeeping, InInfo
  <2> QED BY <2>1, <2>2, Typed
<1> QED BY <1>2, <1>3, <1>4, <1>5 DEF Telling, Portion

\* The first bytes of the array are those of the frame the station sent.
LEMMA InfoReceived ==
  ASSUME IInv, NEW off, TellsInfo(rlen, off), NEW i \in 1 .. rlen
  PROVE  netif_info[i] = InfoFrame[i]
<1>1. i \in 1 .. InfoSize /\ i <= rlen
  BY Typed
<1> QED BY <1>1 DEF TellsInfo

\* With a length field in, it is INFO_LEN; with a whole frame in, it is accepted.
LEMMA NoInfoResync ==
  ASSUME IInv, Clean, Undisturbed, InInfo, IsSplitCmd(SPLIT_CMD)
  PROVE  /\ st # "SPLIT" /\ ~InfoOverrun /\ ~InfoReject /\ ~InfoLenBad
         /\ \A i \in 1 .. InfoSize : ~InfoLenRetry(i)
<1>1. st # "SPLIT" /\ TellsInfo(rlen, processed) /\ surplus \in Nat
  BY InfoFacts
<1>2. rlen \in Nat /\ rlen <= InfoSize /\ InfoSize \in Nat
  BY Typed
<1>3. InfoHaveLen => FrameLen(netif_info) = INFO_LEN
  <2> SUFFICES ASSUME InfoHaveLen PROVE FrameLen(netif_info) = INFO_LEN
    OBVIOUS
  <2>1. 2 - rlen <= 0
    BY DEF InfoHaveLen, InfoMissing
  <2>2. 1 \in 1 .. rlen /\ 2 \in 1 .. rlen
    BY <1>2, <2>1
  <2>3. netif_info[1] = InfoFrame[1] /\ netif_info[2] = InfoFrame[2]
    BY <1>1, <2>2, InfoReceived
  <2> QED BY <2>3, InfoFrameIs, Zenon DEF FrameLen
<1>4. ~InfoReject
  <2> SUFFICES ASSUME InfoReject PROVE FALSE
    OBVIOUS
  <2>1. InfoSize - rlen <= 0
    BY DEF InfoReject, InfoComplete, InfoMissing
  <2>2. InfoSize \in 1 .. rlen
    BY <1>2, <2>1, Typed
  <2>3. netif_info[InfoSize] = SPLIT_CMD
    BY <1>1, <2>2, InfoReceived, InfoFrameIs
  <2> QED BY <2>3 DEF InfoReject
<1>5. ~InfoOverrun
  <2> SUFFICES ASSUME InfoOverrun PROVE FALSE
    OBVIOUS
  <2>1. InfoMissing > 0 /\ Least(surplus, InfoMissing) < 0
    BY DEF InfoOverrun, Overrun
  <2>2. InfoMissing \in Int
    BY <1>2, Typed DEF InfoMissing, Statuses
  <2> QED BY <1>1, <2>1, <2>2 DEF Least
<1> QED BY <1>1, <1>3, <1>4, <1>5 DEF InfoLenBad, InfoLenRetry

\* A step of ttyio_netif_info that accepts nothing keeps Clean if, where a
\* terminator is ever recognised, the array and the line still hold the frame.
LEMMA InfoStays ==
  ASSUME IInv, Clean, Undisturbed, InInfo,
         UNCHANGED <<esp, noise, relinks, sent, attached, netif_info_vaild, delivered>>,
         \/ cp' = cp /\ line' = line /\ call' # "none"
         \/ cp' = <<>> /\ processed' = 0 /\ call' = "none" /\ line' \in Seq(Byte),
         IsSplitCmd(SPLIT_CMD) =>
           /\ call' # "fault" /\ processed' <= Len(cp')
           /\ call' = "none" => uart_recv_status' # "SPLIT" /\ TellsInfo(netif_info_recv_len, 0)'
           /\ call' = "info" => st' # "SPLIT" /\ TellsInfo(rlen, processed)'
  PROVE  Clean'
<1>1. /\ esp = "told" /\ NothingSent /\ attached /\ Starts(cp, line)
      /\ sent \in Seq(Deliverable)
  BY InfoFacts
<1>2. Portion'
  BY <1>1, EmptySeq, LenProperties DEF Portion, Starts
<1>3. Telling'
  BY <1>1 DEF Telling, NothingSent, IsSplitCmd
<1> QED BY <1>1, <1>2, <1>3 DEF Clean

\* Copying moves bytes from the line to the array.
LEMMA InfoCopyClean == ASSUME IInv, Clean, InfoCopy PROVE Clean'
<1> SUFFICES ASSUME Undisturbed' PROVE Clean'
  BY DEF Clean
<1>1. /\ Undisturbed /\ InInfo
      /\ UNCHANGED <<line, esp, noise, relinks, sent, attached, netif_info_vaild, delivered>>
      /\ UNCHANGED <<call, cp, st>>
  BY DEF InfoCopy, Undisturbed, env
<1>2. ASSUME IsSplitCmd(SPLIT_CMD)
      PROVE  processed' <= Len(cp) /\ st # "SPLIT" /\ TellsInfo(rlen, processed)'
  <2>1. /\ st # "SPLIT" /\ TellsInfo(rlen, processed) /\ Starts(cp, line)
        /\ surplus \in Nat /\ Len(cp) = processed + surplus
    BY <1>1, <1>2, InfoFacts
  <2>0. /\ rlen \in Nat /\ rlen <= InfoSize /\ processed \in Nat /\ InfoSize \in Nat
        /\ InfoSize >= 4 /\ Len(cp) \in Nat /\ Len(line) \in Nat /\ st \in {"LEN", "DATA"}
        /\ rlen + (Len(line) - processed) = InfoSize
    BY <2>1, Typed DEF Statuses, TellsInfo
  <2> DEFINE k == Least(surplus, InfoMissing)
  <2>2. k \in Nat /\ k <= surplus /\ rlen + k <= InfoSize
    <3>1. InfoMissing \in Int /\ rlen + InfoMissing <= InfoSize /\ InfoMissing > 0
      <4>1. InfoMissing = 2 - rlen \/ InfoMissing = InfoSize - rlen
        BY <2>0 DEF InfoMissing
      <4>2. InfoMissing > 0
        BY DEF InfoCopy
      <4> HIDE DEF InfoMissing
      <4> QED BY <2>0, <4>1, <4>2
    <3> QED BY <2>0, <2>1, <3>1 DEF Least
  <2>3. /\ netif_info' = [i \in 1 .. InfoSize |->
              IF i \in (rlen + 1) .. (rlen + k) THEN cp[processed + i - rlen]
                                                ELSE netif_info[i]]
        /\ rlen' = rlen + k /\ processed' = processed + k
    BY DEF InfoCopy, Advance
  <2> HIDE DEF k
  <2>4. rlen' + (Len(line) - processed') = InfoSize
    BY <2>0, <2>2, <2>3
  <2>5. ASSUME NEW i \in 1 .. InfoSize
        PROVE  InfoFrame[i] = IF i <= rlen' THEN netif_info'[i]
                                            ELSE line[processed' + i - rlen']
    <3>1. InfoFrame[i] = IF i <= rlen THEN netif_info[i] ELSE line[processed + i - rlen]
      BY <2>1 DEF TellsInfo
    <3>2. CASE i <= rlen
      <4>1. i <= rlen' /\ i \notin (rlen + 1) .. (rlen + k)
        BY <2>0, <2>2, <2>3, <3>2
      <4> QED BY <2>3, <3>1, <3>2, <4>1
    <3>3. CASE i > rlen /\ i <= rlen + k
      <4>1. /\ i \in (rlen + 1) .. (rlen + k) /\ i <= rlen' /\ ~(i <= rlen)
            /\ processed + i - rlen \in 1 .. Len(cp)
        BY <2>0, <2>1, <2>2, <2>3, <3>3
      <4>2. line[processed + i - rlen] = cp[processed + i - rlen]
        BY <2>1, <4>1 DEF Starts
      <4> QED BY <2>3, <3>1, <4>1, <4>2
    <3>4. CASE i > rlen + k
      <4>1. ~(i <= rlen') /\ ~(i <= rlen) /\ processed' + i - rlen' = processed + i - rlen
        BY <2>0, <2>2, <2>3, <3>4
      <4> QED BY <3>1, <4>1
    <3>5. i <= rlen \/ (i > rlen /\ i <= rlen + k) \/ i > rlen + k
      BY <2>0, <2>2
    <3> QED BY <3>2, <3>3, <3>4, <3>5
  <2>6. TellsInfo(rlen, processed)'
    BY <1>1, <2>4, <2>5 DEF TellsInfo, InfoFrame
  <2>7. processed' <= Len(cp)
    BY <2>0, <2>1, <2>2, <2>3
  <2> QED BY <2>1, <2>6, <2>7
<1>3. call' = "info" /\ call' # "none" /\ call' # "fault"
  BY <1>1 DEF InInfo
<1> QED BY <1>1, <1>2, <1>3, InfoStays

\* A call that has used up its bytes leaves the rest of the frame on the line.
LEMMA InfoExitClean == ASSUME IInv, Clean, InfoExit PROVE Clean'
<1> SUFFICES ASSUME Undisturbed' PROVE Clean'
  BY DEF Clean
<1>1. /\ InInfo /\ line' = Drop(line, processed) /\ call' = "none" /\ cp' = <<>> /\ processed' = 0
      /\ uart_recv_status' = st /\ netif_info_recv_len' = rlen
      /\ UNCHANGED <<esp, noise, relinks, sent, attached, netif_info, netif_info_vaild, delivered>>
  BY DEF InfoExit, InfoStore, Return
<1>2. Undisturbed
  BY <1>1 DEF Undisturbed
<1>3. line' \in Seq(Byte)
  BY <1>1, Typed, DropType
<1>4. ASSUME IsSplitCmd(SPLIT_CMD)
      PROVE  st # "SPLIT" /\ TellsInfo(netif_info_recv_len, 0)'
  <2>1. /\ st # "SPLIT" /\ TellsInfo(rlen, processed) /\ Starts(cp, line)
        /\ surplus \in Nat /\ Len(cp) = processed + surplus
    BY <1>1, <1>2, <1>4, InfoFacts
  <2>2. processed \in 0 .. Len(line) /\ Len(line) \in Nat /\ processed \in Nat
    BY <2>1, Typed DEF Starts
  <2>3. /\ Len(line') = Len(line) - processed
        /\ \A j \in 1 .. (Len(line) - processed) : line'[j] = line[processed + j]
    <3> DEFINE N == Len(line)
               m == processed + 1
               d == SubSeq(line, m, N)
    <3>1. \A j \in m .. N : line[j] \in Byte
      BY <2>2, Typed, ElementOfSeq
    <3>2. m \in Int /\ N \in Int
      BY <2>2
    <3>3. /\ Len(d) = IF m <= N THEN N - m + 1 ELSE 0
          /\ \A j \in 1 .. N - m + 1 : d[j] = line[m + j - 1]
      BY <3>1, <3>2, SubSeqProperties
    <3>4. d = line'
      BY <1>1 DEF Drop
    <3> HIDE DEF d
    <3>5. Len(d) = N - processed
      BY <2>2, <3>3
    <3>6. ASSUME NEW j \in 1 .. (N - processed) PROVE d[j] = line[processed + j]
      <4>1. j \in 1 .. N - m + 1 /\ m + j - 1 = processed + j
        BY <2>2
      <4> QED BY <3>3, <4>1
    <3> QED BY <3>4, <3>5, <3>6
  <2>4. rlen + (Len(line) - processed) = InfoSize /\ rlen \in Nat
    BY <2>1, Typed DEF TellsInfo
  <2>5. ASSUME NEW i \in 1 .. InfoSize
        PROVE  InfoFrame[i] = IF i <= rlen THEN netif_info[i] ELSE line'[0 + i - rlen]
    <3>1. InfoFrame[i] = IF i <= rlen THEN netif_info[i] ELSE line[processed + i - rlen]
      BY <2>1 DEF TellsInfo
    <3>2. CASE i > rlen
      <4>1. /\ i - rlen \in 1 .. (Len(line) - processed) /\ 0 + i - rlen = i - rlen
            /\ processed + (i - rlen) = processed + i - rlen /\ ~(i <= rlen)
        BY <2>2, <2>4, <3>2, Typed
      <4> DEFINE j == i - rlen
      <4>2. line'[j] = line[processed + j]
        <5> HIDE DEF j
        <5>1. j \in 1 .. (Len(line) - processed)
          BY <4>1 DEF j
        <5> QED BY <2>3, <5>1
      <4>3. line'[0 + i - rlen] = line[processed + i - rlen]
        BY <4>1, <4>2
      <4> QED BY <3>1, <4>1, <4>3
    <3>3. i <= rlen \/ i > rlen
      BY <2>4
    <3> QED BY <3>1, <3>2, <3>3
  <2>6. rlen + (Len(line') - 0) = InfoSize
    BY <2>2, <2>3, <2>4
  <2> QED BY <1>1, <2>1, <2>5, <2>6 DEF TellsInfo, InfoFrame
<1>5. processed' <= Len(cp') /\ call' # "fault" /\ call' # "info"
  BY <1>1, EmptySeq
<1> QED BY <1>1, <1>2, <1>3, <1>4, <1>5, InfoStays

\* The length field is right: nothing moves.
LEMMA InfoLenOkClean == ASSUME IInv, Clean, InfoLenOk PROVE Clean'
<1> SUFFICES ASSUME Undisturbed' PROVE Clean'
  BY DEF Clean
<1>1. /\ InInfo /\ st' = "DATA"
      /\ UNCHANGED <<line, esp, noise, relinks, sent, attached, netif_info, netif_info_vaild>>
      /\ UNCHANGED <<call, cp, processed, rlen, delivered>>
  BY DEF InfoLenOk, InfoHaveLen, InfoGoto, env, dev
<1>2. Undisturbed
  BY <1>1 DEF Undisturbed
<1>3. ASSUME IsSplitCmd(SPLIT_CMD)
      PROVE  processed' <= Len(cp') /\ TellsInfo(rlen, processed)'
  <2>1. TellsInfo(rlen, processed) /\ surplus \in Nat /\ Len(cp) = processed + surplus
    BY <1>1, <1>2, <1>3, InfoFacts
  <2>2. processed' <= Len(cp')
    BY <1>1, <2>1, Typed
  <2> QED BY <1>1, <2>1, <2>2 DEF TellsInfo
<1>4. call' = "info" /\ call' # "none" /\ call' # "fault" /\ st' # "SPLIT"
  BY <1>1 DEF InInfo
<1> QED BY <1>1, <1>2, <1>3, <1>4, InfoStays

\* The other steps of ttyio_netif_info are those of the resync, which a clean
\* line does not reach if a terminator is ever recognised.
LEMMA InfoResyncClean ==
  ASSUME IInv, Clean,
         \/ InfoOverrun \/ InfoLenBad \/ InfoReject \/ InfoSplitNowhere
         \/ \E i \in 1 .. InfoSize : InfoLenRetry(i) \/ InfoSplitInArray(i)
         \/ \E i \in 1 .. Len(cp) : InfoSplitInCp(i)
  PROVE  Clean'
<1> SUFFICES ASSUME Undisturbed' PROVE Clean'
  BY DEF Clean
<1>1. /\ InInfo
      /\ UNCHANGED <<esp, noise, relinks, sent, attached, netif_info_vaild, delivered>>
      /\ \/ cp' = cp /\ line' = line /\ call' # "none"
         \/ cp' = <<>> /\ processed' = 0 /\ call' = "none" /\ line' = Drop(line, Len(cp))
  <2>1. CASE InfoOverrun
    BY <2>1 DEF InfoOverrun, Overrun, env, dev
  <2>2. CASE InfoLenBad \/ InfoReject
    BY <2>2 DEF InfoLenBad, InfoReject, InfoHaveLen, InfoComplete, InfoGoto, InInfo, env, dev
  <2>3. CASE InfoSplitNowhere
    BY <2>3 DEF InfoSplitNowhere, InfoStore, Return
  <2>4. CASE \E i \in 1 .. InfoSize : InfoLenRetry(i) \/ InfoSplitInArray(i)
    BY <2>4 DEF InfoLenRetry, InfoSplitInArray, InfoHaveLen, InfoShift, InInfo, env
  <2>5. CASE \E i \in 1 .. Len(cp) : InfoSplitInCp(i)
    BY <2>5 DEF InfoSplitInCp, InInfo, env, dev
  <2> QED BY <2>1, <2>2, <2>3, <2>4, <2>5
<1>2. Undisturbed
  BY <1>1 DEF Undisturbed
<1>3. Drop(line, Len(cp)) \in Seq(Byte)
  BY Typed, DropType
<1>4. ~IsSplitCmd(SPLIT_CMD)
  <2> SUFFICES ASSUME IsSplitCmd(SPLIT_CMD) PROVE FALSE
    OBVIOUS
  <2>1. /\ st # "SPLIT" /\ ~InfoOverrun /\ ~InfoReject /\ ~InfoLenBad
        /\ \A i \in 1 .. InfoSize : ~InfoLenRetry(i)
    BY <1>1, <1>2, NoInfoResync
  <2> QED BY <2>1 DEF InfoSplitNowhere, InfoSplitInArray, InfoSplitInCp
<1> QED BY <1>1, <1>2, <1>3, <1>4, InfoStays

\* The accepted frame is the station's, nothing is left of it on the line, and
\* the echo links the station.
LEMMA InfoAcceptClean == ASSUME IInv, Clean, InfoAccept PROVE Clean'
<1> SUFFICES ASSUME Undisturbed' PROVE Clean'
  BY DEF Clean
<1>1. /\ InInfo /\ st = "DATA" /\ InfoMissing <= 0 /\ IsSplitCmd(netif_info[InfoSize])
      /\ line' = Drop(line, processed) /\ call' = "none" /\ cp' = <<>> /\ processed' = 0
      /\ netif_info_vaild' = TRUE
      /\ UNCHANGED <<noise, relinks, sent, attached, recv_skb, delivered>>
  BY DEF InfoAccept, InfoComplete, Return
<1>2. Undisturbed
  BY <1>1 DEF Undisturbed
<1>3. IsSplitCmd(SPLIT_CMD)
  BY <1>1 DEF IsSplitCmd
<1>4. /\ esp = "told" /\ NothingSent /\ attached /\ sent \in Seq(Deliverable)
      /\ recv_skb = NoSkb /\ TellsInfo(rlen, processed)
  BY <1>1, <1>2, <1>3, InfoFacts
<1>5. rlen = InfoSize /\ Len(line) = processed
  <2>1. InfoSize - rlen <= 0
    BY <1>1 DEF InfoMissing
  <2>2. /\ rlen \in Nat /\ rlen <= InfoSize /\ InfoSize \in Nat /\ Len(line) \in Nat
        /\ processed \in Nat /\ rlen + (Len(line) - processed) = InfoSize
    BY <1>4, Typed DEF TellsInfo
  <2> QED BY <2>1, <2>2
<1>6. netif_info = InfoFrame
  <2>1. \A i \in 1 .. InfoSize : netif_info[i] = InfoFrame[i]
    BY <1>4, <1>5, InfoReceived
  <2>2. netif_info \in [1 .. InfoSize -> Byte] /\ InfoFrame \in [1 .. InfoSize -> Byte]
    BY Typed, InfoFrameIs, LenProperties
  <2> DEFINE D == 1 .. InfoSize
  <2> HIDE DEF D
  <2>3. /\ netif_info \in [D -> Byte] /\ InfoFrame \in [D -> Byte]
        /\ \A i \in D : netif_info[i] = InfoFrame[i]
    BY <2>1, <2>2 DEF D
  <2>4. netif_info = [i \in D |-> netif_info[i]] /\ InfoFrame = [i \in D |-> InfoFrame[i]]
    BY <2>3
  <2>5. [i \in D |-> netif_info[i]] = [i \in D |-> InfoFrame[i]]
    BY <2>3
  <2> QED BY <2>4, <2>5, Zenon
<1>7. esp' = "linked"
  BY <1>4, <1>6 DEF InfoAccept, InfoFrame
<1>8. line' = <<>>
  <2>1. Len(line) \in 0 .. Len(line)
    BY Typed
  <2>2. Drop(line, Len(line)) \in Seq(Byte) /\ Len(Drop(line, Len(line))) = Len(line) - Len(line)
    BY <2>1, Typed, DropCut
  <2>3. Len(line) \in Nat /\ line' = Drop(line, Len(line))
    BY <1>1, <1>5, Typed
  <2>4. line' \in Seq(Byte) /\ Len(line') = 0
    BY <2>2, <2>3
  <2> QED BY <2>4, EmptySeq
<1>9. Portion'
  BY <1>1, <1>8, EmptySeq DEF Portion, Starts
<1>10. Passing'
  <2> DEFINE e == <<>>
  <2>1. e \in Seq(Byte) /\ e \in Seq(Seq(Byte)) /\ Len(e) = 0
    BY EmptySeq
  <2>2. sent' = e /\ delivered' = e /\ Skb' = e /\ line' = e /\ processed' = 0
    BY <1>1, <1>4, <1>8 DEF NothingSent, Skb
  <2>3. Drop(e, 0) = e
    BY <2>1, DropNone
  <2>4. Cat(e, e) = e
    BY <2>1, CatEmpty
  <2>5. DataBytes(e) = e
    BY DataBytesEmpty
  <2> HIDE DEF e
  <2>6. Rest' = e
    BY <2>1, <2>2, <2>3 DEF Rest
  <2>7. /\ Cat(Skb, Drop(line, processed))' = DataBytes(Rest)'
        /\ Len(delivered') <= Len(sent') /\ sent' = Cat(delivered', Rest')
    BY <2>1, <2>2, <2>3, <2>4, <2>5, <2>6
  <2>8. attached' /\ netif_info_vaild' /\ call' # "fault" /\ processed' <= Len(cp')
    BY <1>1, <1>4, EmptySeq
  <2>9. recv_skb' = NoSkb /\ call' # "data"
    BY <1>1, <1>4
  <2> QED BY <2>7, <2>8, <2>9 DEF Passing
<1> QED BY <1>1, <1>4, <1>7, <1>9, <1>10 DEF Clean

\* Every step of ttyio_netif_info keeps Clean.
LEMMA InfoStepClean == ASSUME IInv, Clean, InfoStep PROVE Clean'
BY InfoCopyClean, InfoExitClean, InfoLenOkClean, InfoResyncClean, InfoAcceptClean
DEF InfoStep

\* Noise and a reset end the undisturbed part of a behaviour.
LEMMA DisturbedClean ==
  ASSUME IInv, (\E b \in NoiseBytes : LineNoise(b)) \/ (\E k \in 0 .. Len(line) : LinkReset(k))
  PROVE  Clean'
<1>1. noise \in Nat /\ relinks \in Nat
  BY Constants DEF IInv, Typing, EnvOK
<1>2. noise' = noise + 1 \/ relinks' = relinks + 1
  BY DEF LineNoise, LinkReset
<1>3. ~Undisturbed'
  BY <1>1, <1>2 DEF LineNoise, LinkReset, Undisturbed
<1> QED BY <1>3 DEF Clean

\* Every step keeps Clean.
LEMMA NextClean == IInv /\ Clean /\ [Next]_vars => Clean'
<1> SUFFICES ASSUME IInv, Clean, [Next]_vars PROVE Clean'
  OBVIOUS
<1>1. CASE UNCHANGED vars
  BY <1>1, SameClean DEF vars, env
<1>2. CASE ReceiveBuf2
  <2>1. CASE EnterNoSkb
    BY <2>1, SameClean DEF EnterNoSkb
  <2> QED BY <1>2, <2>1, UnattachedClean, EnterDataClean, EnterInfoClean DEF ReceiveBuf2
<1> QED
  BY <1>1, <1>2, EspInfoClean, EspSendClean, AttachClean, DisturbedClean, DataStepClean,
     InfoStepClean DEF Next

\* As long as neither noise nor a link reset disturbs the stream, what has been
\* passed to the stack is exactly the packets the station forwarded first, in
\* order, for every frame limit, every packet sequence, every way the tty cuts the
\* bytes into calls and every allocation that fails.
THEOREM InOrder == Spec => []DeliveredInOrder
<1>1. IInv /\ Clean => DeliveredInOrder
  <2> SUFFICES ASSUME IInv, Clean, Undisturbed
               PROVE  Len(delivered) <= Len(sent) /\ delivered = SubSeq(sent, 1, Len(delivered))
    BY DEF DeliveredInOrder
  <2>1. delivered \in Seq(Seq(Byte)) /\ Len(delivered) \in Nat
        /\ esp \in {"boot", "told", "linked"}
    BY Typed
  <2>2. CASE esp = "linked"
    <3>1. /\ Rest \in Seq(Seq(Byte)) /\ sent \in Seq(Seq(Byte))
          /\ Len(delivered) <= Len(sent) /\ sent = Cat(delivered, Rest)
      BY <2>2, Linked, DeliverablesSendable DEF Passing
    <3> DEFINE n == Len(delivered)
               f == SubSeq(sent, 1, n)
               g == Drop(sent, n)
    <3>2. n \in 0 .. Len(sent)
      BY <2>1, <3>1, LenProperties
    <3>3. f \in Seq(Seq(Byte)) /\ g \in Seq(Seq(Byte)) /\ Len(f) = n /\ Cat(f, g) = sent
      BY <3>1, <3>2, DropCut
    <3> HIDE DEF f, g
    <3>4. delivered = f
      BY <2>1, <3>1, <3>3, CatCancel
    <3> QED BY <3>1, <3>4 DEF f
  <2>3. CASE esp # "linked"
    <3>1. sent = <<>> /\ delivered = <<>>
      BY <2>1, <2>3 DEF Clean, Waiting, Telling, NothingSent
    <3> QED BY <3>1, EmptySeq, SubSeqFull
  <2> QED BY <2>2, <2>3
<1> QED
  BY <1>1, InitIInv, NextIInv, CleanInitially, NextClean, PTL DEF Spec

-----------------------------------------------------------------------------
(* Subsequences: Embeds says that the elements of s have places in t, and  *)
(* the search of IsSubsequence finds them.                                 *)

\* f places the elements of s among those of t, in their order.
Places(s, t, f) ==
  /\ f \in [1 .. Len(s) -> 1 .. Len(t)]
  /\ \A i, j \in 1 .. Len(s) : i < j => f[i] < f[j]
  /\ \A i \in 1 .. Len(s) : t[f[i]] = s[i]

Embeds(s, t) == \E f : Places(s, t, f)

\* Nothing is part of anything.
LEMMA EmptyEmbeds == ASSUME NEW t \in Seq(Byte) PROVE Embeds(<<>>, t)
<1>1. Len(<<>>) = 0 /\ 1 .. 0 = {}
  OBVIOUS
<1>2. Places(<<>>, t, [i \in 1 .. 0 |-> 1])
  BY <1>1 DEF Places
<1> QED BY <1>2 DEF Embeds

\* The elements of a concatenation,
LEMMA TwoParts ==
  ASSUME NEW a \in Seq(Byte), NEW c \in Seq(Byte)
  PROVE  /\ Cat(a, c) \in Seq(Byte) /\ Len(Cat(a, c)) = Len(a) + Len(c)
         /\ \A i \in 1 .. Len(a) : Cat(a, c)[i] = a[i]
         /\ \A i \in 1 .. Len(c) : Cat(a, c)[Len(a) + i] = c[i]
<1>1. Cat(a, c) \in Seq(Byte) /\ Len(Cat(a, c)) = Len(a) + Len(c)
  BY CatType
<1>2. Starts(a, Cat(a, c)) /\ \A i \in 1 .. Len(c) : Cat(a, c)[Len(a) + i] = c[i]
  BY StartsCat
<1> QED BY <1>1, <1>2 DEF Starts

\* and of one of three parts.
LEMMA ThreeParts ==
  ASSUME NEW a \in Seq(Byte), NEW b \in Seq(Byte), NEW c \in Seq(Byte)
  PROVE  LET s == Cat(a, Cat(b, c))
         IN  /\ Len(s) = Len(a) + Len(b) + Len(c)
             /\ \A i \in 1 .. Len(a) : s[i] = a[i]
             /\ \A i \in 1 .. Len(c) : s[Len(a) + Len(b) + i] = c[i]
<1> DEFINE d == Cat(b, c)
           s == Cat(a, d)
<1>1. d \in Seq(Byte) /\ Len(d) = Len(b) + Len(c)
  BY TwoParts
<1>2. \A i \in 1 .. Len(c) : d[Len(b) + i] = c[i]
  BY TwoParts
<1> HIDE DEF d
<1>3. /\ Len(s) = Len(a) + Len(d) /\ \A i \in 1 .. Len(a) : s[i] = a[i]
      /\ \A i \in 1 .. Len(d) : s[Len(a) + i] = d[i]
  BY <1>1, TwoParts
<1> HIDE DEF s
<1>4. Len(a) \in Nat /\ Len(b) \in Nat /\ Len(c) \in Nat
  BY LenProperties
<1>5. ASSUME NEW i \in 1 .. Len(c) PROVE s[Len(a) + Len(b) + i] = c[i]
  <2>1. Len(b) + i \in 1 .. Len(d) /\ Len(a) + (Len(b) + i) = Len(a) + Len(b) + i
    BY <1>1, <1>4
  <2>2. s[Len(a) + (Len(b) + i)] = d[Len(b) + i]
    BY <1>3, <2>1
  <2> QED BY <1>2, <2>1, <2>2
<1>6. Len(s) = Len(a) + Len(b) + Len(c)
  BY <1>1, <1>3, <1>4
<1> QED BY <1>3, <1>5, <1>6 DEF s, d

\* Taking out a middle part keeps the rest in place.
LEMMA EmbedsWithout ==
  ASSUME NEW a \in Seq(Byte), NEW b \in Seq(Byte), NEW c \in Seq(Byte), NEW t \in Seq(Byte),
         Embeds(Cat(a, Cat(b, c)), t)
  PROVE  Embeds(Cat(a, c), t)
<1> DEFINE s == Cat(a, Cat(b, c))
           r == Cat(a, c)
           A == Len(a)
           B == Len(b)
           C == Len(c)
<1>1. A \in Nat /\ B \in Nat /\ C \in Nat
  BY LenProperties
<1>2. /\ Len(s) = A + B + C /\ \A i \in 1 .. A : s[i] = a[i]
      /\ \A i \in 1 .. C : s[A + B + i] = c[i]
  BY ThreeParts
<1>3. /\ Len(r) = A + C /\ \A i \in 1 .. A : r[i] = a[i]
      /\ \A i \in 1 .. C : r[A + i] = c[i]
  BY TwoParts
<1>4. PICK f : Places(s, t, f)
  BY DEF Embeds
<1> DEFINE L == Len(s)
           M == Len(t)
           R == Len(r)
<1>5. /\ f \in [1 .. L -> 1 .. M] /\ \A i \in 1 .. L : t[f[i]] = s[i]
      /\ \A i, j \in 1 .. L : i < j => f[i] < f[j]
  BY <1>4 DEF Places
<1>6. L = A + B + C /\ R = A + C
  BY <1>2, <1>3
<1> HIDE DEF s, r, A, B, C, L, M, R
<1> DEFINE p(i) == IF i <= A THEN i ELSE i + B
           g == [i \in 1 .. R |-> f[p(i)]]
<1>7. \A i \in 1 .. R : p(i) \in 1 .. L
  BY <1>1, <1>6
<1>8. \A i, j \in 1 .. R : i < j => p(i) < p(j)
  BY <1>1, <1>6
<1>9. ASSUME NEW i \in 1 .. R PROVE r[i] = s[p(i)]
  <2>1. CASE i <= A
    BY <1>1, <1>2, <1>3, <1>6, <2>1
  <2>2. CASE i > A
    <3>1. i - A \in 1 .. C /\ A + (i - A) = i /\ A + B + (i - A) = i + B /\ p(i) = i + B
      BY <1>1, <1>6, <2>2
    <3>2. r[A + (i - A)] = c[i - A] /\ s[A + B + (i - A)] = c[i - A]
      BY <1>2, <1>3, <3>1
    <3> QED BY <3>1, <3>2
  <2> QED BY <1>1, <1>6, <2>1, <2>2
<1> HIDE DEF p
<1>10. g \in [1 .. R -> 1 .. M]
  BY <1>5, <1>7
<1>11. \A i \in 1 .. R : g[i] = f[p(i)]
  OBVIOUS
<1> HIDE DEF g
<1>12. \A i, j \in 1 .. R : i < j => g[i] < g[j]
  BY <1>5, <1>7, <1>8, <1>11
<1>13. \A i \in 1 .. R : t[g[i]] = r[i]
  BY <1>5, <1>7, <1>9, <1>11
<1>14. Places(r, t, g)
  BY <1>10, <1>12, <1>13 DEF Places, R, M
<1> QED BY <1>14 DEF Embeds, r

\* What is appended to both stays in place.
LEMMA EmbedsBoth ==
  ASSUME NEW s \in Seq(Byte), NEW t \in Seq(Byte), NEW b \in Seq(Byte), Embeds(s, t)
  PROVE  Embeds(Cat(s, b), Cat(t, b))
<1> DEFINE u == Cat(s, b)
           v == Cat(t, b)
           A == Len(s)
           M == Len(t)
           B == Len(b)
<1>1. A \in Nat /\ B \in Nat /\ M \in Nat
  BY LenProperties
<1>2. /\ Len(u) = A + B /\ \A i \in 1 .. A : u[i] = s[i]
      /\ \A i \in 1 .. B : u[A + i] = b[i]
  BY TwoParts
<1>3. /\ Len(v) = M + B /\ \A i \in 1 .. M : v[i] = t[i]
      /\ \A i \in 1 .. B : v[M + i] = b[i]
  BY TwoParts
<1>4. PICK f : Places(s, t, f)
  BY DEF Embeds
<1>5. /\ f \in [1 .. A -> 1 .. M] /\ \A i \in 1 .. A : t[f[i]] = s[i]
      /\ \A i, j \in 1 .. A : i < j => f[i] < f[j]
  BY <1>4 DEF Places
<1> DEFINE L == Len(u)
           N == Len(v)
<1>6. L = A + B /\ N = M + B
  BY <1>2, <1>3
<1> HIDE DEF u, v, A, M, B, L, N
<1> DEFINE g == [i \in 1 .. L |-> IF i <= A THEN f[i] ELSE M + (i - A)]
<1>7. \A i \in 1 .. A : g[i] = f[i] /\ f[i] \in 1 .. M
  BY <1>1, <1>5, <1>6
<1>8. \A i \in 1 .. L : i > A => g[i] = M + (i - A) /\ i - A \in 1 .. B /\ A + (i - A) = i
  BY <1>1, <1>6
<1>9. g \in [1 .. L -> 1 .. N]
  <2>1. ASSUME NEW i \in 1 .. L PROVE g[i] \in 1 .. N
    <3>1. CASE i <= A
      <4>0. i \in 1 .. A
        BY <1>1, <1>6, <3>1
      <4>1. g[i] \in 1 .. M
        BY <1>7, <4>0
      <4> QED BY <1>1, <1>6, <4>1
    <3>2. CASE i > A
      <4>1. g[i] = M + (i - A) /\ i - A \in 1 .. B
        BY <1>8, <3>2
      <4> QED BY <1>1, <1>6, <4>1
    <3> QED BY <1>1, <3>1, <3>2
  <2> QED BY <2>1
<1> HIDE DEF g
<1>10. ASSUME NEW i \in 1 .. L, NEW j \in 1 .. L, i < j PROVE g[i] < g[j]
  <2>1. CASE j <= A
    BY <1>1, <1>5, <1>7, <1>10, <2>1
  <2>2. CASE i <= A /\ j > A
    <3>1. g[i] \in 1 .. M /\ g[j] = M + (j - A)
      BY <1>1, <1>7, <1>8, <2>2
    <3> QED BY <1>1, <2>2, <3>1
  <2>3. CASE i > A /\ j > A
    <3>1. g[i] = M + (i - A) /\ g[j] = M + (j - A)
      BY <1>8, <2>3
    <3> QED BY <1>1, <1>10, <3>1
  <2> QED BY <1>1, <1>10, <2>1, <2>2, <2>3
<1>11. ASSUME NEW i \in 1 .. L PROVE v[g[i]] = u[i]
  <2>1. CASE i <= A
    <3>1. i \in 1 .. A
      BY <1>1, <2>1
    <3> QED BY <1>2, <1>3, <1>5, <1>7, <3>1
  <2>2. CASE i > A
    BY <1>2, <1>3, <1>8, <2>2
  <2> QED BY <1>1, <2>1, <2>2
<1>12. Places(u, v, g)
  BY <1>9, <1>10, <1>11 DEF Places, L, N
<1> QED BY <1>12 DEF Embeds, u, v

\* found[n] is how much of s the search has matched with the first n of t.
Searches(s, t, found) ==
  /\ found \in [0 .. Len(t) -> Nat]
  /\ found[0] = 0
  /\ \A n \in 1 .. Len(t) :
       found[n] = IF found[n - 1] < Len(s) /\ s[found[n - 1] + 1] = t[n]
                    THEN found[n - 1] + 1 ELSE found[n - 1]

\* The recursion in IsSubsequence has a solution, and its last value decides.
LEMMA SearchExists ==
  ASSUME NEW s \in Seq(Byte), NEW t \in Seq(Byte)
  PROVE  \E f : Searches(s, t, f) /\ (IsSubsequence(s, t) <=> f[Len(t)] = Len(s))
<1> DEFINE N == Len(t)
           e == 0
           B == Nat
           K(v, n) == IF v < Len(s) /\ s[v + 1] = t[n] THEN v + 1 ELSE v
           h == [n \in 1 .. N |-> [v \in B |-> K(v, n)]]
           Rec(f) == f = [n \in 0 .. N |-> IF n = 0 THEN e ELSE K(f[n - 1], n)]
           c == CHOOSE f : Rec(f)
<1>1. N \in Nat /\ e \in B
  BY LenProperties
<1>2. \A n \in 1 .. N : \A v \in B : K(v, n) \in B
  OBVIOUS
<1>3. IsSubsequence(s, t) <=> c[N] = Len(s)
  BY DEF IsSubsequence
<1>4. c \in [0 .. N -> B] /\ c[0] = e /\ \A n \in 1 .. N : c[n] = K(c[n - 1], n)
  <2> HIDE DEF N, e, B, K
  <2>1. h \in [1 .. N -> [B -> B]]
    BY <1>2
  <2>2. PICK g \in [0 .. N -> B] :
          g = [n \in 0 .. N |-> IF n = 0 THEN e ELSE h[n][g[n - 1]]]
    <3> HIDE DEF h
    <3>1. \E g : Recurs(B, e, N, h, g)
      BY <1>1, <2>1, RecursionExists
    <3> QED BY <3>1 DEF Recurs
  <2>3. \A n \in 1 .. N : g[n - 1] \in B /\ h[n][g[n - 1]] = K(g[n - 1], n)
    BY <1>1
  <2>4. Rec(g)
    <3> HIDE DEF h
    <3> QED BY <1>1, <2>2, <2>3
  <2>5. Rec(c)
    BY <2>4
  <2> HIDE DEF c
  <2>6. /\ DOMAIN c = 0 .. N /\ c = [n \in 0 .. N |-> c[n]]
        /\ c[0] = e /\ \A n \in 1 .. N : c[n] = K(c[n - 1], n)
    <3>1. DOMAIN c = 0 .. N
      BY <2>5
    <3>2. \A n \in 0 .. N : c[n] = IF n = 0 THEN e ELSE K(c[n - 1], n)
      BY <2>5
    <3>3. c = [n \in 0 .. N |-> c[n]]
      BY <2>5, <3>1
    <3> HIDE DEF Rec
    <3>4. c[0] = e
      BY <1>1, <3>2
    <3>5. ASSUME NEW n \in 1 .. N PROVE c[n] = K(c[n - 1], n)
      <4>1. n \in 0 .. N /\ n # 0
        BY <1>1
      <4> QED BY <3>2, <4>1, Zenon
    <3> QED BY <3>1, <3>3, <3>4, <3>5
  <2>7. \A n \in 0 .. N : c[n] \in B
    <3> DEFINE S == { n \in Nat : n <= N => c[n] \in B }
    <3>1. 0 \in S
      BY <1>1, <2>6
    <3>2. ASSUME NEW n \in Nat, n \in S PROVE n + 1 \in S
      <4> SUFFICES ASSUME n + 1 <= N PROVE c[n + 1] \in B
        OBVIOUS
      <4>1. n <= N /\ n + 1 \in 1 .. N /\ (n + 1) - 1 = n
        BY <1>1
      <4>2. c[n] \in B
        BY <3>2, <4>1
      <4>3. c[n + 1] = K(c[(n + 1) - 1], n + 1)
        BY <2>6, <4>1, Zenon
      <4>4. c[n + 1] = K(c[n], n + 1)
        BY <4>1, <4>3, Zenon
      <4> QED BY <1>2, <4>1, <4>2, <4>4, Zenon
    <3> HIDE DEF S
    <3>3. \A n \in Nat : n \in S
      BY <3>1, <3>2, SetInduction
    <3> QED BY <1>1, <3>3 DEF S
  <2> QED BY <2>6, <2>7
<1>5. Searches(s, t, c)
  <2> HIDE DEF c
  <2> QED BY <1>4 DEF Searches
<1> HIDE DEF c
<1> QED BY <1>3, <1>5

\* The search finds whatever is there: by the place of the i-th element it has
\* matched at least i, and it never matches more than there are.
LEMMA EmbedsFound ==
  ASSUME NEW s \in Seq(Byte), NEW t \in Seq(Byte), Embeds(s, t)
  PROVE  IsSubsequence(s, t)
<1> DEFINE A == Len(s)
           M == Len(t)
<1>1. A \in Nat /\ M \in Nat
  BY LenProperties
<1>2. PICK f : Places(s, t, f)
  BY DEF Embeds
<1>3. PICK m : Searches(s, t, m) /\ (IsSubsequence(s, t) <=> m[Len(t)] = Len(s))
  BY SearchExists
<1>4. /\ f \in [1 .. A -> 1 .. M] /\ \A i \in 1 .. A : t[f[i]] = s[i]
      /\ \A i, j \in 1 .. A : i < j => f[i] < f[j]
  BY <1>2 DEF Places
<1>5. /\ m \in [0 .. M -> Nat] /\ m[0] = 0
      /\ \A n \in 1 .. M : m[n] = IF m[n - 1] < A /\ s[m[n - 1] + 1] = t[n]
                                    THEN m[n - 1] + 1 ELSE m[n - 1]
  BY <1>3 DEF Searches
<1>6. IsSubsequence(s, t) <=> m[M] = A
  BY <1>3
<1> HIDE DEF A, M
<1>7. \A n \in 0 .. M : m[n] <= A
  <2> DEFINE S == { n \in Nat : n <= M => m[n] <= A }
  <2>1. 0 \in S
    BY <1>1, <1>5
  <2>2. ASSUME NEW n \in Nat, n \in S PROVE n + 1 \in S
    <3> SUFFICES ASSUME n + 1 <= M PROVE m[n + 1] <= A
      OBVIOUS
    <3>1. n + 1 \in 1 .. M /\ (n + 1) - 1 = n /\ m[n] \in Nat /\ m[n] <= A
      BY <1>1, <1>5, <2>2
    <3>2. m[n + 1] = IF m[n] < A /\ s[m[n] + 1] = t[n + 1] THEN m[n] + 1 ELSE m[n]
      BY <1>5, <3>1
    <3> QED BY <1>1, <3>1, <3>2
  <2> HIDE DEF S
  <2>3. \A n \in Nat : n \in S
    BY <2>1, <2>2, SetInduction
  <2> QED BY <1>1, <2>3 DEF S
<1>8. \A n \in 0 .. M : \A i \in 1 .. A : f[i] <= n => i <= m[n]
  <2> DEFINE S == { n \in Nat : n <= M => \A i \in 1 .. A : f[i] <= n => i <= m[n] }
  <2>1. 0 \in S
    BY <1>1, <1>4
  <2>2. ASSUME NEW n \in Nat, n \in S PROVE n + 1 \in S
    <3> SUFFICES ASSUME n + 1 <= M, NEW i \in 1 .. A, f[i] <= n + 1 PROVE i <= m[n + 1]
      OBVIOUS
    <3>1. /\ n + 1 \in 1 .. M /\ (n + 1) - 1 = n /\ m[n] \in Nat
          /\ \A j \in 1 .. A : f[j] <= n => j <= m[n]
      BY <1>1, <1>5, <2>2
    <3>2. m[n + 1] = IF m[n] < A /\ s[m[n] + 1] = t[n + 1] THEN m[n] + 1 ELSE m[n]
      BY <1>5, <3>1
    <3>3. m[n + 1] >= m[n] /\ m[n + 1] \in Nat
      BY <3>1, <3>2
    <3>4. CASE f[i] <= n
      BY <1>1, <3>1, <3>3, <3>4
    <3>5. CASE f[i] = n + 1
      <4>1. i - 1 <= m[n]
        <5>1. CASE i = 1
          BY <3>1, <5>1
        <5>2. CASE i > 1
          <6>1. i - 1 \in 1 .. A /\ i - 1 < i
            BY <1>1, <5>2
          <6>2. f[i - 1] < f[i] /\ f[i - 1] \in 1 .. M
            BY <1>4, <6>1
          <6>3. f[i - 1] <= n
            BY <1>1, <3>5, <6>2
          <6> QED BY <3>1, <6>1, <6>3
        <5> QED BY <5>1, <5>2
      <4>2. CASE i <= m[n]
        BY <1>1, <3>1, <3>3, <4>2
      <4>3. CASE i - 1 = m[n]
        <5>1. m[n] < A /\ m[n] + 1 = i /\ s[i] = t[n + 1]
          BY <1>1, <1>4, <3>5, <4>3
        <5> QED BY <1>1, <3>1, <3>2, <5>1
      <4> QED BY <1>1, <3>1, <4>1, <4>2, <4>3
    <3> QED
      <4>1. f[i] \in 1 .. M
        BY <1>4
      <4> QED BY <1>1, <3>4, <3>5, <4>1
  <2> HIDE DEF S
  <2>3. \A n \in Nat : n \in S
    BY <2>1, <2>2, SetInduction
  <2> QED BY <1>1, <2>3 DEF S
<1>9. m[M] = A
  <2>1. M \in 0 .. M /\ m[M] \in Nat /\ m[M] <= A
    BY <1>1, <1>5, <1>7
  <2>2. CASE A = 0
    BY <1>1, <2>1, <2>2
  <2>3. CASE A > 0
    <3>1. A \in 1 .. A /\ f[A] \in 1 .. M
      BY <1>1, <1>4, <2>3
    <3>2. A <= m[M]
      BY <1>1, <1>8, <2>1, <3>1
    <3> QED BY <1>1, <2>1, <3>2
  <2> QED BY <1>1, <2>2, <2>3
<1> QED BY <1>6, <1>9

-----------------------------------------------------------------------------
(* The bytes of the packets that reached the stack.                        *)

Buffers == Seq(Seq(Byte))

\* f holds the bytes of the first n packets of ps.
JoinedParts(ps, f) ==
  /\ f \in [0 .. Len(ps) -> Seq(Byte)]
  /\ f[0] = <<>>
  /\ \A n \in 1 .. Len(ps) : f[n] = f[n - 1] \o ps[n]

\* The recursion in Joined has a solution, and Joined is its last value.
LEMMA JoinedPrefix ==
  ASSUME NEW ps \in Buffers
  PROVE  \E f : JoinedParts(ps, f) /\ Joined(ps) = f[Len(ps)]
<1> DEFINE N == Len(ps)
           e == <<>>
           B == Seq(Byte)
           K(v, n) == v \o ps[n]
           h == [n \in 1 .. N |-> [v \in B |-> K(v, n)]]
           Rec(f) == f = [n \in 0 .. N |-> IF n = 0 THEN e ELSE K(f[n - 1], n)]
           c == CHOOSE f : Rec(f)
<1>1. N \in Nat /\ e \in B
  BY EmptySeq, LenProperties DEF Buffers
<1>2. \A n \in 1 .. N : \A v \in B : K(v, n) \in B
  <2> TAKE n \in 1 .. N
  <2>1. ps[n] \in Seq(Byte)
    BY ElementOfSeq DEF Buffers
  <2> QED BY <2>1, ConcatProperties
<1>3. Joined(ps) = c[N]
  BY DEF Joined
<1>4. c \in [0 .. N -> B] /\ c[0] = e /\ \A n \in 1 .. N : c[n] = K(c[n - 1], n)
  <2> HIDE DEF N, e, B, K
  <2>1. h \in [1 .. N -> [B -> B]]
    BY <1>2
  <2>2. PICK g \in [0 .. N -> B] :
          g = [n \in 0 .. N |-> IF n = 0 THEN e ELSE h[n][g[n - 1]]]
    <3> HIDE DEF h
    <3>1. \E g : Recurs(B, e, N, h, g)
      BY <1>1, <2>1, RecursionExists
    <3> QED BY <3>1 DEF Recurs
  <2>3. \A n \in 1 .. N : g[n - 1] \in B /\ h[n][g[n - 1]] = K(g[n - 1], n)
    BY <1>1
  <2>4. Rec(g)
    <3> HIDE DEF h
    <3> QED BY <1>1, <2>2, <2>3
  <2>5. Rec(c)
    BY <2>4
  <2> HIDE DEF c
  <2>6. /\ DOMAIN c = 0 .. N /\ c = [n \in 0 .. N |-> c[n]]
        /\ c[0] = e /\ \A n \in 1 .. N : c[n] = K(c[n - 1], n)
    BY <1>1, <2>5
  <2>7. \A n \in 0 .. N : c[n] \in B
    <3> DEFINE S == { n \in Nat : n <= N => c[n] \in B }
    <3>1. 0 \in S
      BY <1>1, <2>6
    <3>2. ASSUME NEW n \in Nat, n \in S PROVE n + 1 \in S
      <4> SUFFICES ASSUME n + 1 <= N PROVE c[n + 1] \in B
        OBVIOUS
      <4>1. n <= N /\ n + 1 \in 1 .. N /\ (n + 1) - 1 = n
        BY <1>1
      <4>2. c[n] \in B
        BY <3>2, <4>1
      <4>3. c[n + 1] = K(c[(n + 1) - 1], n + 1)
        BY <2>6, <4>1, Zenon
      <4>4. c[n + 1] = K(c[n], n + 1)
        BY <4>1, <4>3, Zenon
      <4> QED BY <1>2, <4>1, <4>2, <4>4, Zenon
    <3> HIDE DEF S
    <3>3. \A n \in Nat : n \in S
      BY <3>1, <3>2, SetInduction
    <3> QED BY <1>1, <3>3 DEF S
  <2> QED BY <2>6, <2>7
<1>5. JoinedParts(ps, c)
  <2> HIDE DEF c
  <2> QED BY <1>4 DEF JoinedParts
<1> HIDE DEF c
<1> QED BY <1>3, <1>5

\* Two solutions for sequences with a common prefix agree on it.
LEMMA JoinedAgree ==
  ASSUME NEW ps \in Buffers, NEW qs \in Buffers, NEW f, NEW g,
         JoinedParts(ps, f), JoinedParts(qs, g),
         NEW m \in 0 .. Len(ps), m <= Len(qs), \A i \in 1 .. m : ps[i] = qs[i]
  PROVE  \A n \in 0 .. m : f[n] = g[n]
<1> DEFINE S == { n \in Nat : n <= m => f[n] = g[n] }
<1>0. m \in Nat /\ Len(ps) \in Nat /\ Len(qs) \in Nat
  BY LenProperties
<1>1. 0 \in S
  BY DEF JoinedParts
<1>2. ASSUME NEW n \in Nat, n \in S PROVE n + 1 \in S
  <2> SUFFICES ASSUME n + 1 <= m PROVE f[n + 1] = g[n + 1]
    OBVIOUS
  <2>1. n + 1 \in 1 .. Len(ps) /\ n + 1 \in 1 .. Len(qs) /\ n + 1 \in 1 .. m
        /\ (n + 1) - 1 = n /\ n <= m
    BY <1>0
  <2>2. f[n] = g[n]
    BY <1>2, <2>1
  <2>3. f[n + 1] = f[(n + 1) - 1] \o ps[n + 1]
    BY <2>1, Zenon DEF JoinedParts
  <2>4. g[n + 1] = g[(n + 1) - 1] \o qs[n + 1]
    BY <2>1, Zenon DEF JoinedParts
  <2>5. ps[n + 1] = qs[n + 1]
    BY <2>1
  <2> QED BY <2>1, <2>2, <2>3, <2>4, <2>5, Zenon
<1> HIDE DEF S
<1>3. \A n \in Nat : n \in S
  BY <1>1, <1>2, SetInduction
<1> QED BY <1>0, <1>3 DEF S

\* The bytes of packets are bytes,
LEMMA JoinedType ==
  ASSUME NEW ps \in Buffers
  PROVE  Joined(ps) \in Seq(Byte)
<1>1. PICK f : JoinedParts(ps, f) /\ Joined(ps) = f[Len(ps)]
  BY JoinedPrefix
<1>2. Len(ps) \in 0 .. Len(ps)
  BY LenProperties
<1> QED BY <1>1, <1>2 DEF JoinedParts

\* of no packet none,
LEMMA JoinedEmpty == Joined(<<>>) = <<>>
<1>1. <<>> \in Buffers /\ Len(<<>>) = 0
  BY EmptySeq DEF Buffers
<1>2. PICK f : JoinedParts(<<>>, f) /\ Joined(<<>>) = f[Len(<<>>)]
  BY <1>1, JoinedPrefix
<1>3. f[0] = <<>>
  BY <1>2, Zenon DEF JoinedParts
<1> QED BY <1>1, <1>2, <1>3, Zenon

\* and the bytes of one packet more are behind the others.
LEMMA JoinedAppend ==
  ASSUME NEW ps \in Buffers, NEW p \in Seq(Byte)
  PROVE  Joined(Append(ps, p)) = Cat(Joined(ps), p)
<1> DEFINE qs == Append(ps, p)
           N == Len(ps)
<1>1. N \in Nat /\ qs \in Buffers /\ Len(qs) = N + 1 /\ qs[N + 1] = p
      /\ \A i \in 1 .. N : qs[i] = ps[i]
  BY AppendProperties, LenProperties DEF Buffers
<1> HIDE DEF qs
<1>2. PICK f : JoinedParts(ps, f) /\ Joined(ps) = f[N]
  BY JoinedPrefix
<1>3. PICK g : JoinedParts(qs, g) /\ Joined(qs) = g[Len(qs)]
  BY <1>1, JoinedPrefix
<1> HIDE DEF N
<1>4. f[N] = g[N]
  <2>1. N \in 0 .. Len(ps) /\ N <= Len(qs) /\ \A i \in 1 .. N : ps[i] = qs[i]
    BY <1>1 DEF N
  <2>2. \A n \in 0 .. N : f[n] = g[n]
    BY <1>1, <1>2, <1>3, <2>1, JoinedAgree
  <2> QED BY <1>1, <2>2
<1>5. N + 1 \in 1 .. Len(qs) /\ (N + 1) - 1 = N
  BY <1>1
<1>6. g[N + 1] = g[(N + 1) - 1] \o qs[N + 1]
  BY <1>3, <1>5, Zenon DEF JoinedParts
<1>7. Joined(qs) = Joined(ps) \o p
  BY <1>1, <1>2, <1>3, <1>4, <1>5, <1>6, Zenon
<1> QED BY <1>7 DEF qs, Cat

-----------------------------------------------------------------------------
(* What was passed to the stack, what the skb holds and what no call has   *)
(* counted as processed are, in this order, bytes of the line.             *)

\* What is buffered and not yet processed.
Unread == IF processed <= Len(cp) THEN Drop(line, processed) ELSE <<>>

\* A call whose resync has counted more bytes than it was given starts a frame
\* anew, and the copy it begins with faults.
Astray ==
  processed > Len(cp) =>
    \/ call = "fault"
    \/ call = "data" /\ st = "LEN" /\ recv_skb = <<>>
    \/ call = "info" /\ st = "LEN" /\ rlen = 0

Consumed ==
  /\ Portion /\ Astray
  /\ Embeds(Cat(Joined(delivered), Cat(Skb, Unread)), wire)

\* The types of the parts.
LEMMA PartTypes ==
  ASSUME IInv
  PROVE  /\ wire \in Seq(Byte) /\ Joined(delivered) \in Seq(Byte) /\ Skb \in Seq(Byte)
         /\ Unread \in Seq(Byte) /\ line \in Seq(Byte) /\ cp \in Seq(Byte)
         /\ processed \in Nat /\ Len(cp) \in Nat /\ Len(line) \in Nat
<1>1. EnvOK /\ CallOK /\ delivered \in Seq(Seq(Byte))
  BY DEF IInv, Typing
<1>2. line \in Seq(Byte) /\ processed \in Nat /\ wire \in Seq(Byte)
  BY <1>1 DEF EnvOK, CallOK
<1>3. Drop(line, processed) \in Seq(Byte) /\ <<>> \in Seq(Byte)
  BY <1>2, DropType, EmptySeq
<1>4. Joined(delivered) \in Seq(Byte)
  BY <1>1, JoinedType DEF Buffers
<1> QED BY <1>2, <1>3, <1>4, Typed DEF Unread

\* Bytes at the front of the skb are lost,
LEMMA LoseFront ==
  ASSUME NEW t \in Seq(Byte), NEW j \in Seq(Byte), NEW x \in Seq(Byte), NEW s \in Seq(Byte),
         NEW u \in Seq(Byte), Embeds(Cat(j, Cat(Cat(x, s), u)), t)
  PROVE  Embeds(Cat(j, Cat(s, u)), t)
<1>1. Cat(s, u) \in Seq(Byte)
  BY CatType
<1>2. Cat(Cat(x, s), u) = Cat(x, Cat(s, u))
  BY CatAssociative
<1> QED BY <1>1, <1>2, EmbedsWithout

\* all of the skb's bytes,
LEMMA LoseSkb ==
  ASSUME NEW t \in Seq(Byte), NEW j \in Seq(Byte), NEW s \in Seq(Byte),
         NEW u \in Seq(Byte), Embeds(Cat(j, Cat(s, u)), t)
  PROVE  Embeds(Cat(j, Cat(<<>>, u)), t)
<1>1. Embeds(Cat(j, u), t)
  BY EmbedsWithout
<1> QED BY <1>1, CatEmpty

\* bytes that come next,
LEMMA LoseNext ==
  ASSUME NEW t \in Seq(Byte), NEW j \in Seq(Byte), NEW x \in Seq(Byte), NEW s \in Seq(Byte),
         NEW u \in Seq(Byte), Embeds(Cat(j, Cat(s, Cat(x, u))), t)
  PROVE  Embeds(Cat(j, Cat(s, u)), t)
<1> DEFINE a == Cat(j, s)
           b == Cat(x, u)
<1>1. a \in Seq(Byte) /\ b \in Seq(Byte)
  BY CatType
<1>2. Cat(a, b) = Cat(j, Cat(s, b))
  <2> HIDE DEF b
  <2> QED BY <1>1, CatAssociative
<1>3. Cat(a, u) = Cat(j, Cat(s, u))
  BY CatAssociative
<1>4. Embeds(Cat(a, Cat(x, u)), t)
  BY <1>2
<1> HIDE DEF a
<1>5. Embeds(Cat(a, u), t)
  BY <1>1, <1>4, EmbedsWithout
<1> QED BY <1>3, <1>5

\* and bytes that come last.
LEMMA LoseLast ==
  ASSUME NEW t \in Seq(Byte), NEW j \in Seq(Byte), NEW x \in Seq(Byte), NEW s \in Seq(Byte),
         NEW u \in Seq(Byte), Embeds(Cat(j, Cat(s, Cat(u, x))), t)
  PROVE  Embeds(Cat(j, Cat(s, u)), t)
<1> DEFINE a == Cat(j, Cat(s, u))
           e == <<>>
<1>1. Cat(s, u) \in Seq(Byte) /\ a \in Seq(Byte)
  BY CatType
<1>2. Cat(j, Cat(s, Cat(u, x))) = Cat(a, x)
  <2>1. Cat(s, Cat(u, x)) = Cat(Cat(s, u), x)
    BY CatAssociative
  <2>2. Cat(j, Cat(Cat(s, u), x)) = Cat(a, x)
    BY <1>1, CatAssociative
  <2> QED BY <2>1, <2>2
<1>3. e \in Seq(Byte) /\ Cat(x, e) = x /\ Cat(a, e) = a
  BY <1>1, CatEmpty, EmptySeq
<1> HIDE DEF a, e
<1>4. Embeds(Cat(a, Cat(x, e)), t)
  BY <1>2, <1>3
<1>5. Embeds(Cat(a, e), t)
  BY <1>1, <1>3, <1>4, EmbedsWithout
<1> QED BY <1>3, <1>5 DEF a

\* A step that leaves the bytes where they are.
LEMMA SameConsumed ==
  ASSUME IInv, Consumed, UNCHANGED <<line, wire, delivered, recv_skb, cp, processed>>,
         call' = "none" => call = "none", Astray'
  PROVE  Consumed'
<1>1. Skb' = Skb /\ Unread' = Unread /\ Joined(delivered)' = Joined(delivered)
  BY DEF Skb, Unread
<1>2. Portion'
  BY DEF Consumed, Portion
<1> QED BY <1>1, <1>2 DEF Consumed

\* Bytes that reach the tty are behind all others.
LEMMA PushConsumed ==
  ASSUME IInv, Consumed, NEW b \in Seq(Byte), Push(b),
         UNCHANGED <<delivered, recv_skb, cp, processed, call, st, rlen>>
  PROVE  Consumed'
<1> DEFINE j == Joined(delivered)
           a == Cat(j, Cat(Skb, Unread))
<1>1. /\ wire \in Seq(Byte) /\ j \in Seq(Byte) /\ Skb \in Seq(Byte) /\ Unread \in Seq(Byte)
      /\ line \in Seq(Byte) /\ cp \in Seq(Byte) /\ processed \in Nat /\ Len(cp) \in Nat
      /\ Len(line) \in Nat
  BY PartTypes
<1>2. line' = Cat(line, b) /\ wire' = Cat(wire, b) /\ wire' \in Seq(Byte)
  BY <1>1, CatType DEF Push, Cat
<1>3. Cat(Skb, Unread) \in Seq(Byte) /\ a \in Seq(Byte)
  <2>1. Cat(Skb, Unread) \in Seq(Byte)
    BY <1>1, CatType
  <2> QED BY <1>1, <2>1, CatType
<1>4. Embeds(a, wire)
  BY DEF Consumed
<1>5. Embeds(Cat(a, b), Cat(wire, b))
  <2> HIDE DEF a
  <2> QED BY <1>1, <1>3, <1>4, EmbedsBoth
<1>6. Cat(a, b) = Cat(j, Cat(Skb, Cat(Unread, b)))
  <2>1. Cat(a, b) = Cat(j, Cat(Cat(Skb, Unread), b))
    <3> HIDE DEF j
    <3> QED BY <1>1, <1>3, CatAssociative
  <2>2. Cat(Cat(Skb, Unread), b) = Cat(Skb, Cat(Unread, b))
    BY <1>1, CatAssociative
  <2> QED BY <2>1, <2>2
<1> HIDE DEF a
<1>7. Skb' = Skb /\ Joined(delivered)' = j
  BY DEF Skb
<1> HIDE DEF j
<1>8. Portion'
  <2>1. Starts(cp, line) /\ Starts(line, Cat(line, b))
    BY <1>1, StartsCat DEF Consumed, Portion
  <2>2. Starts(cp, Cat(line, b))
    <3>1. Cat(line, b) \in Seq(Byte)
      BY <1>1, CatType
    <3> QED BY <1>1, <2>1, <3>1, StartsTransitive
  <2> QED BY <1>2, <2>2 DEF Consumed, Portion
<1>9. Astray'
  BY DEF Consumed, Astray
<1>10. CASE processed <= Len(cp)
  <2>1. processed \in 0 .. Len(line)
    BY <1>1, <1>10 DEF Consumed, Portion, Starts
  <2>2. Drop(Cat(line, b), processed) = Cat(Drop(line, processed), b)
    BY <1>1, <2>1, DropCat
  <2>3. Unread' = Cat(Unread, b)
    BY <1>2, <1>10, <2>2 DEF Unread
  <2> QED BY <1>2, <1>5, <1>6, <1>7, <1>8, <1>9, <2>3 DEF Consumed
<1>11. CASE processed > Len(cp)
  <2>1. Unread' = Unread
    BY <1>1, <1>11 DEF Unread
  <2>2. Embeds(Cat(j, Cat(Skb, Unread)), Cat(wire, b))
    BY <1>1, <1>2, <1>5, <1>6, LoseLast
  <2> QED BY <1>2, <1>7, <1>8, <1>9, <2>1, <2>2 DEF Consumed
<1> QED BY <1>1, <1>10, <1>11

\* The station's bytes and the line's noise.
LEMMA LineConsumed ==
  ASSUME IInv, Consumed, EspInfo \/ EspSend \/ (\E b \in NoiseBytes : LineNoise(b))
  PROVE  Consumed'
<1>1. CASE EspInfo
  <2>1. NetifInfo \in Seq(Byte) /\ Len(NetifInfo) <= MTU_LEN /\ SPLIT_CMD \in Byte
    BY FrameAssumption, HostRxAssumption
  <2>2. Frame(NetifInfo, SPLIT_CMD) \in Seq(Byte)
    BY <2>1, FrameType
  <2> QED BY <1>1, <2>2, PushConsumed DEF EspInfo, dev, locals
<1>2. CASE EspSend
  <2> DEFINE p == Packets[Len(sent) + 1]
  <2>1. Len(sent) + 1 \in 1 .. Len(Packets)
    BY <1>2, LenProperties, HostRxAssumption DEF EspSend, IInv, Typing, EnvOK
  <2>2. p \in Seq(Byte) /\ Len(p) <= MTU_LEN
    BY <2>1, ElementOfSeq, HostRxAssumption, FrameAssumption
  <2>3. Frame(p, SPLIT_DATA) \in Seq(Byte)
    BY <2>2, FrameType, FrameAssumption
  <2> QED BY <1>2, <2>3, PushConsumed DEF EspSend, dev, locals
<1>3. ASSUME NEW b \in NoiseBytes, LineNoise(b) PROVE Consumed'
  <2>1. <<b>> \in Seq(Byte)
    BY HostRxAssumption
  <2> QED BY <1>3, <2>1, PushConsumed DEF LineNoise, dev, locals
<1> QED BY <1>1, <1>2, <1>3

\* A reset cuts off bytes that no call has been given.
LEMMA LinkResetConsumed ==
  ASSUME IInv, Consumed, NEW k \in 0 .. Len(line), LinkReset(k)
  PROVE  Consumed'
<1> DEFINE n == Len(line) - k
           l == SubSeq(line, 1, n)
           x == Drop(line, n)
           j == Joined(delivered)
<1>1. /\ wire \in Seq(Byte) /\ j \in Seq(Byte) /\ Skb \in Seq(Byte) /\ Unread \in Seq(Byte)
      /\ line \in Seq(Byte) /\ cp \in Seq(Byte) /\ processed \in Nat /\ Len(cp) \in Nat
      /\ Len(line) \in Nat
  BY PartTypes
<1>2. n \in 0 .. Len(line) /\ Len(cp) <= n
  BY <1>1 DEF LinkReset
<1> HIDE DEF n
<1>3. l \in Seq(Byte) /\ x \in Seq(Byte) /\ Len(l) = n /\ Cat(l, x) = line
  BY <1>1, <1>2, DropCut
<1>4. line' = l /\ UNCHANGED <<wire, delivered, recv_skb, call, cp, processed, st, rlen>>
  BY DEF LinkReset, l, n, locals
<1> HIDE DEF l, x
<1>5. Skb' = Skb /\ Joined(delivered)' = j /\ Astray'
  BY <1>4 DEF Skb, Astray, Consumed
<1> HIDE DEF j
<1>6. Portion'
  <2>1. Starts(cp, line) /\ Starts(l, Cat(l, x))
    BY <1>3, StartsCat DEF Consumed, Portion
  <2>2. Starts(cp, l)
    BY <1>1, <1>2, <1>3, <2>1 DEF Starts
  <2> QED BY <1>4, <2>2 DEF Consumed, Portion
<1>7. Embeds(Cat(j, Cat(Skb, Unread)), wire)
  BY DEF Consumed, j
<1>8. CASE processed <= Len(cp)
  <2>1. processed \in 0 .. Len(l)
    BY <1>1, <1>2, <1>3, <1>8
  <2>2. Drop(Cat(l, x), processed) = Cat(Drop(l, processed), x)
    BY <1>3, <2>1, DropCat
  <2>3. Unread = Cat(Unread', x) /\ Unread' = Drop(l, processed)
    BY <1>3, <1>4, <1>8, <2>2 DEF Unread
  <2>4. Unread' \in Seq(Byte)
    BY <1>1, <1>3, <2>3, DropType
  <2>5. Embeds(Cat(j, Cat(Skb, Unread')), wire)
    BY <1>1, <1>3, <1>7, <2>3, <2>4, LoseLast
  <2> QED BY <1>4, <1>5, <1>6, <2>5 DEF Consumed
<1>9. CASE processed > Len(cp)
  <2>1. Unread' = Unread
    BY <1>1, <1>4, <1>9 DEF Unread
  <2> QED BY <1>4, <1>5, <1>6, <1>7, <2>1 DEF Consumed
<1> QED BY <1>1, <1>8, <1>9

\* The unread bytes behind position n of the portion.
LEMMA UnreadFrom ==
  ASSUME IInv, Consumed, processed <= Len(cp), NEW n \in processed .. Len(cp)
  PROVE  /\ Drop(line, n) \in Seq(Byte) /\ n \in 0 .. Len(line)
         /\ \E x \in Seq(Byte) : Unread = Cat(x, Drop(line, n))
<1> DEFINE k == n - processed
           x == SubSeq(cp, processed + 1, processed + k)
<1>1. /\ line \in Seq(Byte) /\ cp \in Seq(Byte) /\ processed \in Nat /\ Len(cp) \in Nat
      /\ Len(line) \in Nat /\ Starts(cp, line)
  BY PartTypes DEF Consumed, Portion
<1>2. k \in Nat /\ processed + k = n /\ processed + k <= Len(cp) /\ n \in Nat
      /\ n \in 0 .. Len(line)
  BY <1>1 DEF Starts
<1> HIDE DEF k
<1>3. x \in Seq(Byte)
  BY <1>1, <1>2, TakeProperties
<1>4. /\ processed + k <= Len(line)
      /\ Cat(x, Drop(line, processed + k)) = Drop(line, processed)
  <2>1. /\ cp \in Seq(Byte) /\ line \in Seq(Byte) /\ processed \in Nat /\ k \in Nat
        /\ processed + k <= Len(cp) /\ Starts(cp, line)
    BY <1>1, <1>2
  <2> QED BY <2>1, TakeDrop, Zenon DEF x
<1> HIDE DEF x
<1>5. Unread = Cat(x, Drop(line, n))
  BY <1>2, <1>4 DEF Unread
<1>6. Drop(line, n) \in Seq(Byte)
  BY <1>1, <1>2, DropType
<1> QED BY <1>2, <1>3, <1>5, <1>6

\* What a call that returns leaves unread.
LEMMA ReturnUnread ==
  ASSUME IInv, Consumed, processed <= Len(cp), NEW n \in processed .. Len(cp), Return(n)
  PROVE  /\ Portion' /\ Astray' /\ wire' = wire /\ Unread' \in Seq(Byte)
         /\ \E x \in Seq(Byte) : Unread = Cat(x, Unread')
<1>1. /\ Drop(line, n) \in Seq(Byte)
      /\ \E x \in Seq(Byte) : Unread = Cat(x, Drop(line, n))
  BY UnreadFrom
<1>2. line' = Drop(line, n) /\ call' = "none" /\ cp' = <<>> /\ processed' = 0 /\ wire' = wire
  BY DEF Return
<1>3. Len(cp') = 0
  BY <1>2, EmptySeq
<1>4. Unread' = line'
  <2>1. Drop(line', processed') = line'
    BY <1>1, <1>2, DropNone
  <2> QED BY <1>2, <1>3, <2>1 DEF Unread
<1>5. Portion'
  BY <1>1, <1>2, <1>3, LenProperties DEF Portion, Starts
<1>6. Astray'
  BY <1>2, <1>3 DEF Astray
<1> QED BY <1>1, <1>2, <1>4, <1>5, <1>6

\* Between two calls everything buffered is unread.
LEMMA BetweenCalls ==
  ASSUME IInv, Consumed, call = "none"
  PROVE  Unread = line
BY PartTypes, EmptySeq, DropNone DEF Consumed, Portion, Unread

\* Bytes that arrive before the discipline is attached are lost.
LEMMA UnattachedConsumed ==
  ASSUME IInv, Consumed, NEW n \in 1 .. Len(line), ReceiveUnattached(n)
  PROVE  Consumed'
<1> DEFINE j == Joined(delivered)
<1>1. /\ wire \in Seq(Byte) /\ j \in Seq(Byte) /\ Skb \in Seq(Byte)
      /\ line \in Seq(Byte) /\ Len(line) \in Nat
  BY PartTypes
<1>2. Unread = line /\ processed = 0 /\ cp = <<>>
  BY BetweenCalls DEF ReceiveUnattached, Consumed, Portion
<1> DEFINE x == SubSeq(line, 1, n)
           l == Drop(line, n)
<1>3. n \in 0 .. Len(line)
  BY <1>1
<1>4. x \in Seq(Byte) /\ l \in Seq(Byte) /\ Cat(x, l) = line
  BY <1>1, <1>3, DropCut
<1>5. /\ line' = l
      /\ UNCHANGED <<wire, delivered, recv_skb, call, cp, processed, st, rlen>>
  BY DEF ReceiveUnattached, dev, locals
<1> HIDE DEF x, l
<1>6. Skb' = Skb /\ Joined(delivered)' = j /\ Astray'
  BY <1>5 DEF Skb, Astray, Consumed
<1>7. Embeds(Cat(j, Cat(Skb, Cat(x, l))), wire)
  BY <1>2, <1>4 DEF Consumed
<1> HIDE DEF j
<1>8. Embeds(Cat(j, Cat(Skb, l)), wire)
  BY <1>1, <1>4, <1>7, LoseNext
<1>9. Unread' = l
  BY <1>2, <1>4, <1>5, EmptySeq, DropNone DEF Unread
<1>10. Portion'
  BY <1>2, <1>4, <1>5, EmptySeq, LenProperties DEF Portion, Starts
<1> QED BY <1>5, <1>6, <1>8, <1>9, <1>10 DEF Consumed

\* A call begins with everything unread, and an skb it allocates is empty.
LEMMA EnterConsumed ==
  ASSUME IInv, Consumed, NEW n \in 1 .. Len(line), EnterData(n) \/ EnterInfo(n)
  PROVE  Consumed'
<1>1. PICK f \in {"data", "info"} : Enter(f, n)
  BY DEF EnterData, EnterInfo
<1>2. /\ Starts(cp', line) /\ line' = line /\ processed' = 0 /\ Len(cp') = n /\ n \in Nat
      /\ call = "none" /\ call' = f /\ delivered' = delivered
  BY <1>1, EnterPortion
<1>3. wire' = wire
  BY <1>1 DEF Enter, env
<1>4. Unread' = line /\ Unread = line
  BY <1>2, PartTypes, DropNone, BetweenCalls DEF Unread
<1>5. Skb' = Skb
  BY HostRxAssumption, EmptySeq DEF EnterData, EnterInfo, AllocOnEntry, dev, Skb
<1>6. Portion' /\ Astray'
  BY <1>1, <1>2 DEF Portion, Astray
<1> QED BY <1>2, <1>3, <1>4, <1>5, <1>6 DEF Consumed

\* A call that moves on leaves the bytes behind the new position unread.
LEMMA AdvanceUnread ==
  ASSUME IInv, Consumed, processed <= Len(cp), NEW n \in Nat, processed' = processed + n,
         UNCHANGED <<line, cp>>
  PROVE  /\ Unread' \in Seq(Byte) /\ \E x \in Seq(Byte) : Unread = Cat(x, Unread')
<1>1. processed \in Nat /\ Len(cp) \in Nat /\ Unread \in Seq(Byte)
  BY PartTypes
<1>2. CASE processed + n <= Len(cp)
  <2>1. processed + n \in processed .. Len(cp)
    BY <1>1, <1>2
  <2>2. Unread' = Drop(line, processed + n)
    BY <1>2 DEF Unread
  <2> QED BY <2>1, <2>2, UnreadFrom
<1>3. CASE processed + n > Len(cp)
  <2>1. Unread' = <<>>
    BY <1>1, <1>3 DEF Unread
  <2> QED BY <1>1, <2>1, EmptySeq, CatEmpty
<1> QED BY <1>1, <1>2, <1>3

\* A step that passes nothing on, loses some of the unread bytes and keeps the
\* skb's bytes or loses them all.
LEMMA LosingConsumed ==
  ASSUME IInv, Consumed, Portion', Astray', UNCHANGED <<wire, delivered>>,
         Skb' = Skb \/ Skb' = <<>>, Unread' \in Seq(Byte),
         \E x \in Seq(Byte) : Unread = Cat(x, Unread')
  PROVE  Consumed'
<1> DEFINE j == Joined(delivered)
<1>1. wire \in Seq(Byte) /\ j \in Seq(Byte) /\ Skb \in Seq(Byte)
  BY PartTypes
<1>2. Joined(delivered)' = j /\ Embeds(Cat(j, Cat(Skb, Unread)), wire)
  BY DEF Consumed
<1> HIDE DEF j
<1>3. Embeds(Cat(j, Cat(Skb, Unread')), wire)
  BY <1>1, <1>2, LoseNext
<1>4. Embeds(Cat(j, Cat(<<>>, Unread')), wire)
  BY <1>1, <1>3, LoseSkb
<1> QED BY <1>2, <1>3, <1>4 DEF Consumed

\* A copy into the skb moves bytes from the line to it.
LEMMA DataCopyConsumed == ASSUME IInv, Consumed, DataCopy PROVE Consumed'
<1> DEFINE k == Least(surplus, DataMissing)
           t == Take(k)
           d == Drop(line, processed + k)
<1>1. /\ recv_skb \in Seq(Byte) /\ recv_skb # NoSkb /\ Skb = recv_skb /\ DataMissing \in Int
  <2>1. recv_skb # NoSkb /\ st \in Statuses /\ dlen \in Int /\ recv_skb \in Seq(Byte)
    BY Typed DEF DataCopy, InData, IInv, HasSkb
  <2>2. Len(recv_skb) \in Nat
    BY <2>1, LenProperties
  <2> QED BY <2>1, <2>2 DEF DataMissing, Statuses, Skb
<1>2. k \in Nat /\ k <= surplus
  BY <1>1, Typed DEF DataCopy, Least
<1>3. /\ line \in Seq(Byte) /\ cp \in Seq(Byte) /\ processed \in Nat /\ Len(cp) \in Nat
      /\ Starts(cp, line)
  BY PartTypes DEF Consumed, Portion
<1>4. processed + k <= Len(cp) /\ processed <= Len(cp)
  BY <1>2, <1>3, Typed DEF DataCopy, InData, IInv, Bookkeeping
<1> HIDE DEF k
<1>5. t \in Seq(Byte) /\ d \in Seq(Byte)
  <2>1. t \in Seq(Byte)
    BY <1>2, <1>3, <1>4, TakeProperties DEF Take
  <2>2. processed + k \in Nat
    BY <1>2, <1>3
  <2>3. d \in Seq(Byte)
    BY <1>3, <2>2, DropType
  <2> QED BY <2>1, <2>3
<1>6. /\ processed + k <= Len(line)
      /\ Cat(t, d) = Drop(line, processed)
  <2>1. /\ cp \in Seq(Byte) /\ line \in Seq(Byte) /\ processed \in Nat /\ k \in Nat
        /\ processed + k <= Len(cp) /\ Starts(cp, line)
    BY <1>2, <1>3, <1>4
  <2> QED BY <2>1, TakeDrop, Zenon DEF Take
<1>7. /\ recv_skb' = Cat(recv_skb, t) /\ processed' = processed + k
      /\ UNCHANGED <<line, wire, cp, call, delivered>>
  BY DEF DataCopy, Advance, Cat, k, env
<1>8. Unread = Cat(t, d) /\ Unread' = d
  BY <1>4, <1>6, <1>7 DEF Unread
<1> HIDE DEF t, d
<1>9. recv_skb' \in Seq(Byte)
  BY <1>1, <1>5, <1>7, CatType
<1>10. Skb' = Cat(Skb, t)
  BY <1>1, <1>7, <1>9, HostRxAssumption DEF Skb
<1>11. Cat(Skb', Unread') = Cat(Skb, Unread)
  <2>1. Cat(Cat(Skb, t), d) = Cat(Skb, Cat(t, d))
    BY <1>1, <1>5, CatAssociative
  <2> QED BY <1>8, <1>10, <2>1
<1>12. Portion' /\ Astray'
  BY <1>2, <1>3, <1>4, <1>7 DEF Portion, Astray, Consumed
<1>13. Joined(delivered)' = Joined(delivered)
  BY <1>7
<1> QED BY <1>7, <1>11, <1>12, <1>13 DEF Consumed

\* The packet is what is left of the skb's bytes without the header and the last.
LEMMA StripFrame ==
  ASSUME NEW s \in Seq(Byte)
  PROVE  /\ SubSeq(s, 3, Len(s) - 1) \in Seq(Byte)
         /\ \E h, l \in Seq(Byte) : s = Cat(h, Cat(SubSeq(s, 3, Len(s) - 1), l))
<1> DEFINE L == Len(s)
           p == SubSeq(s, 3, L - 1)
<1>1. L \in Nat /\ \A i \in 1 .. L : s[i] \in Byte
  BY LenProperties, ElementOfSeq
<1>2. CASE L >= 3
  <2> DEFINE h == SubSeq(s, 1, 2)
             r == SubSeq(s, 2 + 1, L)
             l == SubSeq(s, (L - 1) + 1, L)
  <2>1. 2 \in 0 .. L
    BY <1>1, <1>2
  <2>2. h \in Seq(Byte) /\ r \in Seq(Byte) /\ Cat(h, r) = s
    BY <2>1, CutAt
  <2>3. p \in Seq(Byte)
    BY <1>1, SubSeqProperties
  <2>4. l \in Seq(Byte)
    <3>1. L - 1 \in 0 .. L
      BY <1>1, <1>2
    <3> QED BY <3>1, CutAt
  <2>5. 3 \in 1 .. L + 1 /\ L - 1 \in 3 - 1 .. L /\ L \in L - 1 .. L
    BY <1>1, <1>2
  <2>6. SubSeq(s, 3, L - 1) \o SubSeq(s, (L - 1) + 1, L) = SubSeq(s, 3, L)
    BY <2>5, ConcatAdjacentSubSeq
  <2>7. Cat(p, l) = r
    <3>1. 2 + 1 = 3
      OBVIOUS
    <3> QED BY <2>6, <3>1, Zenon DEF Cat
  <2> HIDE DEF h, r, l, p
  <2>8. s = Cat(h, Cat(p, l))
    BY <2>2, <2>7
  <2> QED BY <2>2, <2>3, <2>4, <2>8 DEF p
<1>3. CASE L < 3
  <2>1. p \in Seq(Byte) /\ Len(p) = 0
    BY <1>1, <1>3, SubSeqProperties
  <2>2. p = <<>>
    BY <2>1, EmptySeq
  <2>3. s = Cat(s, Cat(p, <<>>)) /\ <<>> \in Seq(Byte)
    BY <2>1, <2>2, CatEmpty, EmptySeq
  <2> QED BY <2>1, <2>3
<1> QED BY <1>1, <1>2, <1>3

\* A packet that is passed on is behind those before it, and its bytes leave the skb.
LEMMA DeliverConsumed ==
  ASSUME IInv, Consumed, Deliver
  PROVE  Embeds(Cat(Joined(delivered'), Cat(<<>>, Unread)), wire)
<1> DEFINE j == Joined(delivered)
           p == SubSeq(recv_skb, 3, Len(recv_skb) - 1)
           u == Unread
<1>1. recv_skb \in Seq(Byte) /\ Skb = recv_skb
  BY Typed DEF Deliver, DataComplete, InData, IInv, HasSkb, Skb
<1>2. wire \in Seq(Byte) /\ j \in Seq(Byte) /\ u \in Seq(Byte) /\ delivered \in Buffers
  BY PartTypes, Typed DEF Buffers
<1>3. p \in Seq(Byte) /\ \E h, l \in Seq(Byte) : recv_skb = Cat(h, Cat(p, l))
  BY <1>1, StripFrame
<1>4. delivered' = IF Len(recv_skb) < 3 THEN delivered ELSE Append(delivered, p)
  BY DEF Deliver
<1>5. Embeds(Cat(j, Cat(recv_skb, u)), wire)
  BY <1>1 DEF Consumed
<1> HIDE DEF p, u
<1>0. CASE Len(recv_skb) < 3
  <2> DEFINE e == <<>>
  <2>1. delivered' = delivered
    BY <1>4, <1>0
  <2>2. Joined(delivered') = j
    BY <2>1
  <2> HIDE DEF j, e
  <2>3. e \in Seq(Byte) /\ Cat(recv_skb, e) = recv_skb
    BY <1>1, EmptySeq, CatEmpty DEF e
  <2>4. Embeds(Cat(j, Cat(Cat(recv_skb, e), u)), wire)
    BY <1>5, <2>3
  <2>5. Embeds(Cat(j, Cat(e, u)), wire)
    BY <1>1, <1>2, <2>3, <2>4, LoseFront
  <2> QED BY <2>2, <2>5 DEF e, u
<1> SUFFICES ASSUME ~(Len(recv_skb) < 3)
             PROVE  Embeds(Cat(Joined(delivered'), Cat(<<>>, Unread)), wire)
  BY <1>0
<1>6. Joined(delivered') = Cat(j, p)
  <2>1. delivered' = Append(delivered, p)
    BY <1>4
  <2> QED BY <1>2, <1>3, <2>1, JoinedAppend
<1> HIDE DEF j
<1>7. PICK h \in Seq(Byte), l \in Seq(Byte) : recv_skb = Cat(h, Cat(p, l))
  BY <1>3
<1> DEFINE q == Cat(p, l)
<1>8. q \in Seq(Byte) /\ recv_skb = Cat(h, q)
  BY <1>3, <1>7, CatType
<1>9. Cat(q, u) = Cat(p, Cat(l, u))
  BY <1>2, <1>3, CatAssociative
<1> HIDE DEF q
<1>10. Embeds(Cat(j, Cat(q, u)), wire)
  <2>1. Embeds(Cat(j, Cat(Cat(h, q), u)), wire)
    BY <1>5, <1>8
  <2> QED BY <1>2, <1>8, <2>1, LoseFront
<1>11. Embeds(Cat(j, Cat(p, u)), wire)
  <2>1. Embeds(Cat(j, Cat(p, Cat(l, u))), wire)
    BY <1>9, <1>10
  <2> QED BY <1>2, <1>3, <2>1, LoseNext
<1>12. Cat(j, Cat(p, u)) = Cat(Cat(j, p), u) /\ Cat(<<>>, u) = u
  BY <1>2, <1>3, CatAssociative, CatEmpty
<1> QED BY <1>6, <1>11, <1>12 DEF u

\* A call in STATUS_DATA or STATUS_SPLIT, and one that has used up its bytes, has
\* counted no more than it was given.
LEMMA OnCourse ==
  ASSUME IInv, Consumed, call \in {"data", "info"}, st # "LEN" \/ surplus = 0
  PROVE  /\ processed <= Len(cp)
         /\ processed \in processed .. Len(cp) /\ Len(cp) \in processed .. Len(cp)
<1>1. processed \in Nat /\ Len(cp) \in Nat
  BY PartTypes
<1>2. processed <= Len(cp)
  BY <1>1 DEF Consumed, Astray, IInv, Bookkeeping
<1> QED BY <1>1, <1>2

\* A packet is passed on, with or without an skb for the next.
LEMMA DeliveringConsumed ==
  ASSUME IInv, Consumed, DeliverAlloc \/ DeliverNoSkb
  PROVE  Consumed'
<1>1. Deliver /\ call = "data" /\ st = "DATA"
  BY DEF DeliverAlloc, DeliverNoSkb, Deliver, DataComplete, InData
<1>2. Embeds(Cat(Joined(delivered'), Cat(<<>>, Unread)), wire)
  BY <1>1, DeliverConsumed
<1>3. Skb' = <<>>
  BY DEF DeliverAlloc, DeliverNoSkb, Skb
<1>4. processed <= Len(cp) /\ processed \in processed .. Len(cp)
  BY <1>1, OnCourse
<1>5. CASE DeliverAlloc
  <2>1. UNCHANGED <<line, wire, cp, processed, call>>
    BY <1>5 DEF DeliverAlloc, env
  <2>2. Unread' = Unread /\ Portion' /\ Astray'
    BY <1>4, <2>1, PartTypes DEF Unread, Portion, Astray, Consumed
  <2> QED BY <1>2, <1>3, <2>1, <2>2 DEF Consumed
<1>6. CASE DeliverNoSkb
  <2>1. Return(processed)
    BY <1>6 DEF DeliverNoSkb, DataStore
  <2>2. Portion' /\ Astray' /\ wire' = wire
    BY <1>4, <2>1, ReturnUnread
  <2>3. Unread' = Unread
    <3> DEFINE d == Drop(line, processed)
    <3>1. d \in Seq(Byte)
      BY PartTypes, DropType
    <3>2. line' = d /\ processed' = 0 /\ cp' = <<>> /\ Len(<<>>) = 0
      BY <2>1, EmptySeq DEF Return
    <3> HIDE DEF d
    <3>3. Drop(line', processed') = d
      BY <3>1, <3>2, DropNone
    <3>4. Unread' = d
      BY <3>2, <3>3 DEF Unread
    <3> QED BY <1>4, <3>4 DEF Unread, d
  <2> QED BY <1>2, <1>3, <2>2, <2>3 DEF Consumed
<1> QED BY <1>5, <1>6

\* A call returns at a byte of its portion, having kept the skb or lost its bytes.
LEMMA ReturnConsumed ==
  ASSUME IInv, Consumed, call \in {"data", "info"}, NEW n \in {processed, Len(cp)}, Return(n),
         st # "LEN" \/ surplus = 0, delivered' = delivered, Skb' = Skb \/ Skb' = <<>>
  PROVE  Consumed'
<1>1. processed <= Len(cp) /\ n \in processed .. Len(cp)
  BY OnCourse
<1>2. /\ Portion' /\ Astray' /\ wire' = wire /\ Unread' \in Seq(Byte)
      /\ \E x \in Seq(Byte) : Unread = Cat(x, Unread')
  BY <1>1, ReturnUnread
<1> QED BY <1>2, LosingConsumed

\* The resync of ttyio_receive_data within the skb,
LEMMA SplitInSkbConsumed ==
  ASSUME IInv, Consumed, NEW i \in 1 .. Len(recv_skb), SplitInSkb(i)
  PROVE  Consumed'
<1> DEFINE j == Joined(delivered)
           x == SubSeq(recv_skb, 1, i)
           s == Drop(recv_skb, i)
<1>1. recv_skb \in Seq(Byte) /\ Skb = recv_skb /\ call = "data" /\ st = "SPLIT"
  BY Typed DEF SplitInSkb, InData, IInv, HasSkb, Skb
<1>2. i \in 0 .. Len(recv_skb)
  BY <1>1, LenProperties
<1>3. x \in Seq(Byte) /\ s \in Seq(Byte) /\ Cat(x, s) = recv_skb
  BY <1>1, <1>2, DropCut
<1>4. recv_skb' = s /\ UNCHANGED <<line, wire, delivered, call, cp, processed>>
  BY DEF SplitInSkb, env
<1> HIDE DEF x, s
<1>5. Skb' = s
  BY <1>3, <1>4, HostRxAssumption DEF Skb
<1>6. wire \in Seq(Byte) /\ j \in Seq(Byte) /\ Unread \in Seq(Byte)
  BY PartTypes
<1>7. Joined(delivered)' = j /\ Unread' = Unread
  BY <1>4 DEF Unread
<1>8. Embeds(Cat(j, Cat(Cat(x, s), Unread)), wire)
  BY <1>1, <1>3 DEF Consumed
<1> HIDE DEF j
<1>9. Embeds(Cat(j, Cat(s, Unread)), wire)
  BY <1>3, <1>6, <1>8, LoseFront
<1>10. processed <= Len(cp)
  BY <1>1, OnCourse
<1>11. Portion' /\ Astray'
  BY <1>4, <1>10, PartTypes DEF Portion, Astray, Consumed
<1> QED BY <1>4, <1>5, <1>7, <1>9, <1>11 DEF Consumed

\* and a step of either parser further into its portion.
LEMMA AdvanceConsumed ==
  ASSUME IInv, Consumed, processed <= Len(cp), NEW n \in Nat, Advance(n),
         UNCHANGED <<line, wire, cp, call, delivered>>, call # "none",
         Skb' = Skb \/ Skb' = <<>>, Astray'
  PROVE  Consumed'
<1>1. /\ Unread' \in Seq(Byte) /\ \E x \in Seq(Byte) : Unread = Cat(x, Unread')
  BY AdvanceUnread DEF Advance
<1>2. Portion'
  BY DEF Consumed, Portion
<1> QED BY <1>1, <1>2, LosingConsumed

\* Every step of ttyio_receive_data.
LEMMA DataStepConsumed == ASSUME IInv, Consumed, DataStep PROVE Consumed'
<1>1. CASE DataOverrun
  <2>1. UNCHANGED <<line, wire, delivered, recv_skb, cp, processed>> /\ call' = "fault"
    BY <1>1 DEF DataOverrun, Overrun, env, dev
  <2> QED BY <2>1, SameConsumed DEF Astray
<1>2. CASE DataReadLen \/ DataReject
  <2>1. /\ UNCHANGED <<line, wire, delivered, recv_skb, cp, processed, call>>
        /\ call = "data"
    BY <1>2 DEF DataReadLen, DataReject, DataComplete, InData, env, dev
  <2>2. st = "LEN" => recv_skb # <<>>
    BY <1>2, EmptySeq DEF DataReadLen, DataReject, DataComplete, DataShort, DataMissing
  <2>3. Astray'
    BY <2>1, <2>2 DEF Astray, Consumed
  <2> QED BY <2>1, <2>3, SameConsumed
<1>3. CASE DataExit
  <2>1. /\ call = "data" /\ surplus = 0 /\ Return(processed) /\ delivered' = delivered
        /\ Skb' = Skb
    BY <1>3 DEF DataExit, InData, DataStore, Skb
  <2> QED BY <2>1, ReturnConsumed
<1>4. CASE SplitNowhere
  <2>1. /\ call = "data" /\ st = "SPLIT" /\ Return(Len(cp)) /\ delivered' = delivered
        /\ recv_skb' = <<>>
    BY <1>4 DEF SplitNowhere, InData, DataStore
  <2>2. Skb' = <<>>
    BY <2>1 DEF Skb
  <2> QED BY <2>1, <2>2, ReturnConsumed
<1>5. ASSUME NEW i \in 1 .. Len(cp), SplitInCp(i) PROVE Consumed'
  <2>1. /\ call = "data" /\ st = "SPLIT" /\ recv_skb' = <<>> /\ Advance(i) /\ st' = "LEN"
        /\ UNCHANGED <<line, wire, cp, call, delivered>>
    BY <1>5 DEF SplitInCp, InData, env
  <2>2. Skb' = <<>> /\ Astray'
    BY <2>1 DEF Skb, Astray
  <2>3. processed <= Len(cp) /\ i \in Nat
    BY <2>1, OnCourse, PartTypes
  <2> QED BY <2>1, <2>2, <2>3, AdvanceConsumed
<1> QED
  BY <1>1, <1>2, <1>3, <1>4, <1>5, DataCopyConsumed, DeliveringConsumed, SplitInSkbConsumed
  DEF DataStep

\* Every step of ttyio_netif_info; it leaves the skb alone.
LEMMA InfoStepConsumed == ASSUME IInv, Consumed, InfoStep PROVE Consumed'
<1>1. CASE InfoOverrun
  <2>1. UNCHANGED <<line, wire, delivered, recv_skb, cp, processed>> /\ call' = "fault"
    BY <1>1 DEF InfoOverrun, Overrun, env, dev
  <2> QED BY <2>1, SameConsumed DEF Astray
<1>2. ASSUME NEW status, InInfo, InfoGoto(status), st # "LEN" \/ rlen # 0 PROVE Consumed'
  <2>1. UNCHANGED <<line, wire, delivered, recv_skb, cp, processed, call>> /\ call = "info"
    BY <1>2 DEF InfoGoto, InInfo, env, dev
  <2>2. Astray'
    BY <1>2, <2>1 DEF Astray, Consumed
  <2> QED BY <2>1, <2>2, SameConsumed
<1>3. CASE InfoLenOk \/ InfoLenBad \/ InfoReject
  <2>1. InInfo /\ (st # "LEN" \/ rlen # 0)
    BY <1>3 DEF InfoLenOk, InfoLenBad, InfoReject, InfoHaveLen, InfoComplete, InfoMissing
  <2>2. InfoGoto("DATA") \/ InfoGoto("SPLIT")
    BY <1>3 DEF InfoLenOk, InfoLenBad, InfoReject
  <2> QED BY <1>2, <2>1, <2>2
<1>4. ASSUME NEW s, InInfo, InfoShift(s), st # "LEN" \/ rlen # 0 PROVE Consumed'
  <2>1. UNCHANGED <<line, wire, delivered, recv_skb, cp, processed, call>> /\ call = "info"
    BY <1>4 DEF InfoShift, InInfo, env
  <2>2. Astray'
    BY <1>4, <2>1 DEF Astray, Consumed
  <2> QED BY <2>1, <2>2, SameConsumed
<1>5. ASSUME NEW i \in 1 .. InfoSize, InfoLenRetry(i) \/ InfoSplitInArray(i) PROVE Consumed'
  <2>1. InInfo /\ InfoShift(i - 1) /\ (st # "LEN" \/ rlen # 0)
    BY <1>5 DEF InfoLenRetry, InfoSplitInArray, InfoHaveLen, InfoMissing
  <2> QED BY <1>4, <2>1
<1>6. CASE InfoCopy
  <2> DEFINE k == Least(surplus, InfoMissing)
  <2>1. /\ call = "info" /\ surplus > 0 /\ Advance(k)
        /\ UNCHANGED <<line, wire, cp, call, delivered, recv_skb>>
    BY <1>6 DEF InfoCopy, InInfo, env
  <2>2. InfoMissing \in Int /\ surplus \in Int /\ processed \in Nat /\ Len(cp) \in Nat
    BY Typed DEF InfoMissing, Statuses
  <2>3. k \in Nat /\ k <= surplus
    BY <1>6, <2>2 DEF InfoCopy, Least
  <2>4. processed + k <= Len(cp) /\ processed <= Len(cp)
    BY <2>1, <2>2, <2>3 DEF IInv, Bookkeeping
  <2> HIDE DEF k
  <2>5. Skb' = Skb /\ Astray'
    BY <2>1, <2>2, <2>3, <2>4 DEF Skb, Astray, Advance
  <2> QED BY <2>1, <2>3, <2>4, <2>5, AdvanceConsumed
<1>7. ASSUME NEW i \in 1 .. Len(cp), InfoSplitInCp(i) PROVE Consumed'
  <2>1. /\ call = "info" /\ st = "SPLIT" /\ Advance(i - 1) /\ st' = "LEN" /\ rlen' = 0
        /\ UNCHANGED <<line, wire, cp, call, delivered, recv_skb>>
    BY <1>7 DEF InfoSplitInCp, InInfo, env, dev
  <2>2. Skb' = Skb /\ Astray'
    BY <2>1 DEF Skb, Astray
  <2>3. processed <= Len(cp) /\ i - 1 \in Nat
    BY <2>1, OnCourse, PartTypes
  <2> QED BY <2>1, <2>2, <2>3, AdvanceConsumed
<1>8. CASE InfoExit \/ InfoAccept \/ InfoSplitNowhere
  <2>1. /\ call = "info" /\ (Return(processed) \/ Return(Len(cp)))
        /\ UNCHANGED <<delivered, recv_skb>> /\ (st # "LEN" \/ surplus = 0)
    BY <1>8 DEF InfoExit, InfoAccept, InfoSplitNowhere, InfoStore, InfoComplete, InInfo
  <2>2. Skb' = Skb
    BY <2>1 DEF Skb
  <2> QED BY <2>1, <2>2, ReturnConsumed
<1> QED BY <1>1, <1>3, <1>5, <1>6, <1>7, <1>8 DEF InfoStep

\* At the start nothing was passed on and nothing was on the line.
LEMMA ConsumedInitially == Init => Consumed
<1> SUFFICES ASSUME Init PROVE Consumed
  OBVIOUS
<1>1. Joined(delivered) = <<>> /\ Skb = <<>> /\ wire = <<>> /\ line = <<>> /\ cp = <<>>
      /\ processed = 0 /\ Len(<<>>) = 0
  BY JoinedEmpty, EmptySeq DEF Init, Skb
<1>2. <<>> \in Seq(Byte)
  BY EmptySeq
<1>3. Unread = <<>>
  <2>1. Drop(<<>>, 0) = <<>>
    BY <1>2, DropNone
  <2> QED BY <1>1, <2>1 DEF Unread
<1>4. Cat(<<>>, Cat(<<>>, <<>>)) = <<>>
  BY <1>2, CatEmpty
<1>5. Embeds(<<>>, <<>>)
  BY <1>2, EmptyEmbeds
<1>6. Portion /\ Astray
  BY <1>1 DEF Portion, Astray, Starts
<1> QED BY <1>1, <1>3, <1>4, <1>5, <1>6 DEF Consumed

\* Every step keeps Consumed.
LEMMA NextConsumed == IInv /\ Consumed /\ [Next]_vars => Consumed'
<1> SUFFICES ASSUME IInv, Consumed, [Next]_vars PROVE Consumed'
  OBVIOUS
<1>1. CASE UNCHANGED vars
  <2>1. UNCHANGED <<line, wire, delivered, recv_skb, cp, processed, call, st, rlen>>
    BY <1>1 DEF vars, env, dev, locals
  <2>2. Astray'
    BY <2>1 DEF Consumed, Astray
  <2> QED BY <2>1, <2>2, SameConsumed
<1>2. CASE Attach \/ EnterNoSkb
  <2>1. UNCHANGED <<line, wire, delivered, recv_skb, cp, processed, call, st, rlen>>
    BY <1>2 DEF Attach, EnterNoSkb, env, dev, locals
  <2>2. Astray'
    BY <2>1 DEF Consumed, Astray
  <2> QED BY <2>1, <2>2, SameConsumed
<1>3. CASE ReceiveBuf2
  BY <1>2, <1>3, UnattachedConsumed, EnterConsumed DEF ReceiveBuf2
<1> QED
  BY <1>1, <1>2, <1>3, LineConsumed, LinkResetConsumed, DataStepConsumed, InfoStepConsumed
  DEF Next

\* Whatever the line inserts, whenever the link work resets the station, however
\* the tty cuts the bytes into calls and whatever allocation fails, the packets
\* passed to the stack with their true length are bytes of the line in their order,
\* none of them twice: the resync of ttyio_receive_data only ever loses bytes, also
\* when it counts more of them than it was given.  (SessionSafe: until a link reset
\* there is no packet with another length.)
THEOREM NothingTwice == Spec => []DeliveredOnce
<1>1. IInv /\ Consumed => DeliveredOnce
  <2> SUFFICES ASSUME IInv, Consumed PROVE IsSubsequence(Joined(delivered), wire)
    BY DEF DeliveredOnce
  <2> DEFINE j == Joined(delivered)
             a == Cat(Skb, Unread)
             e == <<>>
  <2>1. /\ wire \in Seq(Byte) /\ j \in Seq(Byte) /\ Skb \in Seq(Byte) /\ Unread \in Seq(Byte)
    BY PartTypes
  <2>2. a \in Seq(Byte) /\ Embeds(Cat(j, a), wire) /\ e \in Seq(Byte)
    BY <2>1, CatType, EmptySeq DEF Consumed
  <2> HIDE DEF j, a, e
  <2>3. Cat(a, e) = a /\ Cat(j, e) = j
    BY <2>1, <2>2, CatEmpty DEF e
  <2>4. Embeds(Cat(j, Cat(a, e)), wire)
    BY <2>2, <2>3
  <2>5. Embeds(j, wire)
    BY <2>1, <2>2, <2>3, <2>4, EmbedsWithout
  <2>6. IsSubsequence(j, wire)
    BY <2>1, <2>5, EmbedsFound
  <2> QED BY <2>6 DEF j
<1> QED
  BY <1>1, InitIInv, NextIInv, ConsumedInitially, NextConsumed, PTL DEF Spec
=============================================================================
