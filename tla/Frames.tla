------------------------------- MODULE Frames -------------------------------
(***************************************************************************)
(* The serial frame both ends exchange, [2 byte data_len][n byte data]     *)
(* [1 byte split], and the byte-level helpers of its four receivers.       *)
(* Buffers are 1-based sequences: the code's buf[k] is buf[k + 1] here.    *)
(* The numeric limits are parameters, so that TLC explores small frames    *)
(* and the theorems cover the real ones.                                   *)
(***************************************************************************)
EXTENDS Integers, Sequences

CONSTANTS
  SPLIT_DATA,    \* 0x55: ends a data frame
  SPLIT_CMD,     \* 0xaa: ends an ssid, password or netif_info frame
  MTU_LEN,       \* 1500: the longest data frame payload
  MIN_DATA_LEN,  \* 20: the shortest one, an IPv4 header
  INFO_LEN       \* 12: the netif_info payload (address, netmask, gateway)

Byte == 0 .. 255

\* The limits fit the signed 16-bit length field; a payload is not empty.
ASSUME FrameAssumption ==
  /\ SPLIT_DATA \in Byte /\ SPLIT_CMD \in Byte /\ SPLIT_DATA # SPLIT_CMD
  /\ MTU_LEN \in Nat /\ MTU_LEN <= 32764
  /\ MIN_DATA_LEN \in 1 .. MTU_LEN
  /\ INFO_LEN \in 1 .. MTU_LEN /\ INFO_LEN \in Byte

MAX_FRAME_LEN == 2 + MTU_LEN + 1

\* *(int16_t *)p on a little-endian machine.
Int16(lo, hi) ==
  LET u == lo + 256 * hi IN IF u >= 32768 THEN u - 65536 ELSE u

\* The length field at the start of a buffer that holds at least two bytes.
FrameLen(buf) == Int16(buf[1], buf[2])

\* Payload, one byte early.
PayloadOneEarly(buf, n) == SubSeq(buf, 2, n + 1)

\* The payload of a frame of length n at the start of a buffer.
Payload(buf, n) == SubSeq(buf, 3, n + 2)

\* The wire form of a payload.
Frame(data, split) ==
  <<Len(data) % 256, Len(data) \div 256>> \o data \o <<split>>

\* The bytes of the data frames of a sequence of packets.
DataBytes(ps) ==
  LET bytes[n \in 0 .. Len(ps)] ==
        IF n = 0 THEN <<>> ELSE bytes[n - 1] \o Frame(ps[n], SPLIT_DATA)
  IN bytes[Len(ps)]

\* memmove(buf, buf + n, len - n).
Drop(buf, n) == SubSeq(buf, n + 1, Len(buf))

\* i is the first position of byte b in buf at or after position `from'.
FirstAt(buf, b, from, i) ==
  /\ i \in from .. Len(buf)
  /\ buf[i] = b
  /\ \A j \in from .. (i - 1) : buf[j] # b

\* b does not occur in buf at or after position `from'.
Absent(buf, b, from) == \A j \in from .. Len(buf) : buf[j] # b
=============================================================================
