---------------------------- MODULE FramesProofs ----------------------------
(***************************************************************************)
(* Facts about the byte-level helpers of Frames, for buffers of any length.*)
(***************************************************************************)
EXTENDS Frames, InductionProofs

\* Drop, the memmove of every receiver, removes exactly n bytes.
LEMMA DropProperties ==
  ASSUME NEW s \in Seq(Byte), NEW n \in 0 .. Len(s)
  PROVE  Drop(s, n) \in Seq(Byte) /\ Len(Drop(s, n)) = Len(s) - n
<1>1. \A i \in (n + 1) .. Len(s) : s[i] \in Byte
  BY ElementOfSeq
<1>2. n + 1 \in Int /\ Len(s) \in Int
  BY LenProperties
<1>3. /\ SubSeq(s, n + 1, Len(s)) \in Seq(Byte)
      /\ Len(SubSeq(s, n + 1, Len(s))) =
           IF n + 1 <= Len(s) THEN Len(s) - (n + 1) + 1 ELSE 0
  BY <1>1, <1>2, SubSeqProperties
<1> QED
  BY <1>3, LenProperties DEF Drop

\* Payload(b, n) is a packet when a whole frame of length n is in b.
LEMMA PayloadType ==
  ASSUME NEW b \in Seq(Byte), NEW n \in Nat, n + 3 <= Len(b)
  PROVE  Payload(b, n) \in Seq(Byte)
<1>1. \A i \in 3 .. (n + 2) : b[i] \in Byte
  BY ElementOfSeq, LenProperties
<1> QED
  BY <1>1, SubSeqProperties DEF Payload

\* The length field of a non-empty buffer is a 16-bit integer.
LEMMA FrameLenType ==
  ASSUME NEW b \in Seq(Byte), Len(b) >= 2
  PROVE  FrameLen(b) \in Int
<1>1. b[1] \in Byte /\ b[2] \in Byte
  BY ElementOfSeq, LenProperties
<1>2. \A lo, hi \in 0 .. 255 : Int16(lo, hi) \in Int
  BY DEF Int16
<1> QED
  BY <1>1, <1>2 DEF FrameLen, Byte

\* Drop of more bytes than there are leaves none.
LEMMA DropType ==
  ASSUME NEW s \in Seq(Byte), NEW n \in Nat
  PROVE  Drop(s, n) \in Seq(Byte)
<1>1. \A i \in (n + 1) .. Len(s) : s[i] \in Byte
  BY ElementOfSeq, LenProperties
<1>2. n + 1 \in Int /\ Len(s) \in Int
  BY LenProperties
<1> QED
  BY <1>1, <1>2, SubSeqProperties DEF Drop

\* The first n bytes of a buffer.
LEMMA TakeProperties ==
  ASSUME NEW s \in Seq(Byte), NEW m \in Nat, NEW k \in Nat, m + k <= Len(s)
  PROVE  /\ SubSeq(s, m + 1, m + k) \in Seq(Byte)
         /\ Len(SubSeq(s, m + 1, m + k)) = k
<1>1. \A i \in (m + 1) .. (m + k) : s[i] \in Byte
  BY ElementOfSeq, LenProperties
<1>2. m + 1 \in Int /\ m + k \in Int
  OBVIOUS
<1>3. /\ SubSeq(s, m + 1, m + k) \in Seq(Byte)
      /\ Len(SubSeq(s, m + 1, m + k)) =
           IF m + 1 <= m + k THEN (m + k) - (m + 1) + 1 ELSE 0
  BY <1>1, <1>2, SubSeqProperties
<1> QED
  BY <1>3

\* The two bytes of a length field.
LEMMA LengthBytes ==
  ASSUME NEW n \in Nat, n <= 32764
  PROVE  n % 256 \in 0 .. 255 /\ n \div 256 \in 0 .. 255
<1>1. n % 256 \in 0 .. 255
  OBVIOUS
<1>2. n \div 256 \in Int /\ n = 256 * (n \div 256) + (n % 256)
  OBVIOUS
<1> QED
  BY <1>1, <1>2

\* A frame on the wire is a sequence of bytes when its payload is.
LEMMA FrameType ==
  ASSUME NEW d \in Seq(Byte), Len(d) <= MTU_LEN, NEW b \in Byte
  PROVE  Frame(d, b) \in Seq(Byte)
<1> DEFINE n == Len(d)
<1>1. n \in Nat /\ n <= 32764
  BY LenProperties, FrameAssumption
<1> HIDE DEF n
<1>2. n % 256 \in 0 .. 255 /\ n \div 256 \in 0 .. 255
  BY <1>1, LengthBytes
<1>3. <<n % 256, n \div 256>> \in Seq(Byte) /\ <<b>> \in Seq(Byte)
  BY <1>2 DEF Byte
<1>4. <<n % 256, n \div 256>> \o d \in Seq(Byte)
  BY <1>3, ConcatProperties
<1>5. (<<n % 256, n \div 256>> \o d) \o <<b>> \in Seq(Byte)
  BY <1>3, <1>4, ConcatProperties
<1> QED
  BY <1>5 DEF Frame, n

\* What a data frame can carry.
Sendable == { d \in Seq(Byte) : Len(d) \in 1 .. MTU_LEN }

\* A frame is three bytes longer than its payload.
LEMMA FrameSize ==
  ASSUME NEW d \in Seq(Byte), Len(d) <= MTU_LEN, NEW b \in Byte
  PROVE  Frame(d, b) \in Seq(Byte) /\ Len(Frame(d, b)) = Len(d) + 3
<1> DEFINE n == Len(d)
           a == <<n % 256, n \div 256>>
           z == <<b>>
<1>1. n \in Nat /\ n <= 32764
  BY LenProperties, FrameAssumption
<1> HIDE DEF n
<1>2. n % 256 \in 0 .. 255 /\ n \div 256 \in 0 .. 255
  BY <1>1, LengthBytes
<1>3. a \in Seq(Byte) /\ Len(a) = 2 /\ z \in Seq(Byte) /\ Len(z) = 1
  BY <1>2 DEF Byte
<1>4. Frame(d, b) = (a \o d) \o z
  BY DEF Frame, n
<1> HIDE DEF a, z
<1>5. a \o d \in Seq(Byte) /\ Len(a \o d) = Len(a) + n
  BY <1>3, ConcatProperties, Zenon DEF n
<1>6. /\ (a \o d) \o z \in Seq(Byte)
      /\ Len((a \o d) \o z) = Len(a \o d) + Len(z)
  BY <1>3, <1>5, ConcatProperties, Zenon
<1>7. Len((a \o d) \o z) = n + 3
  BY <1>1, <1>3, <1>5, <1>6
<1> QED BY <1>4, <1>6, <1>7 DEF n

\* The data frame of a packet that can be sent.
LEMMA DataFrame ==
  ASSUME NEW d \in Sendable
  PROVE  /\ d \in Seq(Byte) /\ Len(d) \in Nat /\ Len(d) >= 1 /\ Len(d) <= MTU_LEN
         /\ Frame(d, SPLIT_DATA) \in Seq(Byte) /\ Len(Frame(d, SPLIT_DATA)) = Len(d) + 3
<1>1. d \in Seq(Byte) /\ Len(d) \in Nat /\ Len(d) >= 1 /\ Len(d) <= MTU_LEN
  BY FrameAssumption DEF Sendable
<1> QED BY <1>1, FrameSize, FrameAssumption

PacketSeq == Seq(Sendable)

-----------------------------------------------------------------------------
(* DataBytes.                                                              *)

\* f holds the bytes of the frames of the first n packets of ps.
PrefixBytes(ps, f) ==
  /\ f \in [0 .. Len(ps) -> Seq(Byte)]
  /\ f[0] = <<>>
  /\ \A n \in 1 .. Len(ps) : f[n] = f[n - 1] \o Frame(ps[n], SPLIT_DATA)

\* The recursion in DataBytes has a solution, and DataBytes is its last value.
LEMMA DataBytesPrefix ==
  ASSUME NEW ps \in PacketSeq
  PROVE  \E f : PrefixBytes(ps, f) /\ DataBytes(ps) = f[Len(ps)]
<1> DEFINE N == Len(ps)
           e == <<>>
           B == Seq(Byte)
           K(v, n) == v \o Frame(ps[n], SPLIT_DATA)
           h == [n \in 1 .. N |-> [v \in B |-> K(v, n)]]
           Rec(f) == f = [n \in 0 .. N |-> IF n = 0 THEN e ELSE K(f[n - 1], n)]
           c == CHOOSE f : Rec(f)
<1>1. N \in Nat /\ e \in B
  BY EmptySeq, LenProperties DEF PacketSeq
<1>2. \A n \in 1 .. N : \A v \in B : K(v, n) \in B
  <2> TAKE n \in 1 .. N
  <2>1. ps[n] \in Sendable
    BY ElementOfSeq DEF PacketSeq
  <2>2. Frame(ps[n], SPLIT_DATA) \in Seq(Byte)
    BY <2>1, DataFrame
  <2> QED BY <2>2, ConcatProperties
<1>3. DataBytes(ps) = c[N]
  BY DEF DataBytes
<1>4. c \in [0 .. N -> B] /\ c[0] = e /\ \A n \in 1 .. N : c[n] = K(c[n - 1], n)
  <2> HIDE DEF N, e, B, K
  <2>1. h \in [1 .. N -> [B -> B]]
    BY <1>2
  <2>2. PICK g \in [0 .. N -> B] :
          g = [n \in 0 .. N |-> IF n = 0 THEN e ELSE h[n][g[n - 1]]]
    <3> HIDE DEF h
    <3>1. \E g : Recurs(B, e, N, h, g)
      BY <1>1, <2>1, RecursionExists
    <3> QED BY <3>1 DEF Recurs
  <2>3. \A n \in 1 .. N : g[n - 1] \in B /\ h[n][g[n - 1]] = K(g[n - 1], n)
    BY <1>1
  <2>4. Rec(g)
    <3> HIDE DEF h
    <3> QED BY <1>1, <2>2, <2>3
  <2>5. Rec(c)
    BY <2>4
  <2> HIDE DEF c
  <2>6. /\ DOMAIN c = 0 .. N /\ c = [n \in 0 .. N |-> c[n]]
        /\ c[0] = e /\ \A n \in 1 .. N : c[n] = K(c[n - 1], n)
    BY <1>1, <2>5
  <2>7. \A n \in 0 .. N : c[n] \in B
    <3> DEFINE S == { n \in Nat : n <= N => c[n] \in B }
    <3>1. 0 \in S
      BY <1>1, <2>6
    <3>2. ASSUME NEW n \in Nat, n \in S PROVE n + 1 \in S
      <4> SUFFICES ASSUME n + 1 <= N PROVE c[n + 1] \in B
        OBVIOUS
      <4>1. n <= N /\ n + 1 \in 1 .. N /\ (n + 1) - 1 = n
        BY <1>1
      <4>2. c[n] \in B
        BY <3>2, <4>1
      <4>3. c[n + 1] = K(c[(n + 1) - 1], n + 1)
        BY <2>6, <4>1, Zenon
      <4>4. c[n + 1] = K(c[n], n + 1)
        BY <4>1, <4>3, Zenon
      <4> QED BY <1>2, <4>1, <4>2, <4>4, Zenon
    <3> HIDE DEF S
    <3>3. \A n \in Nat : n \in S
      BY <3>1, <3>2, SetInduction
    <3> QED BY <1>1, <3>3 DEF S
  <2> QED BY <2>6, <2>7
<1>5. PrefixBytes(ps, c)
  <2> HIDE DEF c
  <2> QED BY <1>4 DEF PrefixBytes
<1> HIDE DEF c
<1> QED BY <1>3, <1>5

\* Two solutions for sequences with a common prefix agree on it.
LEMMA PrefixBytesAgree ==
  ASSUME NEW ps \in PacketSeq, NEW qs \in PacketSeq, NEW f, NEW g,
         PrefixBytes(ps, f), PrefixBytes(qs, g),
         NEW m \in 0 .. Len(ps), m <= Len(qs), \A i \in 1 .. m : ps[i] = qs[i]
  PROVE  \A n \in 0 .. m : f[n] = g[n]
<1> DEFINE S == { n \in Nat : n <= m => f[n] = g[n] }
<1>0. m \in Nat /\ Len(ps) \in Nat /\ Len(qs) \in Nat
  BY LenProperties
<1>1. 0 \in S
  BY DEF PrefixBytes
<1>2. ASSUME NEW n \in Nat, n \in S PROVE n + 1 \in S
  <2> SUFFICES ASSUME n + 1 <= m PROVE f[n + 1] = g[n + 1]
    OBVIOUS
  <2>1. n + 1 \in 1 .. Len(ps) /\ n + 1 \in 1 .. Len(qs) /\ n + 1 \in 1 .. m
        /\ (n + 1) - 1 = n /\ n <= m
    BY <1>0
  <2>2. f[n] = g[n]
    BY <1>2, <2>1
  <2>3. f[n + 1] = f[(n + 1) - 1] \o Frame(ps[n + 1], SPLIT_DATA)
    BY <2>1, Zenon DEF PrefixBytes
  <2>4. g[n + 1] = g[(n + 1) - 1] \o Frame(qs[n + 1], SPLIT_DATA)
    BY <2>1, Zenon DEF PrefixBytes
  <2>5. ps[n + 1] = qs[n + 1]
    BY <2>1
  <2> QED BY <2>1, <2>2, <2>3, <2>4, <2>5, Zenon
<1> HIDE DEF S
<1>3. \A n \in Nat : n \in S
  BY <1>1, <1>2, SetInduction
<1> QED BY <1>0, <1>3 DEF S

\* DataBytes of no packet, of one packet more, and of all but the first.
LEMMA DataBytesType ==
  ASSUME NEW ps \in PacketSeq
  PROVE  DataBytes(ps) \in Seq(Byte)
<1>1. PICK f : PrefixBytes(ps, f) /\ DataBytes(ps) = f[Len(ps)]
  BY DataBytesPrefix
<1>2. Len(ps) \in 0 .. Len(ps)
  BY LenProperties
<1> QED BY <1>1, <1>2 DEF PrefixBytes

\* No packet, no byte.
LEMMA DataBytesEmpty == DataBytes(<<>>) = <<>>
<1>1. <<>> \in PacketSeq /\ Len(<<>>) = 0
  BY EmptySeq DEF PacketSeq
<1>2. PICK f : PrefixBytes(<<>>, f) /\ DataBytes(<<>>) = f[Len(<<>>)]
  BY <1>1, DataBytesPrefix
<1>3. f[0] = <<>>
  BY <1>2, Zenon DEF PrefixBytes
<1> QED BY <1>1, <1>2, <1>3, Zenon

\* One packet more is one frame more behind the others.
LEMMA DataBytesAppend ==
  ASSUME NEW ps \in PacketSeq, NEW p \in Sendable
  PROVE  DataBytes(Append(ps, p)) = Cat(DataBytes(ps), Frame(p, SPLIT_DATA))
<1> DEFINE qs == Append(ps, p)
           N == Len(ps)
<1>1. N \in Nat /\ qs \in PacketSeq /\ Len(qs) = N + 1 /\ qs[N + 1] = p
      /\ \A i \in 1 .. N : qs[i] = ps[i]
  BY AppendProperties, LenProperties DEF PacketSeq
<1> HIDE DEF qs
<1>2. PICK f : PrefixBytes(ps, f) /\ DataBytes(ps) = f[N]
  BY DataBytesPrefix
<1>3. PICK g : PrefixBytes(qs, g) /\ DataBytes(qs) = g[Len(qs)]
  BY <1>1, DataBytesPrefix
<1> HIDE DEF N
<1>4. f[N] = g[N]
  <2>1. N \in 0 .. Len(ps) /\ N <= Len(qs) /\ \A i \in 1 .. N : ps[i] = qs[i]
    BY <1>1 DEF N
  <2>2. \A n \in 0 .. N : f[n] = g[n]
    BY <1>1, <1>2, <1>3, <2>1, PrefixBytesAgree
  <2> QED BY <1>1, <2>2
<1>5. N + 1 \in 1 .. Len(qs) /\ (N + 1) - 1 = N
  BY <1>1
<1>6. g[N + 1] = g[(N + 1) - 1] \o Frame(qs[N + 1], SPLIT_DATA)
  BY <1>3, <1>5, Zenon DEF PrefixBytes
<1>7. DataBytes(qs) = DataBytes(ps) \o Frame(p, SPLIT_DATA)
  BY <1>1, <1>2, <1>3, <1>4, <1>5, <1>6, Zenon
<1> QED BY <1>7 DEF qs, Cat

\* The first packet's frame is in front of the others.
LEMMA DataBytesTail ==
  ASSUME NEW ps \in PacketSeq, ps # <<>>
  PROVE  DataBytes(ps) = Cat(Frame(Head(ps), SPLIT_DATA), DataBytes(Tail(ps)))
<1> DEFINE ts == Tail(ps)
           N == Len(ts)
           F == Frame(Head(ps), SPLIT_DATA)
<1>1. /\ N \in Nat /\ ts \in PacketSeq /\ Len(ps) = N + 1 /\ ps[1] = Head(ps)
      /\ \A i \in 1 .. N : ts[i] = ps[i + 1]
      /\ ps[1] \in Sendable
  BY HeadTailProperties, LenProperties, EmptySeq DEF PacketSeq
<1>2. F \in Seq(Byte)
  BY <1>1, DataFrame
<1>3. PICK f : PrefixBytes(ps, f) /\ DataBytes(ps) = f[Len(ps)]
  BY DataBytesPrefix
<1> HIDE DEF ts
<1>4. PICK g : PrefixBytes(ts, g) /\ DataBytes(ts) = g[N]
  BY <1>1, DataBytesPrefix
<1> DEFINE S == { n \in Nat : n <= N => f[n + 1] = F \o g[n] }
<1>5. 0 \in S
  <2>1. 1 \in 1 .. Len(ps) /\ 1 - 1 = 0
    BY <1>1
  <2>2. f[1] = f[1 - 1] \o Frame(ps[1], SPLIT_DATA)
    BY <1>3, <2>1, Zenon DEF PrefixBytes
  <2>3. f[1] = <<>> \o F
    BY <1>1, <1>3, <2>1, <2>2, Zenon DEF PrefixBytes
  <2>4. F \o g[0] = F \o <<>>
    BY <1>4, Zenon DEF PrefixBytes
  <2> HIDE DEF F
  <2>5. f[0 + 1] = F \o g[0]
    BY <1>2, <2>3, <2>4, ConcatEmptySeq
  <2> QED BY <2>5
<1>6. ASSUME NEW n \in Nat, n \in S PROVE n + 1 \in S
  <2> HIDE DEF F, N
  <2> SUFFICES ASSUME n + 1 <= N PROVE f[(n + 1) + 1] = F \o g[n + 1]
    OBVIOUS
  <2>1. /\ n <= N /\ n + 1 \in 1 .. N /\ (n + 1) - 1 = n /\ n \in 0 .. N
        /\ (n + 1) + 1 \in 1 .. Len(ps) /\ ((n + 1) + 1) - 1 = n + 1
    BY <1>1
  <2>2. f[n + 1] = F \o g[n]
    BY <1>6, <2>1
  <2> DEFINE E == Frame(ts[n + 1], SPLIT_DATA)
  <2>3. ts[n + 1] = ps[(n + 1) + 1] /\ ts[n + 1] \in Sendable /\ n + 1 \in 1 .. Len(ts)
    BY <1>1, <2>1, ElementOfSeq DEF N, PacketSeq
  <2>4. E \in Seq(Byte)
    BY <2>3, DataFrame
  <2>5. f[(n + 1) + 1] = f[((n + 1) + 1) - 1] \o Frame(ps[(n + 1) + 1], SPLIT_DATA)
    BY <1>3, <2>1, Zenon DEF PrefixBytes
  <2>6. g[n + 1] = g[(n + 1) - 1] \o E
    BY <1>4, <2>3, Zenon DEF PrefixBytes
  <2>7. f[(n + 1) + 1] = (F \o g[n]) \o E /\ g[n + 1] = g[n] \o E
    BY <2>1, <2>2, <2>3, <2>5, <2>6, Zenon
  <2> DEFINE G == g[n]
  <2>8. G \in Seq(Byte)
    BY <1>4, <2>1 DEF PrefixBytes, N
  <2> HIDE DEF E, G
  <2>9. (F \o G) \o E = F \o (G \o E)
    BY <1>2, <2>4, <2>8, ConcatAssociative
  <2> QED BY <2>7, <2>9, Zenon DEF G
<1> HIDE DEF S
<1>7. \A n \in Nat : n \in S
  BY <1>5, <1>6, SetInduction
<1>8. f[N + 1] = F \o g[N]
  <2> HIDE DEF F, N
  <2>1. N \in S /\ N <= N
    BY <1>1, <1>7
  <2> QED BY <2>1, Zenon DEF S
<1>9. DataBytes(ps) = F \o DataBytes(ts)
  BY <1>1, <1>3, <1>4, <1>8, Zenon
<1> QED BY <1>9 DEF ts, Cat

-----------------------------------------------------------------------------
(* Prefixes, and the bytes of a frame.                                     *)

\* s is a prefix of t.
Starts(s, t) == Len(s) <= Len(t) /\ \A i \in 1 .. Len(s) : t[i] = s[i]

\* A concatenation starts with its first part, and the second follows.
LEMMA StartsCat ==
  ASSUME NEW S, NEW s \in Seq(S), NEW t \in Seq(S)
  PROVE  /\ Starts(s, Cat(s, t))
         /\ \A i \in 1 .. Len(t) : Cat(s, t)[Len(s) + i] = t[i]
<1>1. /\ Len(s) \in Nat /\ Len(t) \in Nat /\ Len(s \o t) = Len(s) + Len(t)
      /\ \A i \in 1 .. Len(s) + Len(t) :
           (s \o t)[i] = IF i <= Len(s) THEN s[i] ELSE t[i - Len(s)]
  BY LenProperties, ConcatProperties
<1>2. \A i \in 1 .. Len(s) : (s \o t)[i] = s[i]
  BY <1>1
<1>3. ASSUME NEW i \in 1 .. Len(t) PROVE (s \o t)[Len(s) + i] = t[i]
  <2>1. /\ Len(s) + i \in 1 .. Len(s) + Len(t) /\ ~ (Len(s) + i <= Len(s))
        /\ (Len(s) + i) - Len(s) = i
    BY <1>1
  <2> QED BY <1>1, <2>1
<1> QED BY <1>1, <1>2, <1>3 DEF Starts, Cat

\* A prefix of a prefix is a prefix.
LEMMA StartsTransitive ==
  ASSUME NEW S, NEW s \in Seq(S), NEW t \in Seq(S), NEW u \in Seq(S),
         Starts(s, t), Starts(t, u)
  PROVE  Starts(s, u)
<1>1. Len(s) \in Nat /\ Len(t) \in Nat /\ Len(u) \in Nat
  BY LenProperties
<1> QED BY <1>1 DEF Starts

\* The bytes of a frame, by position.
LEMMA AnyFrameBytes ==
  ASSUME NEW d \in Sendable, NEW b \in Byte
  PROVE  /\ Frame(d, b) \in Seq(Byte) /\ Len(Frame(d, b)) = Len(d) + 3
         /\ Frame(d, b)[1] = Len(d) % 256
         /\ Frame(d, b)[2] = Len(d) \div 256
         /\ \A i \in 1 .. Len(d) : Frame(d, b)[2 + i] = d[i]
         /\ Frame(d, b)[Len(d) + 3] = b
<1> DEFINE n == Len(d)
           a == <<n % 256, n \div 256>>
           z == <<b>>
<1>1. d \in Seq(Byte) /\ n \in Nat /\ n <= 32764 /\ n <= MTU_LEN
  BY DataFrame, FrameAssumption
<1> HIDE DEF n
<1>2. n % 256 \in 0 .. 255 /\ n \div 256 \in 0 .. 255
  BY <1>1, LengthBytes
<1>3. /\ a \in Seq(Byte) /\ Len(a) = 2 /\ z \in Seq(Byte) /\ Len(z) = 1 /\ z[1] = b
      /\ a[1] = n % 256 /\ a[2] = n \div 256
  BY <1>2 DEF Byte
<1>4. Frame(d, b) = Cat(Cat(a, d), z)
  BY DEF Frame, n, Cat
<1> HIDE DEF a, z
<1>5. /\ Cat(a, d) \in Seq(Byte) /\ Len(Cat(a, d)) = 2 + n
      /\ Starts(a, Cat(a, d)) /\ \A i \in 1 .. n : Cat(a, d)[2 + i] = d[i]
  <2>0. a \in Seq(Byte) /\ d \in Seq(Byte)
    BY <1>1, <1>3
  <2>1. Cat(a, d) \in Seq(Byte) /\ Len(Cat(a, d)) = Len(a) + Len(d)
    BY <2>0, CatType
  <2>2. Starts(a, Cat(a, d)) /\ \A i \in 1 .. Len(d) : Cat(a, d)[Len(a) + i] = d[i]
    BY <2>0, StartsCat
  <2>3. Len(a) = 2 /\ Len(d) = n
    BY <1>3 DEF n
  <2> QED BY <2>1, <2>2, <2>3
<1>6. /\ Starts(Cat(a, d), Cat(Cat(a, d), z))
      /\ \A i \in 1 .. Len(z) : Cat(Cat(a, d), z)[Len(Cat(a, d)) + i] = z[i]
  BY <1>3, <1>5, StartsCat
<1> DEFINE c == Cat(a, d)
           g == Cat(c, z)
<1>7. /\ Len(c) = 2 + n /\ c[1] = n % 256 /\ c[2] = n \div 256
      /\ \A i \in 1 .. n : c[2 + i] = d[i]
  <2>1. 1 \in 1 .. Len(a) /\ 2 \in 1 .. Len(a)
    BY <1>3
  <2> QED BY <1>3, <1>5, <2>1 DEF Starts
<1>8. \A i \in 1 .. 2 + n : g[i] = c[i]
  BY <1>6, <1>7 DEF Starts
<1>10. g[n + 3] = b
  <2>1. 1 \in 1 .. Len(z)
    BY <1>3
  <2>2. g[Len(c) + 1] = z[1]
    BY <1>6, <2>1
  <2>3. Len(c) + 1 = n + 3
    BY <1>1, <1>7
  <2> HIDE DEF c, g
  <2> QED BY <1>3, <2>2, <2>3
<1> HIDE DEF c, g
<1>9. g[1] = n % 256 /\ g[2] = n \div 256 /\ \A i \in 1 .. n : g[2 + i] = d[i]
  BY <1>1, <1>7, <1>8
<1>11. Frame(d, b) \in Seq(Byte) /\ Len(Frame(d, b)) = n + 3
  BY <1>1, FrameSize DEF n
<1> QED BY <1>4, <1>9, <1>10, <1>11 DEF c, g, n

\* The bytes of a data frame, by position.
LEMMA FrameBytes ==
  ASSUME NEW d \in Sendable
  PROVE  /\ Frame(d, SPLIT_DATA)[1] = Len(d) % 256
         /\ Frame(d, SPLIT_DATA)[2] = Len(d) \div 256
         /\ \A i \in 1 .. Len(d) : Frame(d, SPLIT_DATA)[2 + i] = d[i]
BY AnyFrameBytes, FrameAssumption

\* The length field is read as it was written.
LEMMA LengthRead ==
  ASSUME NEW n \in Nat, n <= 32764
  PROVE  Int16(n % 256, n \div 256) = n
<1>1. n % 256 \in 0 .. 255 /\ n \div 256 \in Int /\ n = (n % 256) + 256 * (n \div 256)
  OBVIOUS
<1> QED BY <1>1 DEF Int16

-----------------------------------------------------------------------------
(* Taking bytes off the front of a buffer.                                 *)

\* Equal concatenations with fronts of equal length agree part by part.
LEMMA CatCancel ==
  ASSUME NEW S, NEW s \in Seq(S), NEW q \in Seq(S), NEW a \in Seq(S), NEW b \in Seq(S),
         Cat(s, q) = Cat(a, b), Len(s) = Len(a)
  PROVE  s = a /\ q = b
<1>0. Len(s) \in Nat /\ Len(q) \in Nat /\ Len(a) \in Nat /\ Len(b) \in Nat
  BY LenProperties
<1>1. Len(Cat(s, q)) = Len(s) + Len(q) /\ Len(Cat(a, b)) = Len(a) + Len(b)
  BY CatType
<1>2. Len(q) = Len(b)
  BY <1>0, <1>1
<1>3. /\ Starts(s, Cat(s, q)) /\ \A i \in 1 .. Len(q) : Cat(s, q)[Len(s) + i] = q[i]
      /\ Starts(a, Cat(a, b)) /\ \A i \in 1 .. Len(b) : Cat(a, b)[Len(a) + i] = b[i]
  BY StartsCat
<1>4. \A i \in 1 .. Len(s) : s[i] = a[i]
  BY <1>3 DEF Starts
<1>5. \A i \in 1 .. Len(q) : q[i] = b[i]
  BY <1>2, <1>3
<1> QED BY <1>2, <1>4, <1>5, SeqEqual

\* A buffer is what Drop removes and what it leaves.
LEMMA DropCut ==
  ASSUME NEW S, NEW s \in Seq(S), NEW n \in 0 .. Len(s)
  PROVE  /\ Drop(s, n) \in Seq(S) /\ Len(Drop(s, n)) = Len(s) - n
         /\ SubSeq(s, 1, n) \in Seq(S) /\ Len(SubSeq(s, 1, n)) = n
         /\ Cat(SubSeq(s, 1, n), Drop(s, n)) = s
BY CutAt DEF Drop

\* Drop of no byte leaves the buffer alone.
LEMMA DropNone ==
  ASSUME NEW S, NEW s \in Seq(S)
  PROVE  Drop(s, 0) = s
BY SubSeqFull DEF Drop

\* What is dropped from the front of a concatenation is dropped from its first part.
LEMMA DropCat ==
  ASSUME NEW S, NEW s \in Seq(S), NEW t \in Seq(S), NEW n \in 0 .. Len(s)
  PROVE  Drop(Cat(s, t), n) = Cat(Drop(s, n), t)
<1> DEFINE u == SubSeq(s, 1, n)
           d == Drop(s, n)
           c == Cat(s, t)
<1>0. Len(s) \in Nat /\ Len(t) \in Nat
  BY LenProperties
<1>1. d \in Seq(S) /\ u \in Seq(S) /\ Len(u) = n /\ Cat(u, d) = s
  BY DropCut
<1>2. c \in Seq(S) /\ Len(c) = Len(s) + Len(t)
  BY CatType
<1> HIDE DEF u, d
<1>3. c = Cat(u, Cat(d, t))
  BY <1>1, CatAssociative
<1> HIDE DEF c
<1>4. n \in 0 .. Len(c)
  BY <1>0, <1>2
<1>5. /\ Drop(c, n) \in Seq(S) /\ SubSeq(c, 1, n) \in Seq(S) /\ Len(SubSeq(c, 1, n)) = n
      /\ Cat(SubSeq(c, 1, n), Drop(c, n)) = c
  BY <1>2, <1>4, DropCut
<1>6. Cat(d, t) \in Seq(S)
  BY <1>1, CatType
<1>7. Drop(c, n) = Cat(d, t)
  BY <1>1, <1>3, <1>5, <1>6, CatCancel
<1> QED BY <1>7 DEF c, d

\* The front of a concatenation dropped.
LEMMA DropFront ==
  ASSUME NEW S, NEW s \in Seq(S), NEW t \in Seq(S)
  PROVE  Drop(Cat(s, t), Len(s)) = t
<1>1. Len(s) \in 0 .. Len(s) /\ Len(s) \in Nat
  BY LenProperties
<1>2. Drop(s, Len(s)) \in Seq(S) /\ Len(Drop(s, Len(s))) = Len(s) - Len(s)
  BY <1>1, DropCut
<1>3. Drop(s, Len(s)) = <<>>
  BY <1>1, <1>2, EmptySeq
<1> QED BY <1>1, <1>3, DropCat, CatEmpty

\* k bytes of a portion of the line, behind its first m, and what then remains.
LEMMA TakeDrop ==
  ASSUME NEW S, NEW c \in Seq(S), NEW s \in Seq(S), Starts(c, s), NEW m \in Nat, NEW k \in Nat,
         m + k <= Len(c)
  PROVE  /\ m + k <= Len(s)
         /\ Cat(SubSeq(c, m + 1, m + k), Drop(s, m + k)) = Drop(s, m)
<1>0. Len(c) \in Nat /\ Len(s) \in Nat /\ Len(c) <= Len(s)
  BY LenProperties DEF Starts
<1>1. m + k <= Len(s) /\ m \in 0 .. Len(s) /\ m + k \in m .. Len(s) /\ m + 1 \in 1 .. Len(s) + 1
      /\ m + k \in (m + 1) - 1 .. Len(s) /\ Len(s) \in m + k .. Len(s)
  BY <1>0
<1>2. \A i \in (m + 1) .. (m + k) : c[i] \in S /\ s[i] \in S /\ c[i] = s[i]
  BY <1>0, ElementOfSeq DEF Starts
<1>3. SubSeq(c, m + 1, m + k) = SubSeq(s, m + 1, m + k)
  <2> DEFINE x == SubSeq(c, m + 1, m + k)
             y == SubSeq(s, m + 1, m + k)
             n == IF m + 1 <= m + k THEN (m + k) - (m + 1) + 1 ELSE 0
  <2>1. /\ x \in Seq(S) /\ Len(x) = n /\ \A i \in 1 .. n : x[i] = c[(m + 1) + i - 1]
    BY <1>2, SubSeqProperties
  <2>2. /\ y \in Seq(S) /\ Len(y) = n /\ \A i \in 1 .. n : y[i] = s[(m + 1) + i - 1]
    BY <1>2, SubSeqProperties
  <2>3. \A i \in 1 .. n : (m + 1) + i - 1 \in (m + 1) .. (m + k)
    OBVIOUS
  <2> HIDE DEF x, y, n
  <2>4. \A i \in 1 .. n : x[i] = y[i]
    BY <1>2, <2>1, <2>2, <2>3
  <2>5. x = y
    BY <2>1, <2>2, <2>4, SeqEqual
  <2> QED BY <2>5 DEF x, y
<1>4. SubSeq(s, m + 1, m + k) \o SubSeq(s, (m + k) + 1, Len(s)) = SubSeq(s, m + 1, Len(s))
  BY <1>1, ConcatAdjacentSubSeq
<1> QED BY <1>1, <1>3, <1>4 DEF Cat, Drop

-----------------------------------------------------------------------------
(* The frame at the front of a stream.                                     *)

\* Two bytes of a stream that begins with a frame are its length field.
LEMMA FrontLength ==
  ASSUME NEW s \in Seq(Byte), NEW q \in Seq(Byte), NEW d \in Sendable, NEW b \in Byte,
         NEW w \in Seq(Byte), Cat(s, q) = Cat(Frame(d, b), w), Len(s) >= 2
  PROVE  FrameLen(s) = Len(d)
<1> DEFINE n == Len(d)
           F == Frame(d, b)
<1>0. Len(s) \in Nat
  BY LenProperties
<1>1. F \in Seq(Byte) /\ Len(F) = n + 3 /\ F[1] = n % 256 /\ F[2] = n \div 256
  BY AnyFrameBytes, Zenon
<1>2. n \in Nat /\ n <= 32764
  BY DataFrame, FrameAssumption
<1>3. Cat(s, q) = Cat(F, w)
  OBVIOUS
<1> HIDE DEF n, F
<1>4. Starts(s, Cat(s, q)) /\ Starts(F, Cat(F, w))
  BY <1>1, StartsCat
<1>5. s[1] = F[1] /\ s[2] = F[2]
  <2>1. 1 \in 1 .. Len(s) /\ 2 \in 1 .. Len(s) /\ 1 \in 1 .. Len(F) /\ 2 \in 1 .. Len(F)
    BY <1>0, <1>1, <1>2
  <2> QED BY <1>3, <1>4, <2>1 DEF Starts
<1>6. Int16(n % 256, n \div 256) = n
  BY <1>2, LengthRead, SMTT(30)
<1> QED BY <1>1, <1>5, <1>6, Zenon DEF FrameLen, n

\* A buffer with a whole frame at its front has its payload and its terminator,
\* and behind it goes on what follows the frame.
LEMMA FrontFrame ==
  ASSUME NEW s \in Seq(Byte), NEW q \in Seq(Byte), NEW d \in Sendable, NEW b \in Byte,
         NEW w \in Seq(Byte), Cat(s, q) = Cat(Frame(d, b), w), Len(s) >= Len(d) + 3
  PROVE  /\ SubSeq(s, 1, Len(d) + 3) = Frame(d, b)
         /\ Payload(s, Len(d)) = d /\ s[Len(d) + 3] = b
         /\ Drop(s, Len(d) + 3) \in Seq(Byte) /\ Cat(Drop(s, Len(d) + 3), q) = w
<1> DEFINE n == Len(d)
           F == Frame(d, b)
           u == SubSeq(s, 1, n + 3)
           v == Drop(s, n + 3)
<1>1. /\ F \in Seq(Byte) /\ Len(F) = n + 3 /\ F[n + 3] = b
      /\ \A i \in 1 .. n : F[2 + i] = d[i]
  BY AnyFrameBytes
<1>2. d \in Seq(Byte) /\ n \in Nat /\ n >= 1
  BY DataFrame
<1>3. Len(s) \in Nat /\ n + 3 \in 0 .. Len(s)
  BY <1>2, LenProperties
<1>4. Cat(s, q) = Cat(F, w)
  OBVIOUS
<1> HIDE DEF F
<1>5. v \in Seq(Byte) /\ u \in Seq(Byte) /\ Len(u) = n + 3 /\ Cat(u, v) = s
  BY <1>3, DropCut
<1> HIDE DEF u, v
<1>6. u = F /\ Cat(v, q) = w
  <2>1. Cat(Cat(u, v), q) = Cat(u, Cat(v, q)) /\ Cat(v, q) \in Seq(Byte)
    BY <1>5, CatAssociative, CatType
  <2>2. Cat(u, Cat(v, q)) = Cat(F, w)
    BY <1>4, <1>5, <2>1
  <2>3. Len(u) = Len(F)
    BY <1>1, <1>5
  <2> QED BY <1>1, <1>5, <2>1, <2>2, <2>3, CatCancel
<1>7. \A i \in 1 .. n + 3 : s[i] = F[i]
  <2>1. Starts(u, Cat(u, v))
    BY <1>5, StartsCat
  <2> QED BY <1>5, <1>6, <2>1 DEF Starts
<1>8. s[n + 3] = b
  <2>1. n + 3 \in 1 .. n + 3
    BY <1>2
  <2> QED BY <1>1, <1>7, <2>1
<1>9. SubSeq(s, 3, n + 2) = d
  <2> DEFINE x == SubSeq(s, 3, n + 2)
  <2>1. \A i \in 3 .. n + 2 : s[i] \in Byte
    BY <1>2, <1>3, ElementOfSeq
  <2>2. /\ x \in Seq(Byte) /\ Len(x) = IF 3 <= n + 2 THEN (n + 2) - 3 + 1 ELSE 0
        /\ \A i \in 1 .. (n + 2) - 3 + 1 : x[i] = s[3 + i - 1]
    BY <1>2, <2>1, SubSeqProperties
  <2>3. Len(x) = n
    BY <1>2, <2>2
  <2>4. ASSUME NEW i \in 1 .. n PROVE x[i] = d[i]
    <3>1. 3 + i - 1 = 2 + i /\ i \in 1 .. (n + 2) - 3 + 1 /\ 2 + i \in 1 .. n + 3
      BY <1>2
    <3>2. x[i] = s[3 + i - 1] /\ F[2 + i] = d[i] /\ s[2 + i] = F[2 + i]
      BY <1>1, <1>7, <2>2, <3>1
    <3> QED BY <3>1, <3>2
  <2> HIDE DEF x
  <2>5. x = d
    BY <1>2, <2>2, <2>3, <2>4, SeqEqual
  <2> QED BY <2>5 DEF x
<1> QED BY <1>5, <1>6, <1>8, <1>9 DEF F, u, v, n, Payload

\* Two bytes of DataBytes are a length field, that of the first packet.
LEMMA FirstLength ==
  ASSUME NEW s \in Seq(Byte), NEW q \in Seq(Byte), NEW r \in PacketSeq,
         Cat(s, q) = DataBytes(r), Len(s) >= 2
  PROVE  /\ r # <<>> /\ Head(r) \in Sendable /\ Tail(r) \in PacketSeq
         /\ FrameLen(s) = Len(Head(r))
<1>0. Len(s) \in Nat /\ Len(q) \in Nat /\ Len(Cat(s, q)) = Len(s) + Len(q)
  BY LenProperties, CatType
<1>1. r # <<>>
  <2> SUFFICES ASSUME r = <<>> PROVE FALSE
    OBVIOUS
  <2>1. Cat(s, q) = <<>>
    BY DataBytesEmpty
  <2>2. Len(<<>>) = 0
    BY EmptySeq
  <2> QED BY <1>0, <2>1, <2>2
<1>2. Head(r) \in Sendable /\ Tail(r) \in PacketSeq
  BY <1>1, HeadTailProperties DEF PacketSeq
<1>3. Cat(s, q) = Cat(Frame(Head(r), SPLIT_DATA), DataBytes(Tail(r)))
  BY <1>1, DataBytesTail
<1>4. DataBytes(Tail(r)) \in Seq(Byte) /\ SPLIT_DATA \in Byte
  BY <1>2, DataBytesType, FrameAssumption
<1> QED BY <1>1, <1>2, <1>3, <1>4, FrontLength

\* A buffer as long as the first frame is the first frame.
LEMMA FirstFrame ==
  ASSUME NEW s \in Seq(Byte), NEW q \in Seq(Byte), NEW r \in PacketSeq, r # <<>>,
         Cat(s, q) = DataBytes(r), Len(s) = Len(Head(r)) + 3
  PROVE  /\ s = Frame(Head(r), SPLIT_DATA) /\ q = DataBytes(Tail(r))
         /\ s[Len(Head(r)) + 3] = SPLIT_DATA
         /\ SubSeq(s, 3, Len(s) - 1) = Head(r)
<1> DEFINE h == Head(r)
           F == Frame(h, SPLIT_DATA)
           D == DataBytes(Tail(r))
<1>1. h \in Sendable /\ Tail(r) \in PacketSeq
  BY HeadTailProperties DEF PacketSeq
<1>2. Cat(s, q) = Cat(F, D) /\ D \in Seq(Byte)
  BY <1>1, DataBytesTail, DataBytesType
<1>3. /\ F \in Seq(Byte) /\ Len(F) = Len(h) + 3 /\ F[Len(h) + 3] = SPLIT_DATA
      /\ \A i \in 1 .. Len(h) : F[2 + i] = h[i]
  BY <1>1, AnyFrameBytes, FrameAssumption
<1>4. h \in Seq(Byte) /\ Len(h) \in Nat /\ Len(h) >= 1
  BY <1>1, DataFrame
<1>5. Len(s) = Len(h) + 3
  OBVIOUS
<1> HIDE DEF h, F, D
<1>6. s = F /\ q = D
  BY <1>2, <1>3, <1>5, CatCancel
<1>7. SubSeq(F, 3, Len(h) + 2) = h
  <2> DEFINE n == Len(h)
             x == SubSeq(F, 3, n + 2)
  <2>1. \A i \in 3 .. n + 2 : F[i] \in Byte
    BY <1>3, <1>4, ElementOfSeq
  <2>2. /\ x \in Seq(Byte) /\ Len(x) = IF 3 <= n + 2 THEN (n + 2) - 3 + 1 ELSE 0
        /\ \A i \in 1 .. (n + 2) - 3 + 1 : x[i] = F[3 + i - 1]
    BY <1>4, <2>1, SubSeqProperties
  <2>3. Len(x) = n
    BY <1>4, <2>2
  <2>4. ASSUME NEW i \in 1 .. n PROVE x[i] = h[i]
    <3>1. 3 + i - 1 = 2 + i /\ i \in 1 .. (n + 2) - 3 + 1
      BY <1>4
    <3>2. x[i] = F[3 + i - 1] /\ F[2 + i] = h[i]
      BY <1>3, <2>2, <3>1
    <3> QED BY <3>1, <3>2
  <2> HIDE DEF x
  <2>5. x = h
    BY <1>4, <2>2, <2>3, <2>4, SeqEqual
  <2> QED BY <2>5 DEF x
<1>8. Len(s) - 1 = Len(h) + 2
  BY <1>4, <1>5
<1>9. SubSeq(s, 3, Len(s) - 1) = SubSeq(F, 3, Len(h) + 2)
  BY <1>6, <1>8
<1> QED BY <1>3, <1>6, <1>7, <1>9 DEF h, F, D
=============================================================================
