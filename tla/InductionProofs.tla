-------------------------- MODULE InductionProofs ---------------------------
(***************************************************************************)
(* Induction over the naturals in a form the provers can use: the property *)
(* is a set of naturals instead of an operator, and what remains is that   *)
(* every non-empty set of naturals has a least element.  From it, that a   *)
(* function defined by recursion on an interval exists, and facts about    *)
(* concatenation that the queue and the serial buffers keep needing.       *)
(***************************************************************************)
EXTENDS Sums, SequenceTheorems, WellFoundedInduction, NaturalsInduction, TLAPS

\* Every non-empty set of naturals has a least element.
LEMMA LeastNat ==
  ASSUME NEW T, T \subseteq Nat, T # {}
  PROVE  \E x \in T : \A y \in T : x <= y
<1> DEFINE R == { p \in Nat \X Nat : p[1] < p[2] }
<1>0. IsWellFoundedOn(R, Nat)
  BY NatLessThanWellFounded, Zenon DEF OpToRel
<1>1. \E x \in T : \A y \in T : ~ (<<y, x>> \in R)
  <2> HIDE DEF R
  <2> QED BY <1>0, WFMin
<1>2. PICK x \in T : \A y \in T : ~ (<<y, x>> \in R)
  BY <1>1
<1>3. \A y \in T : <<y,x>> \in Nat \X Nat 
  OBVIOUS
<1>4. \A y \in T : ~ (y < x)
  BY <1>2, <1>3
<1> QED BY <1>4

\* A set that has 0 and with every natural its successor has all naturals.
LEMMA SetInduction ==
  ASSUME NEW S, 0 \in S, \A n \in Nat : n \in S => n + 1 \in S
  PROVE  \A n \in Nat : n \in S
<1> SUFFICES ASSUME Nat \ S # {} PROVE FALSE
  OBVIOUS
<1>1. PICK x \in Nat \ S : \A y \in Nat \ S : x <= y
  BY LeastNat
<1>2. x # 0 /\ x - 1 \in Nat
  OBVIOUS
<1>3. x - 1 \in S
  BY <1>1, <1>2
<1> QED BY <1>1, <1>2, <1>3

\* f starts with b on 0 .. N, and its value at n is h[n] of its value at n - 1.
Recurs(V, b, N, h, f) ==
  /\ f \in [0 .. N -> V]
  /\ f = [n \in 0 .. N |-> IF n = 0 THEN b ELSE h[n][f[n - 1]]]

\* There is such a function.
LEMMA RecursionExists ==
  ASSUME NEW V, NEW b \in V, NEW N \in Nat, NEW h \in [1 .. N -> [V -> V]]
  PROVE  \E f : Recurs(V, b, N, h, f)
<1> DEFINE Good(m) == \E f \in [0 .. m -> V] :
                        /\ f[0] = b
                        /\ \A n \in 1 .. m : f[n] = h[n][f[n - 1]]
           S == { m \in Nat : m <= N => Good(m) }
<1>1. Good(0)
  <2>1. [n \in 0 .. 0 |-> b] \in [0 .. 0 -> V]
    OBVIOUS
  <2>2. [n \in 0 .. 0 |-> b][0] = b /\ 1 .. 0 = {}
    OBVIOUS
  <2> QED BY <2>1, <2>2
<1>2. ASSUME NEW m \in Nat, m \in S PROVE m + 1 \in S
  <2> SUFFICES ASSUME m + 1 <= N PROVE Good(m + 1)
    OBVIOUS
  <2>1. PICK f \in [0 .. m -> V] : f[0] = b /\ \A n \in 1 .. m : f[n] = h[n][f[n - 1]]
    BY <1>2
  <2> DEFINE g == [n \in 0 .. m + 1 |-> IF n <= m THEN f[n] ELSE h[m + 1][f[m]]]
  <2>2. h[m + 1] \in [V -> V] /\ f[m] \in V
    OBVIOUS
  <2>3. g \in [0 .. m + 1 -> V]
    BY <2>2
  <2>4. g[0] = b
    BY <2>1
  <2>5. \A n \in 1 .. m + 1 : g[n] = h[n][g[n - 1]]
    <3> TAKE n \in 1 .. m + 1
    <3>1. CASE n <= m
      BY <2>1, <3>1
    <3>2. CASE n = m + 1
      BY <3>2
    <3> QED BY <3>1, <3>2
  <2> HIDE DEF g
  <2> QED BY <2>3, <2>4, <2>5
<1>3. Good(N)
  <2>1. 0 \in S BY <1>1
  <2> HIDE DEF S
  <2>2. N \in S BY <1>2, <2>1, SetInduction
  <2> QED BY <2>2 DEF S
<1>4. PICK f \in [0 .. N -> V] : f[0] = b /\ \A n \in 1 .. N : f[n] = h[n][f[n - 1]]
  BY <1>3
<1>5. f = [n \in 0 .. N |-> f[n]]
  OBVIOUS
<1>6. \A n \in 0 .. N : f[n] = IF n = 0 THEN b ELSE h[n][f[n - 1]]
  BY <1>4
<1>7. f = [n \in 0 .. N |-> IF n = 0 THEN b ELSE h[n][f[n - 1]]]
  BY <1>5, <1>6
<1> QED BY <1>7 DEF Recurs

\* A recursion on 0 .. L that is e on Stop and elsewhere, at i, h[i] of its value
\* at a later position next[i]; there is a function that satisfies it.
Forward(V, e, L, Stop, next, h) ==
  /\ e \in V /\ L \in Nat
  /\ next \in [0 .. L -> Int] /\ h \in [0 .. L -> [V -> V]]
  /\ \A i \in 0 .. L : i \notin Stop => next[i] \in (i + 1) .. L

ForwardSolution(V, e, L, Stop, next, h, f) ==
  /\ f \in [0 .. L -> V]
  /\ \A i \in 0 .. L : f[i] = IF i \in Stop THEN e ELSE h[i][f[next[i]]]

\* A recursion whose argument grows up to a limit has a solution.
LEMMA ForwardRecursionExists ==
  ASSUME NEW V, NEW e, NEW L, NEW Stop, NEW next, NEW h,
         Forward(V, e, L, Stop, next, h)
  PROVE  \E f : ForwardSolution(V, e, L, Stop, next, h, f)
<1> USE DEF Forward
<1> DEFINE Good(m) == \E f \in [(L - m) .. L -> V] :
                        \A i \in (L - m) .. L :
                          f[i] = IF i \in Stop THEN e ELSE h[i][f[next[i]]]
           S == { m \in Nat : m <= L => Good(m) }
<1>1. Good(0)
  <2> DEFINE f == [i \in (L - 0) .. L |-> e]
  <2>1. f \in [(L - 0) .. L -> V]
    OBVIOUS
  <2>2. ASSUME NEW i \in (L - 0) .. L
        PROVE  f[i] = IF i \in Stop THEN e ELSE h[i][f[next[i]]]
    <3>1. i = L /\ i \in 0 .. L /\ (i + 1) .. L = {}
      OBVIOUS
    <3>2. i \in Stop
      BY <3>1
    <3> QED BY <3>2
  <2> HIDE DEF f
  <2> QED BY <2>1, <2>2
<1>2. ASSUME NEW m \in Nat, m \in S PROVE m + 1 \in S
  <2> SUFFICES ASSUME m + 1 <= L PROVE Good(m + 1)
    OBVIOUS
  <2> DEFINE a == L - (m + 1)
  <2>0. a \in 0 .. L /\ L - m = a + 1 /\ m <= L
    OBVIOUS
  <2>1. PICK f \in [(a + 1) .. L -> V] :
          \A i \in (a + 1) .. L : f[i] = IF i \in Stop THEN e ELSE h[i][f[next[i]]]
    BY <1>2, <2>0
  <2> HIDE DEF a
  <2> DEFINE v == IF a \in Stop THEN e ELSE h[a][f[next[a]]]
             g == [i \in a .. L |-> IF i = a THEN v ELSE f[i]]
  <2>2. a \notin Stop => next[a] \in (a + 1) .. L /\ f[next[a]] \in V
    BY <2>0
  <2>3. v \in V
    BY <2>0, <2>2
  <2> HIDE DEF v
  <2>4. g \in [a .. L -> V]
    BY <2>0, <2>3
  <2>5. \A i \in (a + 1) .. L : g[i] = f[i]
    BY <2>0
  <2>6. g[a] = v
    BY <2>0
  <2> HIDE DEF g
  <2>7. ASSUME NEW i \in a .. L
        PROVE  g[i] = IF i \in Stop THEN e ELSE h[i][g[next[i]]]
    <3>1. CASE i = a
      <4>1. CASE a \in Stop
        BY <2>6, <3>1, <4>1 DEF v
      <4>2. CASE a \notin Stop
        <5>1. g[next[a]] = f[next[a]]
          BY <2>2, <2>5, <4>2
        <5> QED BY <2>6, <3>1, <4>2, <5>1 DEF v
      <4> QED BY <4>1, <4>2
    <3>2. CASE i # a
      <4>1. i \in (a + 1) .. L /\ i \in 0 .. L
        BY <2>0, <3>2
      <4>2. g[i] = IF i \in Stop THEN e ELSE h[i][f[next[i]]]
        BY <2>1, <2>5, <4>1
      <4>3. CASE i \in Stop
        BY <4>2, <4>3
      <4>4. CASE i \notin Stop
        <5>1. next[i] \in (i + 1) .. L
          BY <4>1, <4>4
        <5>2. next[i] \in (a + 1) .. L
          BY <2>0, <4>1, <5>1
        <5>3. g[next[i]] = f[next[i]]
          BY <2>5, <5>2
        <5> QED BY <4>2, <4>4, <5>3
      <4> QED BY <4>3, <4>4
    <3> QED BY <3>1, <3>2
  <2> QED BY <2>4, <2>7 DEF a
<1>3. Good(L)
  <2>1. 0 \in S BY <1>1
  <2> HIDE DEF S
  <2>2. L \in S BY <1>2, <2>1, SetInduction
  <2> QED BY <2>2 DEF S
<1>4. L - L = 0
  OBVIOUS
<1> QED BY <1>3, <1>4, Zenon DEF ForwardSolution

-----------------------------------------------------------------------------
(* Concatenation as an operator whose definition the provers do not see:   *)
(* only these facts about it are used, and equations stay equations.       *)

Cat(s, t) == s \o t

\* Cat of sequences is a sequence,
LEMMA CatType ==
  ASSUME NEW S, NEW s \in Seq(S), NEW t \in Seq(S)
  PROVE  Cat(s, t) \in Seq(S) /\ Len(Cat(s, t)) = Len(s) + Len(t)
BY ConcatProperties DEF Cat

\* the empty one is neutral,
LEMMA CatEmpty ==
  ASSUME NEW S, NEW s \in Seq(S)
  PROVE  Cat(s, <<>>) = s /\ Cat(<<>>, s) = s
BY ConcatEmptySeq DEF Cat

\* and Cat is associative.
LEMMA CatAssociative ==
  ASSUME NEW S, NEW s \in Seq(S), NEW t \in Seq(S), NEW u \in Seq(S)
  PROVE  Cat(Cat(s, t), u) = Cat(s, Cat(t, u))
BY ConcatAssociative DEF Cat

\* A sequence is its first n elements and the rest.
LEMMA CutAt ==
  ASSUME NEW S, NEW b \in Seq(S), NEW n \in 0 .. Len(b)
  PROVE  /\ SubSeq(b, 1, n) \in Seq(S) /\ SubSeq(b, n + 1, Len(b)) \in Seq(S)
         /\ Len(SubSeq(b, 1, n)) = n /\ Len(SubSeq(b, n + 1, Len(b))) = Len(b) - n
         /\ Cat(SubSeq(b, 1, n), SubSeq(b, n + 1, Len(b))) = b
<1>1. Len(b) \in Nat /\ \A i \in 1 .. Len(b) : b[i] \in S
  BY LenProperties, ElementOfSeq
<1>2. SubSeq(b, 1, n) \in Seq(S) /\ Len(SubSeq(b, 1, n)) = n
  BY <1>1, SubSeqProperties
<1>3. SubSeq(b, n + 1, Len(b)) \in Seq(S) /\ Len(SubSeq(b, n + 1, Len(b))) = Len(b) - n
  BY <1>1, SubSeqProperties
<1>4. SubSeq(b, 1, n) \o SubSeq(b, n + 1, Len(b)) = b
  <2>1. 1 \in 1 .. Len(b) + 1 /\ n \in 1 - 1 .. Len(b) /\ Len(b) \in n .. Len(b)
    BY <1>1
  <2>2. SubSeq(b, 1, n) \o SubSeq(b, n + 1, Len(b)) = SubSeq(b, 1, Len(b))
    BY <2>1, ConcatAdjacentSubSeq
  <2> QED BY <2>2, SubSeqFull
<1> QED BY <1>2, <1>3, <1>4 DEF Cat

\* A sequence is its head and its tail.
LEMMA CutHead ==
  ASSUME NEW S, NEW b \in Seq(S), b # <<>>
  PROVE  /\ <<Head(b)>> \in Seq(S) /\ Tail(b) \in Seq(S)
         /\ Len(Tail(b)) = Len(b) - 1 /\ Cat(<<Head(b)>>, Tail(b)) = b
<1>1. /\ Head(b) \in S /\ Tail(b) \in Seq(S) /\ Len(Tail(b)) = Len(b) - 1
      /\ b = <<Head(b)>> \o Tail(b)
  BY HeadTailProperties, LenProperties
<1>2. <<Head(b)>> \in Seq(S)
  BY <1>1
<1> QED BY <1>1, <1>2 DEF Cat

\* Append is concatenation with one element.
LEMMA CatOne ==
  ASSUME NEW S, NEW s \in Seq(S), NEW e \in S
  PROVE  Append(s, e) = Cat(s, <<e>>) /\ <<e>> \in Seq(S)
<1>1. Append(s, e) = s \o <<e>>
  BY AppendIsConcat
<1>2. <<e>> \in Seq(S)
  OBVIOUS
<1> QED BY <1>1, <1>2 DEF Cat

\* Bytes may move from the front of one buffer to the end of the one before it.
LEMMA MoveFront ==
  ASSUME NEW S, NEW a \in Seq(S), NEW p \in Seq(S), NEW q \in Seq(S), NEW b,
         Cat(p, q) = b
  PROVE  Cat(Cat(a, p), q) = Cat(a, b)
BY CatAssociative

\* Two adjacent buffers may divide their bytes anew.
LEMMA Redivide ==
  ASSUME NEW S, NEW a \in Seq(S), NEW t \in Seq(S), NEW b \in Seq(S),
         NEW u \in Seq(S), NEW c \in Seq(S), Cat(u, c) = Cat(t, b)
  PROVE  Cat(Cat(a, u), c) = Cat(Cat(a, t), b)
<1>1. Cat(Cat(a, u), c) = Cat(a, Cat(u, c)) /\ Cat(Cat(a, t), b) = Cat(a, Cat(t, b))
  BY CatAssociative
<1> QED BY <1>1

-----------------------------------------------------------------------------
(* SumOf.                                                                  *)

Lengths == Seq(Nat)

\* f[n] is the total of the first n elements of s.
PrefixSums(s, f) ==
  /\ f \in [0 .. Len(s) -> Nat]
  /\ f[0] = 0
  /\ \A n \in 1 .. Len(s) : f[n] = f[n - 1] + s[n]

\* The recursion in SumOf has a solution, and SumOf is its last value.
LEMMA SumOfPrefix ==
  ASSUME NEW s \in Lengths
  PROVE  \E f : PrefixSums(s, f) /\ SumOf(s) = f[Len(s)]
<1> DEFINE N == Len(s)
           e == 0
           B == Nat
           K(v, n) == v + s[n]
           h == [n \in 1 .. N |-> [v \in B |-> K(v, n)]]
           Rec(f) == f = [n \in 0 .. N |-> IF n = 0 THEN e ELSE K(f[n - 1], n)]
           c == CHOOSE f : Rec(f)
<1>1. N \in Nat /\ e \in B /\ \A n \in 1 .. N : s[n] \in Nat
  BY LenProperties, ElementOfSeq DEF Lengths
<1>2. \A n \in 1 .. N : \A v \in B : K(v, n) \in B
  BY <1>1
<1>3. SumOf(s) = c[N]
  BY DEF SumOf
<1>4. c \in [0 .. N -> B] /\ c[0] = e /\ \A n \in 1 .. N : c[n] = K(c[n - 1], n)
  <2> HIDE DEF N, e, B, K
  <2>1. h \in [1 .. N -> [B -> B]]
    BY <1>2
  <2>2. PICK g \in [0 .. N -> B] :
          g = [n \in 0 .. N |-> IF n = 0 THEN e ELSE h[n][g[n - 1]]]
    <3> HIDE DEF h
    <3>1. \E g : Recurs(B, e, N, h, g)
      BY <1>1, <2>1, RecursionExists
    <3> QED BY <3>1 DEF Recurs
  <2>3. \A n \in 1 .. N : g[n - 1] \in B /\ h[n][g[n - 1]] = K(g[n - 1], n)
    BY <1>1
  <2>4. Rec(g)
    <3> HIDE DEF h
    <3> QED BY <1>1, <2>2, <2>3
  <2>5. Rec(c)
    BY <2>4
  <2> HIDE DEF c
  <2>6. /\ DOMAIN c = 0 .. N /\ c = [n \in 0 .. N |-> c[n]]
        /\ c[0] = e /\ \A n \in 1 .. N : c[n] = K(c[n - 1], n)
    <3>1. DOMAIN c = 0 .. N
      BY <2>5
    <3>2. \A n \in 0 .. N : c[n] = IF n = 0 THEN e ELSE K(c[n - 1], n)
      BY <2>5
    <3>3. c = [n \in 0 .. N |-> c[n]]
      BY <2>5, <3>1
    <3> HIDE DEF Rec
    <3>4. c[0] = e
      BY <1>1, <3>2
    <3>5. ASSUME NEW n \in 1 .. N PROVE c[n] = K(c[n - 1], n)
      <4>1. n \in 0 .. N /\ n # 0
        BY <1>1
      <4> QED BY <3>2, <4>1, Zenon
    <3> QED BY <3>1, <3>3, <3>4, <3>5
  <2>7. \A n \in 0 .. N : c[n] \in B
    <3> DEFINE S == { n \in Nat : n <= N => c[n] \in B }
    <3>1. 0 \in S
      BY <1>1, <2>6
    <3>2. ASSUME NEW n \in Nat, n \in S PROVE n + 1 \in S
      <4> SUFFICES ASSUME n + 1 <= N PROVE c[n + 1] \in B
        OBVIOUS
      <4>1. n <= N /\ n + 1 \in 1 .. N /\ (n + 1) - 1 = n
        BY <1>1
      <4>2. c[n] \in B
        BY <3>2, <4>1
      <4>3. c[n + 1] = K(c[(n + 1) - 1], n + 1)
        BY <2>6, <4>1, Zenon
      <4>4. c[n + 1] = K(c[n], n + 1)
        BY <4>1, <4>3, Zenon
      <4> QED BY <1>2, <4>1, <4>2, <4>4, Zenon
    <3> HIDE DEF S
    <3>3. \A n \in Nat : n \in S
      BY <3>1, <3>2, SetInduction
    <3> QED BY <1>1, <3>3 DEF S
  <2> QED BY <2>6, <2>7
<1>5. PrefixSums(s, c)
  <2> HIDE DEF c
  <2> QED BY <1>4 DEF PrefixSums
<1> HIDE DEF c
<1> QED BY <1>3, <1>5

\* Totals of no element, of one more, and of all but the first.
LEMMA SumOfType ==
  ASSUME NEW s \in Seq(Nat)
  PROVE  SumOf(s) \in Nat
<1>1. PICK f : PrefixSums(s, f) /\ SumOf(s) = f[Len(s)]
  BY SumOfPrefix DEF Lengths
<1>2. Len(s) \in 0 .. Len(s)
  BY LenProperties
<1> QED BY <1>1, <1>2 DEF PrefixSums

\* The sum of no number is 0,
LEMMA SumOfEmpty == SumOf(<<>>) = 0
<1>1. <<>> \in Seq(Nat) /\ Len(<<>>) = 0
  BY EmptySeq
<1>2. PICK f : PrefixSums(<<>>, f) /\ SumOf(<<>>) = f[Len(<<>>)]
  BY <1>1, SumOfPrefix DEF Lengths
<1>3. f[0] = 0
  BY <1>2, Zenon DEF PrefixSums
<1> QED BY <1>1, <1>2, <1>3, Zenon

\* a number more adds itself,
LEMMA SumOfAppend ==
  ASSUME NEW s \in Seq(Nat), NEW x \in Nat
  PROVE  SumOf(Append(s, x)) = SumOf(s) + x
<1> DEFINE t == Append(s, x)
           N == Len(s)
<1>1. N \in Nat /\ t \in Seq(Nat) /\ Len(t) = N + 1 /\ t[N + 1] = x
      /\ \A i \in 1 .. N : t[i] = s[i]
  BY AppendProperties, LenProperties
<1> HIDE DEF t
<1>2. PICK f : PrefixSums(s, f) /\ SumOf(s) = f[N]
  BY SumOfPrefix DEF Lengths
<1>3. PICK g : PrefixSums(t, g) /\ SumOf(t) = g[Len(t)]
  BY <1>1, SumOfPrefix DEF Lengths
<1>4. /\ f[0] = 0 /\ g[0] = 0
      /\ \A n \in 1 .. N : f[n] = f[n - 1] + s[n]
      /\ \A n \in 1 .. N + 1 : g[n] = g[n - 1] + t[n]
  BY <1>1, <1>2, <1>3, Zenon DEF PrefixSums
<1> HIDE DEF N
<1> DEFINE S == { n \in Nat : n <= N => f[n] = g[n] }
<1>5. 0 \in S
  BY <1>4
<1>6. ASSUME NEW n \in Nat, n \in S PROVE n + 1 \in S
  <2> SUFFICES ASSUME n + 1 <= N PROVE f[n + 1] = g[n + 1]
    OBVIOUS
  <2>1. n <= N /\ n + 1 \in 1 .. N /\ n + 1 \in 1 .. N + 1 /\ (n + 1) - 1 = n
    BY <1>1
  <2>2. f[n] = g[n]
    BY <1>6, <2>1
  <2>3. f[n + 1] = f[(n + 1) - 1] + s[n + 1] /\ g[n + 1] = g[(n + 1) - 1] + t[n + 1]
    BY <1>4, <2>1, Zenon
  <2> QED BY <1>1, <2>1, <2>2, <2>3, Zenon
<1> HIDE DEF S
<1>7. \A n \in Nat : n \in S
  BY <1>5, <1>6, SetInduction
<1>8. f[N] = g[N]
  <2>1. N \in S /\ N <= N
    BY <1>1, <1>7
  <2> QED BY <2>1, Zenon DEF S
<1>9. N + 1 \in 1 .. N + 1 /\ (N + 1) - 1 = N
  BY <1>1
<1>10. g[N + 1] = g[(N + 1) - 1] + t[N + 1]
  BY <1>4, <1>9, Zenon
<1>11. SumOf(t) = SumOf(s) + x
  BY <1>1, <1>2, <1>3, <1>8, <1>9, <1>10, Zenon
<1> QED BY <1>11 DEF t

\* and the first number contributes itself.
LEMMA SumOfTail ==
  ASSUME NEW s \in Seq(Nat), s # <<>>
  PROVE  SumOf(s) = Head(s) + SumOf(Tail(s))
<1> DEFINE t == Tail(s)
           N == Len(t)
<1>1. /\ N \in Nat /\ t \in Seq(Nat) /\ Len(s) = N + 1 /\ s[1] = Head(s)
      /\ \A i \in 1 .. N : t[i] = s[i + 1]
      /\ \A i \in 1 .. N + 1 : s[i] \in Nat
  BY HeadTailProperties, LenProperties, EmptySeq
<1> HIDE DEF t
<1>2. PICK f : PrefixSums(s, f) /\ SumOf(s) = f[Len(s)]
  BY SumOfPrefix DEF Lengths
<1>3. PICK g : PrefixSums(t, g) /\ SumOf(t) = g[N]
  BY <1>1, SumOfPrefix DEF Lengths
<1>4. /\ f[0] = 0 /\ g[0] = 0
      /\ \A n \in 1 .. N + 1 : f[n] = f[n - 1] + s[n]
      /\ \A n \in 1 .. N : g[n] = g[n - 1] + t[n]
  BY <1>1, <1>2, <1>3, Zenon DEF PrefixSums
<1>5. g \in [0 .. N -> Nat]
  BY <1>3, Zenon DEF PrefixSums
<1> HIDE DEF N
<1> DEFINE S == { n \in Nat : n <= N => f[n + 1] = s[1] + g[n] }
<1>6. 0 \in S
  <2>1. 1 \in 1 .. N + 1 /\ 1 - 1 = 0
    BY <1>1
  <2>2. f[1] = f[1 - 1] + s[1]
    BY <1>4, <2>1, Zenon
  <2> QED BY <1>1, <1>4, <2>1, <2>2
<1>7. ASSUME NEW n \in Nat, n \in S PROVE n + 1 \in S
  <2> SUFFICES ASSUME n + 1 <= N PROVE f[(n + 1) + 1] = s[1] + g[n + 1]
    OBVIOUS
  <2>1. /\ n <= N /\ n + 1 \in 1 .. N /\ (n + 1) - 1 = n /\ n \in 0 .. N
        /\ (n + 1) + 1 \in 1 .. N + 1 /\ ((n + 1) + 1) - 1 = n + 1 /\ 1 \in 1 .. N + 1
    BY <1>1
  <2>2. f[n + 1] = s[1] + g[n]
    BY <1>7, <2>1
  <2>3. /\ f[(n + 1) + 1] = f[((n + 1) + 1) - 1] + s[(n + 1) + 1]
        /\ g[n + 1] = g[(n + 1) - 1] + t[n + 1]
        /\ t[n + 1] = s[(n + 1) + 1]
    BY <1>1, <1>4, <2>1, Zenon
  <2>4. g[n] \in Nat /\ s[(n + 1) + 1] \in Nat /\ s[1] \in Nat
    BY <1>1, <1>5, <2>1
  <2> QED BY <2>1, <2>2, <2>3, <2>4
<1> HIDE DEF S
<1>8. \A n \in Nat : n \in S
  BY <1>6, <1>7, SetInduction
<1>9. f[N + 1] = s[1] + g[N]
  <2>1. N \in S /\ N <= N
    BY <1>1, <1>8
  <2> QED BY <2>1, Zenon DEF S
<1>10. SumOf(s) = Head(s) + SumOf(t)
  BY <1>1, <1>2, <1>3, <1>9, Zenon
<1> QED BY <1>10 DEF t
=============================================================================
