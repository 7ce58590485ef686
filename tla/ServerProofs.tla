---------------------------- MODULE ServerProofs ----------------------------
(***************************************************************************)
(* Proofs about the servers: how the stream of a connection is cut into    *)
(* queries (Framing, DenoFraming), for any queries and segments, and what  *)
(* becomes of connections and certificates (Lifecycle, Certs), for any     *)
(* servers, sockets, addresses, periods, limits and loads.                 *)
(***************************************************************************)
EXTENDS DenoFraming, Lifecycle, FiniteSetTheorems, SequenceTheorems, WellFoundedInduction, TLAPS

\* Induction over the natural numbers, for a set in place of a predicate.
LEMMA SetInduction ==
  ASSUME NEW T, 0 \in T, \A n \in Nat : n \in T => n + 1 \in T
  PROVE  \A n \in Nat : n \in T
<1> SUFFICES ASSUME Nat \ T # {} PROVE FALSE
  OBVIOUS
<1>1. IsWellFoundedOn(OpToRel(<, Nat), Nat)
  BY NatLessThanWellFounded
<1>2. PICK x \in Nat \ T : \A y \in Nat \ T : ~(<<y, x>> \in OpToRel(<, Nat))
  <2>1. Nat \ T \subseteq Nat
    OBVIOUS
  <2> QED
  BY <1>1, <2>1, WFMin
<1>3. \A y \in Nat \ T : ~(y < x)
  BY <1>2 DEF OpToRel
<1>4. x # 0 /\ x - 1 \in Nat /\ x - 1 < x
  OBVIOUS
<1>5. x - 1 \in T
  BY <1>3, <1>4
<1> QED
  BY <1>4, <1>5

LEMMA Lengths ==
  /\ Len(QLens) \in Nat
  /\ \A q \in 1 .. Len(QLens) : QLens[q] \in 0 .. MaxSize + 1
  /\ MinSize \in Nat \ {0} /\ MaxSize \in Nat
BY FramingAssumption

\* The equation that defines the stream has a solution, so it holds.
LEMMA StreamEquation ==
  \A n \in 0 .. Len(QLens) :
    StreamUpTo[n] = IF n = 0 THEN <<>> ELSE StreamUpTo[n - 1] \o Bytes(n)
<1> DEFINE RHS(f, n) == IF n = 0 THEN <<>> ELSE f[n - 1] \o Bytes(n)
           Solves(f, k) == f = [n \in 0 .. k |-> RHS(f, n)]
           Solvable(k) == \E f : Solves(f, k)
           T == {k \in Nat : Solvable(k)}
<1>1. 0 \in T
  <2>1. Solves([n \in 0 .. 0 |-> <<>>], 0)
    OBVIOUS
  <2>2. Solvable(0)
    BY <2>1
  <2> QED
    BY <2>2
<1>2. ASSUME NEW k \in Nat, k \in T
      PROVE  k + 1 \in T
  <2>1. PICK f : Solves(f, k)
    BY <1>2
  <2>2. \A n \in 0 .. k : f[n] = RHS(f, n)
    BY <2>1, Zenon
  <2> DEFINE g == [n \in 0 .. k + 1 |-> IF n <= k THEN f[n] ELSE f[k] \o Bytes(k + 1)]
             h == [n \in 0 .. k + 1 |-> RHS(g, n)]
  <2>3. ASSUME NEW n \in 0 .. k + 1
        PROVE  g[n] = h[n]
    <3>1. CASE n = 0
      BY <3>1, <2>2
    <3>2. CASE n \in 1 .. k
      <4>1. g[n - 1] = f[n - 1] /\ n \in 0 .. k /\ n # 0
        BY <3>2
      <4>2. f[n] = f[n - 1] \o Bytes(n)
        BY <4>1, <2>2
      <4>3. g[n] = f[n]
        BY <4>1
      <4>4. h[n] = g[n - 1] \o Bytes(n)
        BY <4>1
      <4> QED
        BY <4>1, <4>2, <4>3, <4>4
    <3>3. CASE n = k + 1
      <4>1. g[n - 1] = f[k]
        BY <3>3
      <4> QED
        BY <3>3, <4>1
    <3> QED
      BY <3>1, <3>2, <3>3
  <2>4. g = h
    BY <2>3
  <2>5. Solves(g, k + 1)
    BY <2>4
  <2>6. Solvable(k + 1)
    BY <2>5
  <2> HIDE DEF Solvable
  <2> QED
    BY <2>6
<1> HIDE DEF T
<1>3. \A k \in Nat : k \in T
  BY <1>1, <1>2, SetInduction
<1>4. Len(QLens) \in T
  BY <1>3, Lengths
<1>5. \E f : Solves(f, Len(QLens))
  BY <1>4 DEF T
<1>6. StreamUpTo = CHOOSE f : Solves(f, Len(QLens))
  BY DEF StreamUpTo
<1> HIDE DEF Solves
<1>7. Solves(StreamUpTo, Len(QLens))
  BY <1>5, <1>6
<1> QED
  BY <1>7, Zenon DEF Solves

LEMMA StreamSteps ==
  /\ StreamUpTo[0] = <<>>
  /\ \A n \in 0 .. Len(QLens) - 1 : StreamUpTo[n + 1] = StreamUpTo[n] \o Bytes(n + 1)
<1>1. 0 \in 0 .. Len(QLens)
  BY Lengths
<1>2. ASSUME NEW n \in 0 .. Len(QLens) - 1
      PROVE  StreamUpTo[n + 1] = StreamUpTo[n] \o Bytes(n + 1)
  <2>1. n + 1 \in 0 .. Len(QLens) /\ n + 1 # 0 /\ (n + 1) - 1 = n
    BY Lengths
  <2>2. StreamUpTo[n + 1] = IF n + 1 = 0 THEN <<>> ELSE StreamUpTo[(n + 1) - 1] \o Bytes(n + 1)
    BY <2>1, StreamEquation, Zenon
  <2> QED
    BY <2>1, <2>2, Zenon
<1> QED
  BY <1>1, <1>2, StreamEquation, Zenon
-----------------------------------------------------------------------------
Place == (1 .. Len(QLens)) \X Nat
Begin(n) == Len(StreamUpTo[n])

LEMMA BytesType ==
  ASSUME NEW q \in 1 .. Len(QLens)
  PROVE  /\ Bytes(q) \in Seq(Place) /\ Len(Bytes(q)) = 2 + QLens[q]
         /\ \A i \in 1 .. 2 + QLens[q] : Bytes(q)[i] = <<q, i>>
<1>1. 2 + QLens[q] \in Nat
  BY Lengths
<1>2. Bytes(q) = [i \in 1 .. 2 + QLens[q] |-> <<q, i>>]
  BY DEF Bytes, HeaderSize
<1>3. Bytes(q) \in [1 .. 2 + QLens[q] -> Place]
  BY <1>2, Lengths DEF Place
<1> DEFINE k == 2 + QLens[q]
           b == Bytes(q)
<1>4. k \in Nat /\ b \in [1 .. k -> Place]
  BY <1>1, <1>3
<1>5. b \in Seq(Place) /\ Len(b) = k
  <2> HIDE DEF k, b
  <2> QED
    BY <1>4
<1>6. \A i \in 1 .. k : b[i] = <<q, i>>
  BY <1>2
<1> QED
  BY <1>5, <1>6

LEMMA StreamType ==
  \A n \in 0 .. Len(QLens) : StreamUpTo[n] \in Seq(Place) /\ Begin(n) \in Nat
<1> DEFINE T == {n \in Nat : n <= Len(QLens) => StreamUpTo[n] \in Seq(Place)}
<1>1. 0 \in T
  <2>1. <<>> \in Seq(Place)
    OBVIOUS
  <2>2. StreamUpTo[0] \in Seq(Place)
    BY <2>1, StreamSteps, Zenon
  <2> QED
    BY <2>2
<1>2. ASSUME NEW n \in Nat, n \in T
      PROVE  n + 1 \in T
  <2>1. SUFFICES ASSUME n + 1 <= Len(QLens)
                 PROVE  StreamUpTo[n + 1] \in Seq(Place)
    OBVIOUS
  <2>2. StreamUpTo[n] \in Seq(Place)
    BY <1>2, <2>1, Lengths
  <2>3. StreamUpTo[n + 1] = StreamUpTo[n] \o Bytes(n + 1)
    <3>1. n \in 0 .. Len(QLens) - 1
      BY <2>1, Lengths
    <3> QED
      BY <3>1, StreamSteps, Zenon
  <2>4. Bytes(n + 1) \in Seq(Place)
    BY <2>1, BytesType, Lengths
  <2> QED
    BY <2>2, <2>3, <2>4
<1> HIDE DEF T
<1>3. \A n \in Nat : n \in T
  BY <1>1, <1>2, SetInduction
<1> QED
  BY <1>3, Lengths DEF T, Begin

LEMMA BeginStep ==
  /\ Begin(0) = 0
  /\ \A n \in 0 .. Len(QLens) - 1 :
       /\ Begin(n + 1) = Begin(n) + 2 + QLens[n + 1]
       /\ \A i \in 1 .. Begin(n) : StreamUpTo[n + 1][i] = StreamUpTo[n][i]
       /\ \A i \in 1 .. 2 + QLens[n + 1] : StreamUpTo[n + 1][Begin(n) + i] = <<n + 1, i>>
<1>1. Begin(0) = 0
  BY StreamSteps DEF Begin
<1>2. ASSUME NEW n \in 0 .. Len(QLens) - 1
      PROVE  /\ Begin(n + 1) = Begin(n) + 2 + QLens[n + 1]
             /\ \A i \in 1 .. Begin(n) : StreamUpTo[n + 1][i] = StreamUpTo[n][i]
             /\ \A i \in 1 .. 2 + QLens[n + 1] :
                   StreamUpTo[n + 1][Begin(n) + i] = <<n + 1, i>>
  <2>1. n \in 0 .. Len(QLens) /\ n + 1 \in 1 .. Len(QLens) /\ n + 1 # 0 /\ n + 1 - 1 = n
    BY Lengths
  <2> DEFINE s == StreamUpTo[n]
             b == Bytes(n + 1)
  <2>2. StreamUpTo[n + 1] = s \o b
    BY StreamSteps
  <2>3. s \in Seq(Place) /\ b \in Seq(Place) /\ Len(s) = Begin(n)
    BY <2>1, StreamType, BytesType DEF Begin
  <2>4. Len(b) = 2 + QLens[n + 1] /\ \A i \in 1 .. 2 + QLens[n + 1] : b[i] = <<n + 1, i>>
    BY <2>1, BytesType
  <2> HIDE DEF s, b
  <2>5. /\ Len(s \o b) = Len(s) + Len(b)
        /\ \A i \in 1 .. Len(s) + Len(b) :
             (s \o b)[i] = IF i <= Len(s) THEN s[i] ELSE b[i - Len(s)]
    BY <2>3, ConcatProperties
  <2>6. Len(s) \in Nat /\ Len(b) \in Nat
    BY <2>3
  <2>7. ASSUME NEW i \in 1 .. Begin(n)
        PROVE  (s \o b)[i] = s[i]
    BY <2>3, <2>5, <2>6
  <2>8. ASSUME NEW i \in 1 .. 2 + QLens[n + 1]
        PROVE  (s \o b)[Begin(n) + i] = <<n + 1, i>>
    <3> DEFINE k == Begin(n) + i
    <3>1. k \in 1 .. Len(s) + Len(b) /\ ~(k <= Len(s)) /\ k - Len(s) = i
      BY <2>3, <2>4, <2>6
    <3> HIDE DEF k
    <3>2. (s \o b)[k] = b[k - Len(s)]
      BY <3>1, <2>5
    <3> QED
      BY <3>1, <3>2, <2>4 DEF k
  <2>9. Begin(n + 1) = Len(s) + Len(b)
    BY <2>2, <2>5 DEF Begin
  <2>10. Begin(n + 1) = Begin(n) + 2 + QLens[n + 1]
    BY <2>1, <2>3, <2>4, <2>6, <2>9, Lengths
  <2> QED
    BY <2>2, <2>7, <2>8, <2>10 DEF s
<1> QED
  BY <1>1, <1>2

\* What has come of the stream after n queries is a prefix of it after m.
LEMMA Prefixes ==
  \A m \in 0 .. Len(QLens) : \A n \in 0 .. m :
    /\ Begin(n) <= Begin(m)
    /\ \A i \in 1 .. Begin(n) : StreamUpTo[m][i] = StreamUpTo[n][i]
<1> DEFINE P(m, n) == /\ Begin(n) <= Begin(m)
                      /\ \A i \in 1 .. Begin(n) : StreamUpTo[m][i] = StreamUpTo[n][i]
           T == {m \in Nat : m <= Len(QLens) => \A n \in 0 .. m : P(m, n)}
<1>1. 0 \in T
  BY StreamType, Lengths
<1>2. ASSUME NEW m \in Nat, m \in T
      PROVE  m + 1 \in T
  <2>1. SUFFICES ASSUME m + 1 <= Len(QLens), NEW n \in 0 .. m + 1
                 PROVE  P(m + 1, n)
    OBVIOUS
  <2>2. m \in 0 .. Len(QLens) - 1 /\ m + 1 \in 0 .. Len(QLens) /\ m \in 0 .. Len(QLens)
    BY <2>1, Lengths
  <2>3. CASE n = m + 1
    BY <2>2, <2>3, StreamType
  <2>4. CASE n \in 0 .. m
    <3>1. P(m, n)
      BY <1>2, <2>1, <2>4, Lengths
    <3>2. Begin(n) \in Nat /\ Begin(m) \in Nat /\ QLens[m + 1] \in Nat
      BY <2>2, <2>4, StreamType, Lengths
    <3>3. /\ Begin(m + 1) = Begin(m) + 2 + QLens[m + 1]
          /\ \A i \in 1 .. Begin(m) : StreamUpTo[m + 1][i] = StreamUpTo[m][i]
      BY <2>2, BeginStep
    <3> QED
      BY <3>1, <3>2, <3>3
  <2> QED
    BY <2>3, <2>4
<1> HIDE DEF T
<1>3. \A m \in Nat : m \in T
  BY <1>1, <1>2, SetInduction
<1> QED
  BY <1>3, Lengths DEF T
-----------------------------------------------------------------------------
\* The bytes of the stream after the i-th, up to the j-th.
Seg(i, j) == SubSeq(Stream, i + 1, j)

LEMMA StreamIs ==
  /\ Stream \in Seq(Place) /\ Len(Stream) \in Nat
  /\ Stream \in Seq(AnyByte)
  /\ Len(Stream) = Begin(Len(QLens))
  /\ \A n \in 0 .. Len(QLens) : Begin(n) \in 0 .. Len(Stream)
<1>1. Len(QLens) \in 0 .. Len(QLens)
  BY Lengths
<1>2. Stream \in Seq(Place) /\ Len(Stream) \in Nat /\ Len(Stream) = Begin(Len(QLens))
  BY <1>1, StreamType DEF Stream, Begin
<1>3. \A n \in 0 .. Len(QLens) : Begin(n) \in 0 .. Len(Stream)
  BY <1>1, <1>2, Prefixes, StreamType
<1>4. Stream \in Seq(AnyByte)
  <2> DEFINE s == Stream
  <2>1. s \in [1 .. Len(s) -> AnyByte] /\ Len(s) \in Nat
    BY <1>2 DEF AnyByte
  <2> HIDE DEF s
  <2>2. s \in Seq(AnyByte)
    BY <2>1
  <2> QED
    BY <2>2 DEF s
<1> QED
  BY <1>2, <1>3, <1>4

LEMMA StreamBytes ==
  ASSUME NEW n \in 0 .. Len(QLens) - 1
  PROVE  /\ Begin(n) \in Nat /\ QLens[n + 1] \in Nat
         /\ Begin(n + 1) = Begin(n) + 2 + QLens[n + 1] /\ Begin(n + 1) <= Len(Stream)
         /\ \A i \in 1 .. 2 + QLens[n + 1] : Stream[Begin(n) + i] = <<n + 1, i>>
<1>1. n \in 0 .. Len(QLens) /\ n + 1 \in 0 .. Len(QLens) /\ Len(QLens) \in 0 .. Len(QLens)
  BY Lengths
<1>2. /\ Begin(n) \in Nat /\ QLens[n + 1] \in Nat
      /\ Begin(n + 1) = Begin(n) + 2 + QLens[n + 1] /\ Begin(n + 1) <= Len(Stream)
  BY <1>1, StreamType, Lengths, BeginStep, StreamIs
<1>3. ASSUME NEW i \in 1 .. 2 + QLens[n + 1]
      PROVE  Stream[Begin(n) + i] = <<n + 1, i>>
  <2> DEFINE k == Begin(n) + i
  <2>1. k \in 1 .. Begin(n + 1)
    BY <1>2
  <2>2. StreamUpTo[n + 1][k] = <<n + 1, i>>
    BY BeginStep
  <2> HIDE DEF k
  <2>3. Stream[k] = StreamUpTo[n + 1][k]
    BY <1>1, <2>1, Prefixes DEF Stream
  <2> QED
    BY <2>2, <2>3 DEF k
<1> QED
  BY <1>2, <1>3

LEMMA SegType ==
  ASSUME NEW i \in Nat, NEW j \in Nat, j <= Len(Stream)
  PROVE  /\ Seg(i, j) \in Seq(AnyByte)
         /\ Len(Seg(i, j)) = IF i <= j THEN j - i ELSE 0
         /\ \A k \in 1 .. j - i : Seg(i, j)[k] = Stream[i + k]
<1>1. \A k \in i + 1 .. j : Stream[k] \in AnyByte
  BY StreamIs DEF AnyByte
<1>2. /\ Seg(i, j) \in Seq(AnyByte)
      /\ Len(Seg(i, j)) = IF i + 1 <= j THEN j - (i + 1) + 1 ELSE 0
      /\ \A k \in 1 .. j - (i + 1) + 1 : Seg(i, j)[k] = Stream[(i + 1) + k - 1]
  BY <1>1, SubSeqProperties DEF Seg
<1>3. ASSUME NEW k \in 1 .. j - i
      PROVE  Seg(i, j)[k] = Stream[i + k]
  <2>1. k \in 1 .. j - (i + 1) + 1 /\ (i + 1) + k - 1 = i + k
    OBVIOUS
  <2> QED
    BY <1>2, <2>1
<1> QED
  BY <1>2, <1>3

LEMMA SegEmpty ==
  ASSUME NEW i \in Nat, NEW j \in Nat, j <= i
  PROVE  Seg(i, j) = <<>>
BY SubSeqEmpty DEF Seg

LEMMA SegConcat ==
  ASSUME NEW i \in Nat, NEW k \in Nat, NEW j \in Nat, i <= k, k <= j, j <= Len(Stream)
  PROVE  Seg(i, k) \o Seg(k, j) = Seg(i, j)
<1>1. i + 1 \in 1 .. Len(Stream) + 1 /\ k \in (i + 1) - 1 .. Len(Stream) /\ j \in k .. Len(Stream)
  BY StreamIs
<1> QED
  BY <1>1, StreamIs, ConcatAdjacentSubSeq DEF Seg

LEMMA SegTake ==
  ASSUME NEW i \in Nat, NEW j \in Nat, i <= j, j <= Len(Stream), NEW k \in Nat
  PROVE  Take(Seg(i, j), k) = Seg(i, Lesser(i + k, j))
<1>1. Len(Seg(i, j)) = j - i
  BY SegType
<1>2. CASE Lesser(k, j - i) = 0
  <2>1. Take(Seg(i, j), k) = <<>>
    BY <1>1, <1>2, SubSeqEmpty DEF Take
  <2>2. Lesser(i + k, j) = i
    BY <1>2 DEF Lesser
  <2> QED
    BY <2>1, <2>2, SegEmpty
<1>3. CASE Lesser(k, j - i) # 0
  <2> DEFINE n == Lesser(k, j - i)
  <2>1. n \in 1 .. j - i /\ Lesser(i + k, j) = i + n
    BY <1>3 DEF Lesser
  <2>2. i + 1 \in 1 .. Len(Stream) /\ j \in 1 .. Len(Stream)
        /\ 1 \in 1 .. j - (i + 1) + 1 /\ n \in 1 .. j - (i + 1) + 1
    BY <2>1, StreamIs
  <2> HIDE DEF n
  <2>3. SubSeq(SubSeq(Stream, i + 1, j), 1, n) = SubSeq(Stream, (i + 1) + 1 - 1, (i + 1) + n - 1)
    BY <2>2, StreamIs, SubSeqOfSubSeq
  <2>4. (i + 1) + 1 - 1 = i + 1 /\ (i + 1) + n - 1 = i + n
    BY <2>1
  <2> QED
    BY <1>1, <2>1, <2>3, <2>4 DEF Take, Seg, n
<1> QED
  BY <1>2, <1>3

LEMMA SegDrop ==
  ASSUME NEW i \in Nat, NEW j \in Nat, i <= j, j <= Len(Stream), NEW k \in Nat
  PROVE  Drop(Seg(i, j), k) = Seg(i + k, j)
<1>1. Len(Seg(i, j)) = j - i
  BY SegType
<1>2. CASE k >= j - i
  <2>1. Drop(Seg(i, j), k) = <<>>
    BY <1>1, <1>2, SubSeqEmpty DEF Drop
  <2> QED
    BY <1>2, <2>1, SegEmpty
<1>3. CASE k < j - i
  <2>1. i + 1 \in 1 .. Len(Stream) /\ j \in 1 .. Len(Stream)
        /\ k + 1 \in 1 .. j - (i + 1) + 1 /\ j - i \in 1 .. j - (i + 1) + 1
    BY <1>3, StreamIs
  <2>2. SubSeq(SubSeq(Stream, i + 1, j), k + 1, j - i)
          = SubSeq(Stream, (i + 1) + (k + 1) - 1, (i + 1) + (j - i) - 1)
    BY <2>1, StreamIs, SubSeqOfSubSeq
  <2>3. (i + 1) + (k + 1) - 1 = (i + k) + 1 /\ (i + 1) + (j - i) - 1 = j
    OBVIOUS
  <2> QED
    BY <1>1, <2>2, <2>3 DEF Drop, Seg
<1> QED
  BY <1>2, <1>3

LEMMA UpToIsSeg ==
  ASSUME NEW n \in 0 .. Len(QLens)
  PROVE  StreamUpTo[n] = Seg(0, Begin(n))
<1> DEFINE s == StreamUpTo[n]
           t == Seg(0, Begin(n))
<1>1. Begin(n) \in Nat /\ Begin(n) <= Len(Stream) /\ Len(QLens) \in 0 .. Len(QLens)
  BY StreamIs, Lengths
<1>2. s \in Seq(Place) /\ Len(s) = Begin(n)
  BY StreamType DEF Begin
<1>3. \A i \in 1 .. Begin(n) : Stream[i] = s[i]
  BY <1>1, Prefixes DEF Stream
<1>4. t = SubSeq(Stream, 1, Begin(n))
  BY DEF Seg
<1>5. \A i \in 1 .. Begin(n) : Stream[i] \in Place
  BY <1>1, StreamIs, ElementOfSeq
<1> HIDE DEF s, t
<1>6. /\ t \in Seq(Place) /\ Len(t) = IF 1 <= Begin(n) THEN Begin(n) - 1 + 1 ELSE 0
      /\ \A i \in 1 .. Begin(n) - 1 + 1 : t[i] = Stream[1 + i - 1]
  BY <1>1, <1>4, <1>5, SubSeqProperties
<1>7. Len(t) = Len(s) /\ \A i \in 1 .. Len(t) : t[i] = s[i]
  <2>1. Len(t) = Begin(n)
    BY <1>1, <1>6
  <2>2. ASSUME NEW i \in 1 .. Begin(n)
        PROVE  t[i] = s[i]
    <3>1. i \in 1 .. Begin(n) - 1 + 1 /\ 1 + i - 1 = i
      BY <1>1
    <3> QED
      BY <1>3, <1>6, <3>1
  <2> QED
    BY <1>2, <2>1, <2>2
<1>8. s = t
  BY <1>2, <1>6, <1>7, SeqEqual
<1> QED
  BY <1>8 DEF s, t

LEMMA BodyIsSeg ==
  ASSUME NEW n \in 0 .. Len(QLens) - 1
  PROVE  Body(n + 1) = Seg(Begin(n) + 2, Begin(n + 1))
<1> DEFINE b == Bytes(n + 1)
           s == Body(n + 1)
           t == Seg(Begin(n) + 2, Begin(n + 1))
           l == QLens[n + 1]
<1>1. n + 1 \in 1 .. Len(QLens)
  BY Lengths
<1>2. b \in Seq(Place) /\ Len(b) = 2 + l /\ l \in Nat
      /\ \A i \in 1 .. 2 + l : b[i] = <<n + 1, i>>
  BY <1>1, BytesType, StreamBytes
<1>3. s = SubSeq(b, 3, 2 + l)
  BY DEF Body, HeaderSize
<1>4. /\ Begin(n) \in Nat /\ Begin(n + 1) = Begin(n) + 2 + l /\ Begin(n + 1) <= Len(Stream)
      /\ \A i \in 1 .. 2 + l : Stream[Begin(n) + i] = <<n + 1, i>>
  BY StreamBytes
<1>5. t = SubSeq(Stream, Begin(n) + 2 + 1, Begin(n + 1))
  BY DEF Seg
<1> HIDE DEF b, s, t, l
<1>6. \A i \in 3 .. 2 + l : b[i] \in Place
  BY <1>2, ElementOfSeq
<1>7. /\ s \in Seq(Place) /\ Len(s) = l
      /\ \A i \in 1 .. l : s[i] = <<n + 1, 2 + i>>
  <2>1. /\ s \in Seq(Place) /\ Len(s) = IF 3 <= 2 + l THEN (2 + l) - 3 + 1 ELSE 0
        /\ \A i \in 1 .. (2 + l) - 3 + 1 : s[i] = b[3 + i - 1]
    BY <1>2, <1>3, <1>6, SubSeqProperties
  <2>2. ASSUME NEW i \in 1 .. l
        PROVE  s[i] = <<n + 1, 2 + i>>
    <3>1. i \in 1 .. (2 + l) - 3 + 1 /\ 3 + i - 1 = 2 + i /\ 2 + i \in 1 .. 2 + l
      BY <1>2
    <3> QED
      BY <2>1, <3>1, <1>2
  <2> QED
    BY <1>2, <2>1, <2>2
<1>8. /\ t \in Seq(Place) /\ Len(t) = l
      /\ \A i \in 1 .. l : t[i] = <<n + 1, 2 + i>>
  <2> DEFINE m == Begin(n) + 2
             k == Begin(n + 1)
  <2>1. m \in Nat /\ k \in Nat /\ k <= Len(Stream) /\ k = m + l
    BY <1>2, <1>4
  <2>2. t = Seg(m, k)
    BY DEF t
  <2> HIDE DEF m, k
  <2>3. /\ t \in Seq(AnyByte) /\ Len(t) = IF m <= k THEN k - m ELSE 0
        /\ \A i \in 1 .. k - m : t[i] = Stream[m + i]
    BY <2>1, <2>2, SegType
  <2>4. AnyByte \subseteq Place
    BY StreamIs, ElementOfSeq DEF AnyByte
  <2>5. ASSUME NEW i \in 1 .. l
        PROVE  t[i] = <<n + 1, 2 + i>>
    <3>1. i \in 1 .. k - m /\ 2 + i \in 1 .. 2 + l
      BY <1>2, <2>1
    <3>2. t[i] = Stream[m + i]
      BY <2>3, <3>1
    <3>3. m + i = Begin(n) + (2 + i)
      BY <1>4 DEF m
    <3>4. Stream[Begin(n) + (2 + i)] = <<n + 1, 2 + i>>
      BY <1>4, <3>1
    <3> QED
      BY <3>2, <3>3, <3>4
  <2>6. t \in Seq(Place)
    BY <2>3, <2>4, SeqMonotonic
  <2>7. Len(t) = l
    BY <1>2, <2>1, <2>3
  <2> QED
    BY <2>5, <2>6, <2>7
<1>9. s = t
  <2>1. \A i \in 1 .. Len(s) : s[i] = t[i]
    BY <1>7, <1>8
  <2> QED
    BY <1>7, <1>8, <2>1, SeqEqual
<1> QED
  BY <1>9 DEF s, t

LEMMA HeaderDecodes ==
  ASSUME NEW n \in 0 .. Len(QLens) - 1
  PROVE  Decode(Seg(Begin(n), Begin(n) + 2)) = {QLens[n + 1]}
<1> DEFINE m == Begin(n)
           h == Seg(m, m + 2)
<1>1. /\ Begin(n) \in Nat /\ Begin(n) + 2 <= Len(Stream) /\ QLens[n + 1] \in Nat
      /\ Stream[Begin(n) + 1] = <<n + 1, 1>> /\ Stream[Begin(n) + 2] = <<n + 1, 2>>
  BY StreamBytes, StreamIs, Lengths
<1>2. h[1] = Stream[m + 1] /\ h[2] = Stream[m + 2]
  <2>1. m \in Nat /\ m + 2 \in Nat /\ m + 2 <= Len(Stream)
    BY <1>1
  <2> HIDE DEF m
  <2>2. \A k \in 1 .. (m + 2) - m : h[k] = Stream[m + k]
    BY <2>1, SegType
  <2> QED
    BY <2>1, <2>2
<1> HIDE DEF h
<1>3. h[1] = <<n + 1, 1>> /\ h[2] = <<n + 1, 2>>
  BY <1>1, <1>2
<1>4. Decode(h) = {QLens[n + 1]}
  BY <1>3 DEF Decode
<1> QED
  BY <1>4 DEF h
-----------------------------------------------------------------------------
\* The bytes up to the p-th have been cut: into n queries, and what is in the
\* scratch buffer.
Scratch(n, p) ==
  /\ n \in 0 .. Len(QLens) /\ p \in Begin(n) .. Len(Stream)
  /\ qlenBuf = Seg(Begin(n), Lesser(p, Begin(n) + 2))
  /\ qBuf = Seg(Begin(n) + 2, p)
  /\ p >= Begin(n) + 2 => n < Len(QLens) /\ qlen = QLens[n + 1]

\* A header that has been read is valid, and its query is not complete.
Partial(n, p) ==
  p >= Begin(n) + 2 => ValidateSize(QLens[n + 1]) /\ p < Begin(n + 1)

\* An invalid header stays in the scratch buffer, and nothing gets past it.
Stuck ==
  /\ sock = "closed"
  /\ qlenBuf \in Seq(AnyByte) /\ Len(qlenBuf) = 2
  /\ qlen \in 0 .. MaxSize + 1 /\ ~ValidateSize(qlen)
  /\ qBuf = <<>>

NoneHeld(S) == \A t \in S : t.oob = <<>>

\* As long as the socket is open, nothing that was cut is forgotten.
Remembered(n) == sock = "open" => Resolved = {Body(q) : q \in 1 .. n}

\* Either all that came in is cut, or one call holds the rest.
AllCut(n, p) == p = received /\ NoneHeld(tasks)
OneHolds(n, p) ==
  /\ p < received /\ p = Begin(n)
  /\ \E t \in tasks : t.oob = Seg(p, received) /\ NoneHeld(tasks \ {t})

NodeOK ==
  \/ Stuck /\ NoneHeld(tasks)
  \/ \E n \in 0 .. Len(QLens), p \in 0 .. Len(Stream) :
       /\ Scratch(n, p) /\ Partial(n, p) /\ Remembered(n)
       /\ AllCut(n, p) \/ OneHolds(n, p)

DenoOK ==
  sock = "open" =>
    \E n \in 0 .. Len(QLens) :
      /\ received \in {Begin(n), Begin(n) + 2}
      /\ Scratch(n, received) /\ Remembered(n)

TasksOK ==
  \A t \in tasks : \E n \in 0 .. Len(QLens) - 1 :
    /\ t.query = Body(n + 1)
    /\ runtime = "node" => QLens[n + 1] <= MaxSize

\* The rest of the types: on Node, Scratch and Stuck give the scratch buffer's.
FramingTyped ==
  /\ runtime \in {"node", "deno", "exited"} /\ sock \in {"open", "closed"}
  /\ runtime = "exited" => sock = "closed"
  /\ received \in 0 .. Len(Stream) /\ qlen \in 0 .. MaxSize + 1
  /\ runtime # "node" => /\ qlenBuf \in Seq(AnyByte) /\ Len(qlenBuf) <= 2
                         /\ qBuf \in Seq(AnyByte) /\ Len(qBuf) <= MaxSize + 1

FramingInv ==
  /\ FramingTyped /\ TasksOK
  /\ runtime = "node" => NodeOK
  /\ runtime # "node" => NoneHeld(tasks) /\ DenoOK

\* handleTCPData() on the next bytes: it keeps them all, gets stuck, or cuts
\* exactly the next query and holds what comes after it.
KeepsAll(n, r, others, s) ==
  Scratch(n, r)' /\ Partial(n, r) /\ tasks' = others /\ sock' = s

CutsNext(n, r, others, s) ==
  /\ n < Len(QLens) /\ Begin(n + 1) <= r /\ ValidateSize(QLens[n + 1])
  /\ Scratch(n + 1, Begin(n + 1))' /\ Partial(n + 1, Begin(n + 1))
  /\ tasks' = others \cup {[query |-> Body(n + 1), oob |-> Seg(Begin(n + 1), r)]}
  /\ sock' = s

LEMMA HandleCuts ==
  ASSUME NEW n, NEW p, Scratch(n, p), Partial(n, p), qlen \in 0 .. MaxSize + 1,
         NEW r \in Nat, p < r, r <= Len(Stream), NEW others, NEW s,
         HandleTCPData(Seg(p, r), others, s)
  PROVE  /\ qlen' \in 0 .. MaxSize + 1
         /\ \/ KeepsAll(n, r, others, s)
            \/ Stuck' /\ tasks' = others
            \/ CutsNext(n, r, others, s)
<1> DEFINE B == Begin(n)
           e == Begin(n + 1)
           m == QLens[n + 1]
           d == IF p < B + 2 THEN B + 2 ELSE p
<1>1. /\ n \in 0 .. Len(QLens) /\ B \in Nat /\ p \in Nat /\ B <= p /\ p <= Len(Stream)
      /\ Len(Stream) \in Nat
  BY StreamIs DEF Scratch
<1>2. n \in 0 .. Len(QLens) - 1
  BY <1>1, StreamIs, Lengths
<1>3. m \in 0 .. MaxSize + 1 /\ e = B + 2 + m /\ e \in Nat /\ e <= Len(Stream)
  <2>1. n + 1 \in 1 .. Len(QLens)
    BY <1>2, Lengths
  <2> QED
    BY <1>2, <2>1, StreamBytes, Lengths
<1>4. /\ qlenBuf = Seg(B, Lesser(p, B + 2)) /\ qBuf = Seg(B + 2, p)
      /\ p >= B + 2 => qlen = m /\ ValidateSize(m) /\ p < e
  BY DEF Scratch, Partial
<1>5. Decode(Seg(B, B + 2)) = {m}
  BY <1>2, HeaderDecodes
<1> DEFINE rem == HeaderSize - Len(qlenBuf)
           header == qlenBuf \o Take(Seg(p, r), rem)
           data == Drop(Seg(p, r), rem)
<1> HIDE DEF B, e, m
<1>6. rem = (IF p < B + 2 THEN B + 2 - p ELSE 0) /\ rem \in Nat
  <2>1. Lesser(p, B + 2) \in Nat /\ B <= Lesser(p, B + 2) /\ Lesser(p, B + 2) <= Len(Stream)
    BY <1>1 DEF Lesser
  <2>2. Len(qlenBuf) = Lesser(p, B + 2) - B
    BY <1>1, <1>4, <2>1, SegType
  <2> QED
    BY <1>1, <2>2 DEF Lesser, HeaderSize
<1> HIDE DEF rem
<1>7. header = Seg(B, Lesser(r, B + 2))
  <2>1. Take(Seg(p, r), rem) = Seg(p, Lesser(p + rem, r))
    <3>1. p <= r
      BY <1>1
    <3> QED
      BY <1>1, <1>6, <3>1, SegTake, Zenon
  <2>2. CASE p < B + 2
    <3>1. Lesser(p + rem, r) = Lesser(r, B + 2) /\ Lesser(p, B + 2) = p
          /\ p <= Lesser(r, B + 2) /\ Lesser(r, B + 2) <= Len(Stream) /\ Lesser(r, B + 2) \in Nat
      BY <1>1, <1>6, <2>2 DEF Lesser
    <3>2. Seg(B, p) \o Seg(p, Lesser(r, B + 2)) = Seg(B, Lesser(r, B + 2))
      BY <1>1, <3>1, SegConcat
    <3> QED
      BY <1>4, <2>1, <3>1, <3>2
  <2>3. CASE ~(p < B + 2)
    <3>1. Lesser(p + rem, r) = p /\ Lesser(p, B + 2) = B + 2 /\ Lesser(r, B + 2) = B + 2
      BY <1>1, <1>6, <2>3 DEF Lesser
    <3>2. Seg(p, p) = <<>>
      BY <1>1, SegEmpty
    <3>3. Seg(B, B + 2) \in Seq(AnyByte)
      <4>1. B + 2 \in Nat /\ B + 2 <= Len(Stream)
        BY <1>1, <2>3
      <4> QED
        BY <1>1, <4>1, SegType
    <3> QED
      BY <1>4, <2>1, <3>1, <3>2, <3>3, ConcatEmptySeq
  <2> QED
    BY <2>2, <2>3
<1>8. Len(header) = IF r < B + 2 THEN r - B ELSE 2
  <2>1. Lesser(r, B + 2) \in Nat /\ B <= Lesser(r, B + 2) /\ Lesser(r, B + 2) <= Len(Stream)
    BY <1>1 DEF Lesser
  <2>2. Len(header) = Lesser(r, B + 2) - B
    BY <1>1, <1>7, <2>1, SegType
  <2> QED
    BY <1>1, <2>2 DEF Lesser
<1>9. data = Seg(d, r) /\ d \in Nat
  <2>1. p <= r
    BY <1>1
  <2>2. data = Seg(p + rem, r)
    BY <1>1, <1>6, <2>1, SegDrop, Zenon
  <2>3. p + rem = d /\ d \in Nat
    BY <1>1, <1>6
  <2> QED
    BY <2>2, <2>3
<1>10. qBuf = Seg(B + 2, d) /\ Len(qBuf) = d - (B + 2) /\ d >= B + 2
  <2>1. CASE p < B + 2
    <3>1. Seg(B + 2, p) = <<>> /\ Seg(B + 2, B + 2) = <<>>
      BY <1>1, <2>1, SegEmpty
    <3> QED
      BY <1>1, <1>4, <2>1, <3>1
  <2>2. CASE ~(p < B + 2)
    <3>1. Len(Seg(B + 2, p)) = p - (B + 2)
      <4>1. B + 2 \in Nat /\ B + 2 <= p
        BY <1>1, <2>2
      <4>2. Len(Seg(B + 2, p)) = IF B + 2 <= p THEN p - (B + 2) ELSE 0
        BY <1>1, <4>1, SegType, Zenon
      <4> QED
        BY <4>1, <4>2
    <3> QED
      BY <1>1, <1>4, <2>2, <3>1
  <2> QED
    BY <2>1, <2>2
<1> HIDE DEF d, header, data
<1>11. CASE r < B + 2
  <2>1. Len(header) < HeaderSize
    BY <1>1, <1>8, <1>11 DEF HeaderSize
  <2>2. qlenBuf' = header /\ tasks' = others /\ sock' = s /\ UNCHANGED <<qlen, qBuf>>
    BY <2>1 DEF HandleTCPData, header, rem
  <2>3. Seg(B + 2, p) = <<>> /\ Seg(B + 2, r) = <<>>
    BY <1>1, <1>11, SegEmpty
  <2>4. KeepsAll(n, r, others, s)
    BY <1>1, <1>4, <1>7, <1>11, <2>2, <2>3 DEF KeepsAll, Scratch, Partial, B
  <2> QED
    BY <2>2, <2>4
<1>12. CASE r >= B + 2
  <2> DEFINE missing == m - Len(qBuf)
             query == qBuf \o Take(data, missing)
  <2>1. header = Seg(B, B + 2) /\ Len(header) = HeaderSize
    <3>1. Lesser(r, B + 2) = B + 2 /\ ~(r < B + 2)
      BY <1>1, <1>12 DEF Lesser
    <3> QED
      BY <1>7, <1>8, <3>1 DEF HeaderSize
  <2>2. (IF rem = 0 THEN {qlen} ELSE Decode(header)) = {m}
    BY <1>1, <1>4, <1>5, <1>6, <2>1
  <2>3. d <= r /\ d <= e
    BY <1>1, <1>3, <1>4, <1>12 DEF d
  <2>4. missing \in Nat /\ d + missing = e
    BY <1>1, <1>3, <1>9, <1>10, <2>3
  <2>5. query = Seg(B + 2, Lesser(e, r)) /\ Len(query) = Lesser(e, r) - (B + 2)
    <3>1. Take(data, missing) = Seg(d, Lesser(e, r))
      BY <1>9, <2>3, <2>4, SegTake
    <3>2. d <= Lesser(e, r) /\ Lesser(e, r) \in Nat /\ Lesser(e, r) <= Len(Stream)
      BY <1>3, <2>3 DEF Lesser
    <3>3. B + 2 \in Nat /\ B + 2 <= Lesser(e, r)
      BY <1>1, <1>9, <1>10, <3>2
    <3>4. Seg(B + 2, d) \o Seg(d, Lesser(e, r)) = Seg(B + 2, Lesser(e, r))
      BY <1>9, <1>10, <3>2, <3>3, SegConcat
    <3>5. Len(Seg(B + 2, Lesser(e, r))) = Lesser(e, r) - (B + 2)
      BY <3>2, <3>3, SegType
    <3> QED
      BY <1>10, <3>1, <3>4, <3>5
  <2>6. Drop(data, missing) = Seg(e, r)
    BY <1>9, <2>3, <2>4, SegDrop
  <2> DEFINE Invalid == /\ ~ValidateSize(m)
                        /\ qlenBuf' = header /\ qlen' = m
                        /\ tasks' = others /\ sock' = "closed"
                        /\ UNCHANGED qBuf
             Goes == /\ ValidateSize(m) /\ Len(query) < m
                     /\ qlenBuf' = header /\ qlen' = m /\ qBuf' = query
                     /\ tasks' = others /\ sock' = s
             Completes == /\ ValidateSize(m) /\ Len(query) = m
                          /\ EmptyScratch
                          /\ tasks' = others \cup {[query |-> query, oob |-> Drop(data, missing)]}
                          /\ sock' = s
  <2>7. Invalid \/ Goes \/ Completes
    <3>1. \E k \in IF rem = 0 THEN {qlen} ELSE Decode(header) :
            LET missing_k == k - Len(qBuf)
                query_k == qBuf \o Take(data, missing_k)
            IN
            \/ /\ ~ValidateSize(k)
               /\ qlenBuf' = header /\ qlen' = k
               /\ tasks' = others /\ sock' = "closed"
               /\ UNCHANGED qBuf
            \/ /\ ValidateSize(k) /\ Len(query_k) < k
               /\ qlenBuf' = header /\ qlen' = k /\ qBuf' = query_k
               /\ tasks' = others /\ sock' = s
            \/ /\ ValidateSize(k) /\ Len(query_k) = k
               /\ EmptyScratch
               /\ tasks' = others \cup {[query |-> query_k, oob |-> Drop(data, missing_k)]}
               /\ sock' = s
      <4>1. ~(Len(header) < HeaderSize)
        BY <2>1 DEF HeaderSize
      <4> QED
        BY <4>1, Zenon DEF HandleTCPData, header, data, rem
    <3>2. PICK k \in {m} : 
            LET missing_k == k - Len(qBuf)
                query_k == qBuf \o Take(data, missing_k)
            IN
            \/ /\ ~ValidateSize(k)
               /\ qlenBuf' = header /\ qlen' = k
               /\ tasks' = others /\ sock' = "closed"
               /\ UNCHANGED qBuf
            \/ /\ ValidateSize(k) /\ Len(query_k) < k
               /\ qlenBuf' = header /\ qlen' = k /\ qBuf' = query_k
               /\ tasks' = others /\ sock' = s
            \/ /\ ValidateSize(k) /\ Len(query_k) = k
               /\ EmptyScratch
               /\ tasks' = others \cup {[query |-> query_k, oob |-> Drop(data, missing_k)]}
               /\ sock' = s
      BY <2>2, <3>1, Zenon
    <3>3. k = m
      OBVIOUS
    <3> QED
      BY <3>2, <3>3, Zenon
  <2> HIDE DEF query, missing
  <2>8. CASE Invalid
    <3>1. p < B + 2
      BY <1>1, <1>4, <2>8
    <3>2. qBuf = <<>>
      BY <1>1, <1>4, <3>1, SegEmpty
    <3>3. Seg(B, B + 2) \in Seq(AnyByte)
      BY <1>1, <1>12, SegType
    <3> QED
      BY <1>3, <2>1, <2>8, <3>2, <3>3 DEF Stuck, HeaderSize
  <2>9. CASE Goes
    <3>1. r < e /\ Lesser(e, r) = r /\ Lesser(r, B + 2) = B + 2
      BY <1>1, <1>3, <1>12, <2>5, <2>9 DEF Lesser
    <3>2. Scratch(n, r)'
      BY <1>1, <1>2, <2>1, <2>5, <2>9, <3>1, Lengths DEF Scratch, B, m
    <3>3. Partial(n, r)
      BY <2>9, <3>1 DEF Partial, m, e
    <3> QED
      BY <1>3, <2>9, <3>2, <3>3 DEF KeepsAll
  <2>10. CASE Completes
    <3>1. e <= r /\ Lesser(e, r) = e
      BY <1>1, <1>3, <2>5, <2>10 DEF Lesser
    <3>2. query = Body(n + 1)
      BY <1>2, <2>5, <3>1, BodyIsSeg DEF B, e
    <3>3. Seg(e, e) = <<>> /\ Seg(e + 2, e) = <<>> /\ Lesser(e, e + 2) = e
      BY <1>3, SegEmpty DEF Lesser
    <3>4. Scratch(n + 1, e)'
      <4>1. n + 1 \in 0 .. Len(QLens) /\ e \in e .. Len(Stream) /\ ~(e >= e + 2)
        BY <1>2, <1>3, StreamIs, Lengths
      <4>2. qlenBuf' = <<>> /\ qBuf' = <<>>
        BY <2>10 DEF EmptyScratch
      <4> QED
        BY <3>3, <4>1, <4>2 DEF Scratch, e
    <3>5. Partial(n + 1, e)
      BY <1>3 DEF Partial, e
    <3>6. CutsNext(n, r, others, s)
      BY <1>2, <2>6, <2>10, <3>1, <3>2, <3>4, <3>5, Lengths DEF CutsNext, e, m
    <3> QED
      BY <2>10, <3>6, Lengths DEF EmptyScratch
  <2> QED
    BY <2>7, <2>8, <2>9, <2>10
<1> QED
  BY <1>1, <1>11, <1>12

LEMMA HandleStuck ==
  ASSUME Stuck, NEW chunk \in Seq(AnyByte), NEW others, NEW s, s = "closed",
         HandleTCPData(chunk, others, s)
  PROVE  Stuck' /\ tasks' = others
<1>1. HeaderSize - Len(qlenBuf) = 0
  BY DEF Stuck, HeaderSize
<1>2. Take(chunk, 0) = <<>>
  BY SubSeqEmpty DEF Take, Lesser
<1>3. qlenBuf \o Take(chunk, 0) = qlenBuf
  BY <1>2, ConcatEmptySeq DEF Stuck
<1> QED
  BY <1>1, <1>3 DEF HandleTCPData, Stuck, HeaderSize

-----------------------------------------------------------------------------
Bodies(n) == {Body(q) : q \in 1 .. n}

LEMMA BodiesStep ==
  ASSUME NEW n \in Nat
  PROVE  Bodies(0) = {} /\ Bodies(n + 1) = Bodies(n) \cup {Body(n + 1)}
<1>1. 1 .. n + 1 = (1 .. n) \cup {n + 1} /\ 1 .. 0 = {}
  OBVIOUS
<1> QED
  BY <1>1 DEF Bodies

LEMMA TcpInitInv ==
  TcpInit => FramingInv
<1> SUFFICES ASSUME TcpInit PROVE FramingInv
  OBVIOUS
<1> USE DEF TcpInit, NodeInit
<1>1. /\ Begin(0) = 0 /\ 0 \in 0 .. Len(QLens) /\ 0 \in 0 .. Len(Stream)
      /\ Seg(0, 0) = <<>> /\ Seg(2, 0) = <<>>
  BY BeginStep, Lengths, StreamIs, SegEmpty
<1>2. Scratch(0, 0) /\ Partial(0, 0)
  BY <1>1 DEF Scratch, Partial, Lesser
<1>3. Remembered(0)
  BY BodiesStep DEF Remembered, Resolved, Handled, Bodies
<1>4. NoneHeld(tasks) /\ AllCut(0, 0) /\ TasksOK
  BY DEF NoneHeld, AllCut, TasksOK
<1>5. FramingTyped
  <2>1. <<>> \in Seq(AnyByte) /\ Len(<<>>) = 0
    OBVIOUS
  <2> QED
    BY <1>1, <2>1, Lengths DEF FramingTyped
<1>6. NodeOK
  BY <1>1, <1>2, <1>3, <1>4 DEF NodeOK
<1>7. DenoOK
  BY <1>1, <1>2, <1>3 DEF DenoOK
<1> QED
  BY <1>4, <1>5, <1>6, <1>7 DEF FramingInv

\* However handleTCPData() ends, the node's part of the invariant holds after it.
LEMMA CutKeepsNodeOK ==
  ASSUME NEW n \in 0 .. Len(QLens), NEW others, NEW s, NoneHeld(others),
         NEW r \in 0 .. Len(Stream), received' = r,
         s = "open" => Handled' \cup {t.query : t \in others} = Bodies(n),
         \/ KeepsAll(n, r, others, s)
         \/ Stuck' /\ tasks' = others
         \/ CutsNext(n, r, others, s)
  PROVE  NodeOK'
<1> DEFINE e == Begin(n + 1)
<1>1. CASE KeepsAll(n, r, others, s)
  <2>1. Remembered(n)' /\ AllCut(n, r)'
    BY <1>1 DEF KeepsAll, Remembered, Resolved, Bodies, AllCut, NoneHeld
  <2> QED
    BY <1>1, <2>1 DEF KeepsAll, NodeOK, Partial
<1>2. CASE Stuck' /\ tasks' = others
  BY <1>2 DEF NodeOK, NoneHeld
<1>3. CASE CutsNext(n, r, others, s)
  <2> DEFINE c == [query |-> Body(n + 1), oob |-> Seg(e, r)]
  <2>1. tasks' = others \cup {c} /\ sock' = s /\ e <= r
    BY <1>3 DEF CutsNext
  <2>2. n + 1 \in 0 .. Len(QLens) /\ e \in 0 .. Len(Stream) /\ n \in Nat
    BY <1>3, Lengths, StreamIs DEF CutsNext
  <2>3. Scratch(n + 1, e)' /\ Partial(n + 1, e)'
    BY <1>3 DEF CutsNext, Partial
  <2>4. Remembered(n + 1)'
    <3>1. {t.query : t \in tasks'} = {t.query : t \in others} \cup {Body(n + 1)}
      <4>1. c.query = Body(n + 1)
        OBVIOUS
      <4> HIDE DEF c
      <4> QED
        BY <2>1, <4>1
    <3> QED
      BY <2>1, <2>2, <3>1, BodiesStep DEF Remembered, Resolved, Bodies
  <2>5. CASE e = r
    <3>1. c.oob = <<>>
      BY <2>2, <2>5, SegEmpty
    <3>2. AllCut(n + 1, e)'
      BY <2>1, <2>5, <3>1 DEF AllCut, NoneHeld
    <3> QED
      BY <2>2, <2>3, <2>4, <3>2 DEF NodeOK
  <2>6. CASE e < r
    <3>1. NoneHeld(tasks' \ {c}) /\ c \in tasks' /\ c.oob = Seg(e, r)
      BY <2>1 DEF NoneHeld
    <3>2. OneHolds(n + 1, e)'
      BY <2>6, <3>1 DEF OneHolds, NoneHeld
    <3> QED
      BY <2>2, <2>3, <2>4, <3>2 DEF NodeOK
  <2> QED
    BY <2>1, <2>2, <2>5, <2>6
<1> QED
  BY <1>1, <1>2, <1>3

LEMMA CutKeepsTasksOK ==
  ASSUME TasksOK, NEW n \in 0 .. Len(QLens), NEW others, others \subseteq tasks, NEW s, NEW r,
         runtime' = runtime,
         KeepsAll(n, r, others, s) \/ tasks' = others \/ CutsNext(n, r, others, s)
  PROVE  TasksOK'
<1>1. CASE tasks' = others
  BY <1>1 DEF TasksOK
<1>2. CASE CutsNext(n, r, others, s)
  <2> DEFINE c == [query |-> Body(n + 1), oob |-> Seg(Begin(n + 1), r)]
  <2>1. tasks' = others \cup {c}
    BY <1>2 DEF CutsNext
  <2>2. n \in 0 .. Len(QLens) - 1 /\ c.query = Body(n + 1) /\ QLens[n + 1] <= MaxSize
    BY <1>2, Lengths DEF CutsNext, ValidateSize
  <2> HIDE DEF c
  <2> QED
    BY <2>1, <2>2 DEF TasksOK
<1> QED
  BY <1>1, <1>2 DEF KeepsAll
-----------------------------------------------------------------------------
\* Node's steps that cut: bytes come in, or a call goes on with those it held.
LEMMA CutKeepsInv ==
  ASSUME FramingInv, runtime = "node", runtime' = "node",
         NEW n, NEW p, Scratch(n, p), Partial(n, p),
         NEW r \in 0 .. Len(Stream), p < r, received' = r,
         NEW others, others \subseteq tasks, NoneHeld(others),
         NEW s \in {"open", "closed"},
         s = "open" => Handled' \cup {t.query : t \in others} = Bodies(n),
         HandleTCPData(Seg(p, r), others, s)
  PROVE  FramingInv'
<1>1. n \in 0 .. Len(QLens)
  BY DEF Scratch
<1>2. Len(Stream) \in Nat /\ r \in Nat /\ r <= Len(Stream) /\ qlen \in 0 .. MaxSize + 1
  BY StreamIs DEF FramingInv, FramingTyped
<1>3. /\ qlen' \in 0 .. MaxSize + 1
      /\ \/ KeepsAll(n, r, others, s)
         \/ Stuck' /\ tasks' = others
         \/ CutsNext(n, r, others, s)
  BY <1>2, HandleCuts
<1>4. NodeOK'
  BY <1>1, <1>3, CutKeepsNodeOK
<1>5. TasksOK'
  BY <1>1, <1>3, CutKeepsTasksOK DEF FramingInv
<1>6. sock' \in {"open", "closed"}
  BY <1>3 DEF KeepsAll, CutsNext, Stuck
<1>7. FramingTyped'
  BY <1>3, <1>6 DEF FramingTyped
<1> QED
  BY <1>4, <1>5, <1>7 DEF FramingInv

LEMMA DataInv ==
  ASSUME FramingInv, Overlap = FALSE, runtime = "node", runtime' = "node",
         unanswered' = unanswered, NEW k \in 1 .. MaxChunk, Data(k)
  PROVE  FramingInv'
<1> DEFINE r == received + k
<1>1. /\ k \in Nat \ {0} /\ received \in Nat /\ r \in 0 .. Len(Stream) /\ received < r
      /\ received' = r /\ Handled' = Handled
      /\ HandleTCPData(Seg(received, r), tasks, sock)
  BY FramingAssumption, StreamIs DEF Data, FramingInv, FramingTyped, Seg, Handled
<1>2. NoneHeld(tasks)
  BY DEF Data, Holding, NoneHeld
<1> HIDE DEF r
<1>3. CASE Stuck
  <2>1. Seg(received, r) \in Seq(AnyByte)
    BY <1>1, StreamIs, SegType
  <2>2. Stuck' /\ tasks' = tasks
    BY <1>1, <1>3, <2>1, HandleStuck DEF Stuck
  <2>3. NodeOK' /\ TasksOK'
    BY <1>2, <2>2 DEF NodeOK, NoneHeld, TasksOK, FramingInv
  <2>4. FramingTyped'
    BY <1>1, <2>2 DEF FramingTyped, Stuck
  <2> QED
    BY <2>3, <2>4 DEF FramingInv
<1>4. CASE ~Stuck
  <2>1. PICK n \in 0 .. Len(QLens), p \in 0 .. Len(Stream) :
          /\ Scratch(n, p) /\ Partial(n, p) /\ Remembered(n)
          /\ AllCut(n, p) \/ OneHolds(n, p)
    BY <1>4 DEF FramingInv, NodeOK
  <2>2. p = received
    <3>1. CASE OneHolds(n, p)
      <4>1. p \in Nat /\ p < received /\ received <= Len(Stream) /\ Seg(p, received) = <<>>
        BY <1>1, <1>2, <3>1, StreamIs DEF OneHolds, NoneHeld, FramingInv, FramingTyped
      <4>2. Len(Seg(p, received)) = received - p
        BY <1>1, <4>1, SegType
      <4> QED
        BY <1>1, <4>1, <4>2
    <3> QED
      BY <2>1, <3>1 DEF AllCut
  <2>3. sock = "open" => Handled' \cup {t.query : t \in tasks} = Bodies(n)
    BY <1>1, <2>1 DEF Remembered, Resolved, Bodies
  <2>4. sock \in {"open", "closed"}
    BY DEF FramingInv, FramingTyped
  <2>5. Scratch(n, received) /\ Partial(n, received)
    BY <2>1, <2>2
  <2> QED
    BY <1>1, <1>2, <2>3, <2>4, <2>5, CutKeepsInv
<1> QED
  BY <1>3, <1>4

LEMMA ContinueInv ==
  ASSUME FramingInv, runtime = "node", runtime' = "node", NEW t \in tasks, NEW s \in {"open", "closed"},
         s = "open" => sock = "open" /\ Handled' = Handled \cup {t.query},
         received' = received, Continue(t, s)
  PROVE  FramingInv'
<1> DEFINE others == tasks \ {t}
<1>1. ASSUME NEW n, Remembered(n), s = "open"
      PROVE  Handled' \cup {u.query : u \in others} = Bodies(n)
  <2>1. {u.query : u \in tasks} = {u.query : u \in others} \cup {t.query}
    OBVIOUS
  <2> QED
    BY <1>1, <2>1 DEF Remembered, Resolved, Bodies
<1>2. CASE t.oob = <<>>
  <2>1. tasks' = others /\ sock' = s /\ UNCHANGED <<qlenBuf, qlen, qBuf>>
    BY <1>2 DEF Continue
  <2>2. FramingTyped' /\ TasksOK'
    BY <2>1 DEF FramingInv, FramingTyped, TasksOK
  <2>3. CASE Stuck /\ NoneHeld(tasks)
    BY <2>1, <2>2, <2>3 DEF FramingInv, NodeOK, Stuck, NoneHeld
  <2>4. ASSUME NEW n \in 0 .. Len(QLens), NEW p \in 0 .. Len(Stream),
               Scratch(n, p), Partial(n, p), Remembered(n), AllCut(n, p) \/ OneHolds(n, p)
        PROVE  NodeOK'
    <3>1. Scratch(n, p)' /\ Partial(n, p)'
      BY <2>1, <2>4 DEF Scratch, Partial
    <3>2. Remembered(n)'
      BY <1>1, <2>1, <2>4 DEF Remembered, Resolved, Bodies
    <3>3. CASE AllCut(n, p)
      <4>1. AllCut(n, p)'
        BY <2>1, <3>3 DEF AllCut, NoneHeld
      <4> QED
        BY <3>1, <3>2, <4>1 DEF NodeOK
    <3>4. CASE OneHolds(n, p)
      <4>1. PICK h \in tasks : h.oob = Seg(p, received) /\ NoneHeld(tasks \ {h})
        BY <3>4 DEF OneHolds
      <4>2. h.oob # <<>>
        <5>1. /\ p \in Nat /\ received \in Nat /\ received <= Len(Stream)
              /\ p < received /\ p <= received
          BY <3>4, StreamIs DEF OneHolds, FramingInv, FramingTyped
        <5>2. Len(Seg(p, received)) = received - p
          BY <5>1, SegType
        <5> QED
          BY <4>1, <5>1, <5>2
      <4>3. h \in others /\ NoneHeld(others \ {h})
        BY <1>2, <4>1, <4>2 DEF NoneHeld
      <4>4. OneHolds(n, p)'
        BY <2>1, <3>4, <4>1, <4>3 DEF OneHolds, NoneHeld
      <4> QED
        BY <3>1, <3>2, <4>4 DEF NodeOK
    <3> QED
      BY <2>4, <3>3, <3>4
  <2> QED
    BY <2>2, <2>3, <2>4 DEF FramingInv, NodeOK
<1>3. CASE t.oob # <<>>
  <2>1. PICK n \in 0 .. Len(QLens), p \in 0 .. Len(Stream) :
          Scratch(n, p) /\ Partial(n, p) /\ Remembered(n) /\ OneHolds(n, p)
    BY <1>3 DEF FramingInv, NodeOK, AllCut, NoneHeld
  <2>2. t.oob = Seg(p, received) /\ NoneHeld(others) /\ p < received
    BY <1>3, <2>1 DEF OneHolds, NoneHeld
  <2>3. HandleTCPData(Seg(p, received), others, s)
    BY <1>3, <2>2 DEF Continue
  <2>4. received \in 0 .. Len(Stream)
    BY DEF FramingInv, FramingTyped
  <2>5. s = "open" => Handled' \cup {u.query : u \in others} = Bodies(n)
    BY <1>1, <2>1
  <2>6. others \subseteq tasks
    OBVIOUS
  <2> HIDE DEF others
  <2> QED
    BY <2>1, <2>2, <2>3, <2>4, <2>5, <2>6, CutKeepsInv
<1> QED
  BY <1>2, <1>3

LEMMA NodeInv ==
  ASSUME FramingInv, Overlap = FALSE, Node
  PROVE  FramingInv'
<1>1. runtime = "node" /\ runtime' = "node" /\ unanswered' = unanswered /\ NodeNext
  BY DEF Node
<1>2. ASSUME NEW k \in 1 .. MaxChunk, Data(k)
      PROVE  FramingInv'
  BY <1>1, <1>2, DataInv
<1>3. ASSUME NEW t \in tasks, Answer(t)
      PROVE  FramingInv'
  <2>1. sock = "open" /\ Handled' = Handled \cup {t.query} /\ received' = received
        /\ Continue(t, "open")
    BY <1>1, <1>3 DEF Answer, Handled
  <2> QED
    BY <1>1, <2>1, ContinueInv
<1>4. ASSUME NEW t \in tasks, Fail(t) \/ Skip(t)
      PROVE  FramingInv'
  <2>1. received' = received /\ Continue(t, "closed")
    BY <1>4 DEF Fail, Skip
  <2> QED
    BY <1>1, <2>1, ContinueInv
<1> QED
  BY <1>1, <1>2, <1>3, <1>4 DEF NodeNext, Settle
-----------------------------------------------------------------------------
\* Where Deno's loop may be: at a header, or at the query after it.
LEMMA AtHeaderIs ==
  ASSUME FramingInv, AtHeader
  PROVE  \E n \in 0 .. Len(QLens) :
           received = Begin(n) /\ qBuf = <<>> /\ Remembered(n)
<1>1. PICK n \in 0 .. Len(QLens) :
        received \in {Begin(n), Begin(n) + 2} /\ Scratch(n, received) /\ Remembered(n)
  BY DEF AtHeader, Reading, FramingInv, DenoOK
<1>2. Begin(n) \in Nat /\ received \in Nat /\ received <= Len(Stream)
  BY <1>1, StreamIs DEF FramingInv, FramingTyped
<1>3. CASE received = Begin(n) + 2
  <2>1. Lesser(received, Begin(n) + 2) = received /\ Begin(n) <= received
    BY <1>2, <1>3 DEF Lesser
  <2>2. Len(Seg(Begin(n), received)) = received - Begin(n)
    BY <1>2, <2>1, SegType
  <2>3. Seg(Begin(n), received) = <<>>
    BY <1>1, <2>1 DEF Scratch, AtHeader
  <2> QED
    BY <1>2, <1>3, <2>2, <2>3
<1>4. CASE received = Begin(n)
  <2>1. qBuf = <<>>
    BY <1>1, <1>2, <1>4, SegEmpty DEF Scratch
  <2> QED
    BY <1>1, <1>4, <2>1
<1> QED
  BY <1>1, <1>3, <1>4

LEMMA AtQueryIs ==
  ASSUME FramingInv, AtQuery
  PROVE  \E n \in 0 .. Len(QLens) - 1 :
           received = Begin(n) + 2 /\ qlen = QLens[n + 1] /\ Remembered(n)
<1>1. PICK n \in 0 .. Len(QLens) :
        received \in {Begin(n), Begin(n) + 2} /\ Scratch(n, received) /\ Remembered(n)
  BY DEF AtQuery, Reading, FramingInv, DenoOK
<1>2. Begin(n) \in Nat /\ received \in Nat
  BY <1>1, StreamIs DEF FramingInv, FramingTyped
<1>3. received # Begin(n)
  <2>1. CASE received = Begin(n)
    <3>1. Lesser(received, Begin(n) + 2) = received /\ Seg(Begin(n), Begin(n)) = <<>>
      BY <1>2, <2>1, SegEmpty DEF Lesser
    <3> QED
      BY <1>1, <2>1, <3>1 DEF Scratch, AtQuery
  <2> QED
    BY <2>1
<1> QED
  BY <1>1, <1>2, <1>3, Lengths DEF Scratch

LEMMA ReadHeaderInv ==
  ASSUME FramingInv, NEW k \in 1 .. HeaderSize, ReadHeader(k)
  PROVE  FramingInv'
<1>1. runtime = "deno" /\ sock = "open" /\ tasks = {}
  BY DEF ReadHeader, AtHeader, Reading
<1>2. PICK n \in 0 .. Len(QLens) : received = Begin(n) /\ qBuf = <<>> /\ Remembered(n)
  BY AtHeaderIs DEF ReadHeader
<1> DEFINE B == Begin(n)
<1>3. /\ k \in {1, 2} /\ B \in Nat /\ B <= B + k /\ B + k \in Nat /\ B + k <= Len(Stream)
      /\ received' = B + k /\ qlenBuf' = Seg(B, B + k)
  <2>1. k \in {1, 2} /\ B \in Nat
    BY StreamIs DEF HeaderSize
  <2>2. received = B /\ received' = received + k /\ received + k <= Len(Stream)
    BY <1>2 DEF ReadHeader, Read
  <2>3. qlenBuf' = SubSeq(Stream, received + 1, received + k)
    BY DEF ReadHeader, Chunk
  <2>4. qlenBuf' = Seg(B, B + k)
    BY <2>2, <2>3 DEF Seg
  <2> HIDE DEF B
  <2> QED
    BY <2>1, <2>2, <2>4
<1>4. n \in 0 .. Len(QLens) - 1
  BY <1>3, StreamIs, Lengths
<1>5. Seg(B, B + k) \in Seq(AnyByte) /\ Len(Seg(B, B + k)) = k
  <2> DEFINE e == B + k
  <2>1. B \in Nat /\ e \in Nat /\ B <= e /\ e <= Len(Stream) /\ e - B = k
    <3> HIDE DEF B
    <3> QED
      BY <1>3
  <2> HIDE DEF B, e
  <2>2. Seg(B, e) \in Seq(AnyByte) /\ Len(Seg(B, e)) = e - B
    BY <2>1, SegType
  <2> QED
    BY <2>1, <2>2 DEF e
<1>6. UNCHANGED <<qBuf, tasks, Handled, runtime>>
  BY DEF ReadHeader, Handled
<1>7. CASE k = 1
  <2>1. sock' = "closed" /\ qlen' = qlen
    BY <1>7 DEF ReadHeader, HeaderSize
  <2> QED
    BY <1>1, <1>3, <1>5, <1>6, <2>1, StreamIs DEF FramingInv, FramingTyped, TasksOK, DenoOK, NoneHeld
<1>8. CASE k = 2
  <2>1. sock' = sock /\ qlen' = QLens[n + 1]
    BY <1>2, <1>3, <1>4, <1>8, HeaderDecodes DEF ReadHeader, HeaderSize, Chunk, Seg, Read
  <2>2. qlen' \in 0 .. MaxSize + 1
    BY <1>4, <2>1, Lengths
  <2>3. Seg(B + 2, B + 2) = <<>> /\ Lesser(B + 2, B + 2) = B + 2
    BY <1>3, SegEmpty DEF Lesser
  <2>4. B + 2 \in B .. Len(Stream) /\ n < Len(QLens)
    BY <1>3, <1>4, <1>8, StreamIs, Lengths
  <2>5. Scratch(n, B + 2)'
    BY <1>2, <1>3, <1>6, <1>8, <2>1, <2>3, <2>4 DEF Scratch
  <2>6. Remembered(n)'
    BY <1>2, <1>6, <2>1 DEF Remembered, Resolved
  <2>7. received' = B + 2
    BY <1>3, <1>8
  <2>8. DenoOK'
    BY <2>5, <2>6, <2>7 DEF DenoOK
  <2>9. FramingTyped'
    <3>1. received' \in 0 .. Len(Stream) /\ qlenBuf' \in Seq(AnyByte) /\ Len(qlenBuf') <= 2
      <4> HIDE DEF B
      <4>1. received' \in Nat /\ received' <= Len(Stream)
        BY <1>3
      <4>2. qlenBuf' \in Seq(AnyByte) /\ Len(qlenBuf') = k
        BY <1>3, <1>5, Zenon
      <4> QED
        BY <1>8, <4>1, <4>2, StreamIs
    <3> QED
      BY <1>1, <1>6, <2>1, <2>2, <3>1 DEF FramingInv, FramingTyped
  <2> QED
    BY <1>1, <1>6, <2>8, <2>9 DEF FramingInv, TasksOK, NoneHeld
<1> QED
  BY <1>3, <1>7, <1>8

LEMMA ReadQueryInv ==
  ASSUME FramingInv, NEW k \in 0 .. MaxSize + 1, ReadQuery(k)
  PROVE  FramingInv'
<1>1. runtime = "deno" /\ sock = "open" /\ tasks = {} /\ k <= qlen
      /\ qlen \in 0 .. MaxSize + 1 /\ UNCHANGED <<Handled, runtime>>
  BY DEF ReadQuery, AtQuery, Reading, FramingInv, FramingTyped, Handled
<1>2. PICK n \in 0 .. Len(QLens) - 1 :
        received = Begin(n) + 2 /\ qlen = QLens[n + 1] /\ Remembered(n)
  BY AtQueryIs DEF ReadQuery
<1> DEFINE B == Begin(n) + 2
           e == Begin(n + 1)
<1>3. /\ B \in Nat /\ B <= B + k /\ B + k \in Nat /\ B + k <= Len(Stream)
      /\ received' = B + k /\ Chunk(k) = Seg(B, B + k) /\ e = B + qlen
  <2>1. /\ Begin(n) \in Nat /\ k \in Nat /\ e = Begin(n) + 2 + qlen
    BY <1>1, <1>2, StreamBytes
  <2>2. received = B /\ received' = received + k /\ received + k <= Len(Stream)
    BY <1>2 DEF ReadQuery, Read
  <2>3. Chunk(k) = Seg(B, B + k)
    BY <2>2 DEF Chunk, Seg
  <2>4. B \in Nat /\ B <= B + k /\ B + k \in Nat /\ e = B + qlen
    BY <2>1
  <2> HIDE DEF B, e
  <2> QED
    BY <2>2, <2>3, <2>4
<1>4. Seg(B, B + k) \in Seq(AnyByte) /\ Len(Seg(B, B + k)) = k
  <2> DEFINE last == B + k
  <2>1. B \in Nat /\ last \in Nat /\ B <= last /\ last <= Len(Stream) /\ last - B = k
    <3> HIDE DEF B
    <3> QED
      BY <1>3
  <2> HIDE DEF B, last
  <2>2. Seg(B, last) \in Seq(AnyByte) /\ Len(Seg(B, last)) = last - B
    BY <2>1, SegType
  <2> QED
    BY <2>1, <2>2 DEF last
<1>5. CASE k # qlen
  <2>1. qBuf' = Seg(B, B + k) /\ sock' = "closed" /\ UNCHANGED <<qlenBuf, qlen, tasks>>
    BY <1>3, <1>5 DEF ReadQuery
  <2> HIDE DEF B
  <2> QED
    BY <1>1, <1>3, <1>4, <2>1, StreamIs DEF FramingInv, FramingTyped, TasksOK, DenoOK, NoneHeld
<1>6. CASE k = qlen
  <2> DEFINE c == [query |-> Body(n + 1), oob |-> <<>>]
  <2>1. /\ qlenBuf' = <<>> /\ qlen' = 0 /\ qBuf' = <<>> /\ sock' = sock
        /\ tasks' = {[query |-> Chunk(k), oob |-> <<>>]}
    BY <1>6 DEF ReadQuery, EmptyScratch
  <2>2. received' = e /\ Chunk(k) = Body(n + 1)
    BY <1>3, <1>6, BodyIsSeg
  <2>3. tasks' = {c}
    BY <2>1, <2>2
  <2>4. e \in Nat /\ e <= Len(Stream) /\ n + 1 \in 0 .. Len(QLens)
    BY <1>2, StreamIs, StreamBytes, Lengths
  <2>5. Seg(e, e) = <<>> /\ Seg(e + 2, e) = <<>> /\ Lesser(e, e + 2) = e
    BY <2>4, SegEmpty DEF Lesser
  <2>6. Scratch(n + 1, e)'
    <3>1. e \in e .. Len(Stream) /\ ~(e >= e + 2)
      BY <2>4, StreamIs
    <3> QED
      BY <2>1, <2>4, <2>5, <3>1 DEF Scratch
  <2>7. Remembered(n + 1)'
    <3>1. {t.query : t \in {c}} = {Body(n + 1)} /\ {t.query : t \in {}} = {}
      OBVIOUS
    <3>2. Handled = Bodies(n)
      BY <1>1, <1>2, <3>1 DEF Remembered, Resolved, Bodies
    <3>3. n \in Nat
      BY <1>2, Lengths
    <3> QED
      BY <1>1, <2>3, <3>1, <3>2, <3>3, BodiesStep DEF Remembered, Resolved, Bodies
  <2>8. DenoOK'
    BY <2>2, <2>4, <2>6, <2>7 DEF DenoOK
  <2>9. FramingTyped'
    <3>1. <<>> \in Seq(AnyByte) /\ Len(<<>>) = 0
      OBVIOUS
    <3> QED
      BY <1>1, <2>1, <2>2, <2>4, <3>1, StreamIs, Lengths DEF FramingInv, FramingTyped
  <2>10. TasksOK'
    BY <1>1, <1>2, <2>3 DEF TasksOK
  <2> QED
    BY <1>1, <2>3, <2>8, <2>9, <2>10 DEF FramingInv, NoneHeld
<1> QED
  BY <1>5, <1>6

LEMMA DenoStepsInv ==
  ASSUME FramingInv,
         ReadNothing \/ ReadThrows \/ \E t \in tasks : DenoSettle(t)
  PROVE  FramingInv'
<1>1. CASE ReadNothing \/ ReadThrows
  <2>1. /\ runtime = "deno" /\ runtime' \in {"deno", "exited"} /\ sock' = "closed" /\ tasks = {}
        /\ UNCHANGED <<received, qlenBuf, qlen, qBuf, tasks>>
    BY <1>1 DEF ReadNothing, ReadThrows, Waiting, AtHeader, AtQuery, Reading
  <2> QED
    BY <2>1 DEF FramingInv, FramingTyped, TasksOK, DenoOK, NoneHeld
<1>2. ASSUME NEW t \in tasks, DenoSettle(t)
      PROVE  FramingInv'
  <2>1. /\ runtime = "deno" /\ Handled' = Handled \cup {t.query} /\ tasks' = tasks \ {t}
        /\ UNCHANGED <<received, qlenBuf, qlen, qBuf, sock, runtime>>
    BY <1>2 DEF DenoSettle, DenoAnswer, DenoGivesUp, Handled
  <2>2. Resolved' = Resolved
    BY <2>1 DEF Resolved
  <2>3. DenoOK'
    BY <2>1, <2>2 DEF FramingInv, DenoOK, Scratch, Remembered
  <2> QED
    BY <2>1, <2>3 DEF FramingInv, FramingTyped, TasksOK, NoneHeld
<1> QED
  BY <1>1, <1>2

LEMMA TcpNextInv ==
  ASSUME FramingInv, Overlap = FALSE \/ runtime # "node", [TcpNext]_tcpVars
  PROVE  FramingInv'
<1>1. CASE UNCHANGED tcpVars
  BY <1>1 DEF tcpVars, nodeVars, FramingInv, FramingTyped, TasksOK, NodeOK, DenoOK, NoneHeld, Stuck, Scratch,
              Partial, Remembered, Resolved, Handled, AllCut, OneHolds
<1>2. CASE Node
  BY <1>2, NodeInv DEF Node
<1> QED
  BY <1>1, <1>2, ReadHeaderInv, ReadQueryInv, DenoStepsInv DEF TcpNext
-----------------------------------------------------------------------------
LEMMA InvIsTyped ==
  ASSUME FramingInv
  PROVE  TcpTypeOK
<1> DEFINE max == IF runtime = "node" THEN MaxSize ELSE MaxSize + 1
<1>1. ASSUME NEW t \in tasks
      PROVE  t.query \in Seq(AnyByte) /\ Len(t.query) <= max
  <2>1. PICK n \in 0 .. Len(QLens) - 1 :
          t.query = Body(n + 1) /\ (runtime = "node" => QLens[n + 1] <= MaxSize)
    BY DEF FramingInv, TasksOK
  <2> DEFINE B == Begin(n) + 2
             e == Begin(n + 1)
  <2>2. B \in Nat /\ e \in Nat /\ e <= Len(Stream) /\ B <= e /\ e - B = QLens[n + 1]
    BY StreamBytes
  <2>3. QLens[n + 1] <= max
    <3>1. n + 1 \in 1 .. Len(QLens)
      BY Lengths
    <3> QED
      BY <2>1, <3>1, Lengths
  <2>4. t.query = Seg(B, e)
    BY <2>1, BodyIsSeg
  <2> HIDE DEF B, e, max
  <2>5. t.query \in Seq(AnyByte) /\ Len(t.query) = e - B
    BY <2>2, <2>4, SegType
  <2> QED
    BY <2>2, <2>3, <2>5
<1>2. ASSUME NEW t \in tasks
      PROVE  t.oob \in Seq(AnyByte)
  <2>1. <<>> \in Seq(AnyByte)
    OBVIOUS
  <2>2. CASE t.oob = <<>>
    BY <2>1, <2>2
  <2>3. CASE t.oob # <<>>
    <3>1. PICK p \in 0 .. Len(Stream) : t.oob = Seg(p, received)
      BY <2>3 DEF FramingInv, NodeOK, NoneHeld, AllCut, OneHolds
    <3>2. p \in Nat /\ received \in Nat /\ received <= Len(Stream)
      BY StreamIs DEF FramingInv, FramingTyped
    <3> QED
      BY <3>1, <3>2, SegType
  <2> QED
    BY <2>2, <2>3
<1>3. /\ qlenBuf \in Seq(AnyByte) /\ Len(qlenBuf) <= HeaderSize
      /\ qBuf \in Seq(AnyByte) /\ Len(qBuf) <= max
  <2>1. CASE runtime # "node"
    BY <2>1 DEF FramingInv, FramingTyped, HeaderSize
  <2>2. CASE runtime = "node" /\ Stuck
    BY <2>2, Lengths DEF Stuck, HeaderSize
  <2>3. CASE runtime = "node" /\ ~Stuck
    <3>1. PICK n \in 0 .. Len(QLens), p \in 0 .. Len(Stream) : Scratch(n, p) /\ Partial(n, p)
      BY <2>3 DEF FramingInv, NodeOK
    <3> DEFINE B == Begin(n)
               b == Lesser(p, B + 2)
    <3>2. B \in Nat /\ p \in Nat /\ B <= p /\ p <= Len(Stream) /\ Len(Stream) \in Nat
      BY <3>1, StreamIs DEF Scratch
    <3>3. b \in Nat /\ B <= b /\ b <= Len(Stream) /\ b <= B + 2
      BY <3>2 DEF Lesser
    <3>4. p >= B + 2 => p - (B + 2) <= MaxSize
      <4>1. SUFFICES ASSUME p >= B + 2
                     PROVE  p - (B + 2) <= MaxSize
        OBVIOUS
      <4>2. n \in 0 .. Len(QLens) - 1 /\ n + 1 \in 1 .. Len(QLens)
        BY <3>1, <4>1, Lengths DEF Scratch
      <4>3. QLens[n + 1] <= MaxSize /\ QLens[n + 1] \in Nat /\ p < Begin(n + 1)
        BY <3>1, <4>1, <4>2, Lengths DEF Partial, ValidateSize
      <4>4. Begin(n + 1) = B + 2 + QLens[n + 1]
        BY <4>2, StreamBytes
      <4> QED
        BY <3>2, <4>3, <4>4, Lengths
    <3>5. qlenBuf = Seg(B, b) /\ qBuf = Seg(B + 2, p)
      BY <3>1 DEF Scratch
    <3> HIDE DEF B, b
    <3>6. qlenBuf \in Seq(AnyByte) /\ Len(qlenBuf) = b - B
      BY <3>2, <3>3, <3>5, SegType
    <3>7. /\ qBuf \in Seq(AnyByte)
          /\ Len(qBuf) = IF B + 2 <= p THEN p - (B + 2) ELSE 0
      <4>1. B + 2 \in Nat
        BY <3>2
      <4> QED
        BY <3>2, <3>5, <4>1, SegType, Zenon
    <3> QED
      BY <2>3, <3>2, <3>3, <3>4, <3>6, <3>7, Lengths DEF HeaderSize
  <2> QED
    BY <2>1, <2>2, <2>3
<1>4. runtime \in {"node", "deno", "exited"} /\ sock \in {"open", "closed"}
      /\ received \in 0 .. Len(Stream) /\ qlen \in 0 .. MaxSize + 1
  BY DEF FramingInv, FramingTyped
<1> QED
  BY <1>1, <1>2, <1>3, <1>4 DEF TcpTypeOK, TypeOKUpTo

LEMMA InvIsIntact ==
  ASSUME FramingInv
  PROVE  QueriesIntact
<1>1. ASSUME NEW t \in tasks
      PROVE  \E q \in Queries : t.query = Body(q)
  <2>1. PICK n \in 0 .. Len(QLens) - 1 : t.query = Body(n + 1)
    BY DEF FramingInv, TasksOK
  <2>2. n + 1 \in Queries
    BY Lengths DEF Queries
  <2> QED
    BY <2>1, <2>2
<1> QED
  BY <1>1 DEF QueriesIntact

\* What was cut and what is in the scratch buffer is the stream up to p.
LEMMA ScratchIsPrefix ==
  ASSUME NEW n, NEW p, Scratch(n, p)
  PROVE  StreamUpTo[n] \o qlenBuf \o qBuf = Seg(0, p)
<1> DEFINE B == Begin(n)
           b == Lesser(p, B + 2)
<1>1. /\ n \in 0 .. Len(QLens) /\ B \in Nat /\ p \in Nat /\ B <= p /\ p <= Len(Stream)
      /\ Len(Stream) \in Nat /\ B <= Len(Stream)
  BY StreamIs DEF Scratch
<1>2. StreamUpTo[n] = Seg(0, B) /\ qlenBuf = Seg(B, b) /\ qBuf = Seg(B + 2, p)
  BY <1>1, UpToIsSeg DEF Scratch
<1>3. b \in Nat /\ B <= b /\ b <= p /\ b <= Len(Stream) /\ 0 <= B /\ 0 <= b /\ 0 \in Nat
  BY <1>1 DEF Lesser
<1>4. Seg(B + 2, p) = Seg(b, p)
  <2>1. CASE p < B + 2
    BY <1>1, <2>1, SegEmpty DEF Lesser
  <2>2. CASE p >= B + 2
    <3>1. b = B + 2
      BY <1>1, <2>2 DEF Lesser
    <3> QED
      BY <3>1
  <2> QED
    BY <1>1, <2>1, <2>2
<1> HIDE DEF B, b
<1>5. Seg(0, B) \o Seg(B, b) = Seg(0, b)
  BY <1>1, <1>3, SegConcat
<1>6. Seg(0, b) \o Seg(b, p) = Seg(0, p)
  BY <1>1, <1>3, SegConcat
<1> QED
  BY <1>2, <1>4, <1>5, <1>6

LEMMA InvLosesNothing ==
  ASSUME FramingInv
  PROVE  NothingLost
<1> SUFFICES ASSUME sock = "open"
             PROVE  \E n \in 0 .. Len(QLens) :
                      /\ Resolved = {Body(q) : q \in 1 .. n}
                      /\ \E held \in {<<>>} \cup {t.oob : t \in tasks} :
                           /\ StreamUpTo[n] \o qlenBuf \o qBuf \o held = SubSeq(Stream, 1, received)
                           /\ \A t \in tasks : t.oob \in {<<>>, held}
  BY DEF NothingLost
<1>1. /\ received \in Nat /\ received <= Len(Stream) /\ 0 \in Nat /\ 0 <= received
      /\ SubSeq(Stream, 1, received) = Seg(0, received)
  BY StreamIs DEF FramingInv, FramingTyped, Seg
<1>2. Seg(0, received) \o <<>> = Seg(0, received)
  BY <1>1, SegType, ConcatEmptySeq
<1>3. ASSUME NEW n \in 0 .. Len(QLens), Scratch(n, received), Remembered(n), NoneHeld(tasks)
      PROVE  \E held \in {<<>>} \cup {t.oob : t \in tasks} :
               /\ StreamUpTo[n] \o qlenBuf \o qBuf \o held = SubSeq(Stream, 1, received)
               /\ \A t \in tasks : t.oob \in {<<>>, held}
  <2>1. StreamUpTo[n] \o qlenBuf \o qBuf = Seg(0, received)
    BY <1>3, ScratchIsPrefix
  <2> QED
    BY <1>1, <1>2, <1>3, <2>1 DEF NoneHeld
<1>4. ASSUME NEW n \in 0 .. Len(QLens), NEW p \in 0 .. Len(Stream), Scratch(n, p), OneHolds(n, p)
      PROVE  \E held \in {<<>>} \cup {t.oob : t \in tasks} :
               /\ StreamUpTo[n] \o qlenBuf \o qBuf \o held = SubSeq(Stream, 1, received)
               /\ \A t \in tasks : t.oob \in {<<>>, held}
  <2>1. PICK h \in tasks : h.oob = Seg(p, received) /\ NoneHeld(tasks \ {h})
    BY <1>4 DEF OneHolds
  <2>2. StreamUpTo[n] \o qlenBuf \o qBuf = Seg(0, p)
    BY <1>4, ScratchIsPrefix
  <2>3. p \in Nat /\ 0 <= p /\ p <= received
    BY <1>1, <1>4 DEF OneHolds
  <2>4. Seg(0, p) \o Seg(p, received) = Seg(0, received)
    BY <1>1, <2>3, SegConcat
  <2>5. \A t \in tasks : t.oob \in {<<>>, h.oob}
    BY <2>1 DEF NoneHeld
  <2> WITNESS h.oob \in {<<>>} \cup {t.oob : t \in tasks}
  <2> QED
    BY <1>1, <2>1, <2>2, <2>4, <2>5
<1>5. CASE runtime = "node"
  <2>1. PICK n \in 0 .. Len(QLens), p \in 0 .. Len(Stream) :
          Scratch(n, p) /\ Remembered(n) /\ (AllCut(n, p) \/ OneHolds(n, p))
    BY <1>5 DEF FramingInv, NodeOK, Stuck
  <2>2. Resolved = {Body(q) : q \in 1 .. n}
    BY <2>1 DEF Remembered
  <2> QED
    BY <1>3, <1>4, <2>1, <2>2 DEF AllCut
<1>6. CASE runtime # "node"
  <2>1. PICK n \in 0 .. Len(QLens) : Scratch(n, received) /\ Remembered(n)
    BY <1>6 DEF FramingInv, DenoOK
  <2>2. Resolved = {Body(q) : q \in 1 .. n} /\ NoneHeld(tasks)
    BY <1>6, <2>1 DEF Remembered, FramingInv
  <2> QED
    BY <1>3, <2>1, <2>2
<1> QED
  BY <1>5, <1>6

\* Wherever the client's stream is cut into segments, and whatever it asks: the
\* queries resolved are the client's, from the first one on, and no byte of the
\* stream is lost, duplicated or put out of order, if no chunk comes in while
\* handleTCPData() holds the rest of another.
THEOREM FramingSafety ==
  ASSUME Overlap = FALSE
  PROVE  TcpSpec => [](TcpTypeOK /\ QueriesIntact /\ NothingLost)
<1>1. TcpInit => FramingInv
  BY TcpInitInv
<1>2. FramingInv /\ [TcpNext]_tcpVars => FramingInv'
  BY TcpNextInv
<1>3. FramingInv => TcpTypeOK /\ QueriesIntact /\ NothingLost
  BY InvIsTyped, InvIsIntact, InvLosesNothing
<1> QED
  BY <1>1, <1>2, <1>3, PTL DEF TcpSpec

\* Deno's serveTcp(), which reads no more before it has answered, needs no such
\* condition.
THEOREM DenoFramingSafety ==
  TcpSpec /\ runtime = "deno" => [](TcpTypeOK /\ QueriesIntact /\ NothingLost)
<1> DEFINE OnDeno == FramingInv /\ runtime # "node"
<1>1. TcpInit /\ runtime = "deno" => OnDeno
  BY TcpInitInv
<1>2. OnDeno /\ [TcpNext]_tcpVars => OnDeno'
  <2> SUFFICES ASSUME OnDeno, [TcpNext]_tcpVars
               PROVE  OnDeno'
    OBVIOUS
  <2>1. FramingInv'
    BY TcpNextInv
  <2>2. runtime' # "node"
    BY DEF TcpNext, tcpVars, Node, ReadHeader, ReadQuery, ReadNothing, ReadThrows,
           DenoSettle, DenoAnswer, DenoGivesUp
  <2> QED
    BY <2>1, <2>2
<1>3. OnDeno => TcpTypeOK /\ QueriesIntact /\ NothingLost
  BY InvIsTyped, InvIsIntact, InvLosesNothing
<1> HIDE DEF OnDeno
<1> QED
  BY <1>1, <1>2, <1>3, PTL DEF TcpSpec

\* The safety half of AllAnswered, whose other half is that suspended calls are
\* settled and reads into no room return: a query that has been received is
\* settled, being resolved, or part of what a suspended call goes on with (on
\* Deno, one without bytes: about to be read).  None is left to wait for bytes
\* that the client has no reason to send.
LeftToWait(q) ==
  /\ Body(q) \notin Resolved
  /\ \A t \in tasks : t.oob = <<>>
  /\ ~(runtime = "deno" /\ qlenBuf # <<>> /\ qlen = 0)

NoneLeftToWait ==
  \A q \in Queries : sock = "open" /\ received >= Len(StreamUpTo[q]) => ~LeftToWait(q)

LEMMA InvLeavesNone ==
  ASSUME FramingInv
  PROVE  NoneLeftToWait
<1> SUFFICES ASSUME NEW q \in Queries, sock = "open", received >= Begin(q), LeftToWait(q)
             PROVE  FALSE
  BY DEF NoneLeftToWait, Begin
<1>1. q \in 1 .. Len(QLens) /\ q \in 0 .. Len(QLens) /\ received \in Nat
  BY Lengths, StreamIs DEF Queries, FramingInv, FramingTyped
<1>2. NoneHeld(tasks)
  BY DEF LeftToWait, NoneHeld
\* A query that was not cut begins where the next one does, or later.
<1>3. ASSUME NEW n \in 0 .. Len(QLens), Remembered(n)
      PROVE  n \in 0 .. Len(QLens) - 1 /\ q > n /\ Begin(n + 1) <= Begin(q)
  <2>1. q > n
    BY <1>1, <1>3, Lengths DEF Remembered, LeftToWait
  <2>2. n \in 0 .. Len(QLens) - 1 /\ n + 1 \in 0 .. q
    BY <1>1, <2>1, Lengths
  <2> QED
    BY <1>1, <2>1, <2>2, Prefixes
<1>4. CASE runtime = "node"
  <2>1. PICK n \in 0 .. Len(QLens), p \in 0 .. Len(Stream) :
          Scratch(n, p) /\ Partial(n, p) /\ Remembered(n) /\ (AllCut(n, p) \/ OneHolds(n, p))
    BY <1>4 DEF FramingInv, NodeOK, Stuck
  <2>2. n \in 0 .. Len(QLens) - 1 /\ Begin(n + 1) <= Begin(q)
    BY <1>3, <2>1
  <2>3. /\ Begin(n) \in Nat /\ QLens[n + 1] \in Nat
        /\ Begin(n + 1) = Begin(n) + 2 + QLens[n + 1]
    BY <2>2, StreamBytes, Zenon
  <2>4. Begin(q) \in Nat
    BY <1>1, StreamType, Zenon
  <2>5. Begin(n + 1) >= Begin(n) + 2
    BY <2>3
  <2>6. p = received
    <3>1. CASE OneHolds(n, p)
      <4>1. p \in Nat /\ p < received /\ p <= received /\ received <= Len(Stream)
            /\ Seg(p, received) = <<>>
        BY <1>1, <1>2, <3>1, StreamIs DEF OneHolds, NoneHeld, FramingInv, FramingTyped
      <4>2. Len(Seg(p, received)) = received - p
        BY <1>1, <4>1, SegType
      <4> QED
        BY <1>1, <4>1, <4>2
    <3> QED
      BY <2>1, <3>1 DEF AllCut
  <2> QED
    BY <1>1, <2>1, <2>2, <2>6, <2>3, <2>4, <2>5 DEF Partial
<1>5. CASE runtime # "node"
  <2>1. PICK n \in 0 .. Len(QLens) :
          /\ received \in {Begin(n), Begin(n) + 2}
          /\ Scratch(n, received) /\ Remembered(n)
    BY <1>5 DEF FramingInv, DenoOK
  <2>2. n \in 0 .. Len(QLens) - 1 /\ Begin(n + 1) <= Begin(q)
    BY <1>3, <2>1
  <2>3. /\ Begin(n) \in Nat /\ QLens[n + 1] \in Nat
        /\ Begin(n + 1) = Begin(n) + 2 + QLens[n + 1]
    BY <2>2, StreamBytes, Zenon
  <2>4. Begin(q) \in Nat
    BY <1>1, StreamType, Zenon
  <2>5. /\ Begin(n) \in Nat /\ Begin(n + 1) \in Nat /\ Begin(q) \in Nat
        /\ QLens[n + 1] \in Nat /\ Begin(n + 1) = Begin(n) + 2 + QLens[n + 1]
        /\ Begin(n + 1) <= Begin(q)
    BY <2>2, <2>3, <2>4
  <2>6. received = Begin(n) + 2 /\ QLens[n + 1] = 0
    BY <1>1, <2>1, <2>5
  <2>7. qlen = 0 /\ qlenBuf = Seg(Begin(n), Begin(n) + 2)
    BY <2>1, <2>5, <2>6 DEF Scratch, Lesser
  <2>8. Len(qlenBuf) = 2
    <3>1. Begin(n) + 2 \in Nat /\ Begin(n) + 2 <= Len(Stream) /\ Begin(n) <= Begin(n) + 2
      BY <2>5, <2>6, StreamIs DEF FramingInv, FramingTyped
    <3> DEFINE b == Begin(n)
               e == Begin(n) + 2
    <3>2. b \in Nat /\ e \in Nat /\ e <= Len(Stream) /\ b <= e /\ e - b = 2
      BY <2>5, <3>1
    <3>3. qlenBuf = Seg(b, e)
      BY <2>7
    <3> HIDE DEF b, e
    <3> QED
      BY <3>2, <3>3, SegType
  <2>9. runtime = "deno"
    BY <1>5 DEF FramingInv, FramingTyped
  <2> QED
    BY <2>7, <2>8, <2>9 DEF LeftToWait
<1> QED
  BY <1>4, <1>5

\* Whatever the client sends, in whatever segments: no query that has come in
\* is left without a call that is on its way to it.
THEOREM ReceivedAreHandled ==
  ASSUME Overlap = FALSE
  PROVE  TcpSpec => []NoneLeftToWait
<1>1. TcpInit => FramingInv
  BY TcpInitInv
<1>2. FramingInv /\ [TcpNext]_tcpVars => FramingInv'
  BY TcpNextInv
<1>3. FramingInv => NoneLeftToWait
  BY InvLeavesNone
<1> QED
  BY <1>1, <1>2, <1>3, PTL DEF TcpSpec
-----------------------------------------------------------------------------
\* Chunks that do come in while another is held may be cut anywhere, and bytes
\* that are no header be read as one: what is left then is that the scratch
\* buffer holds no more than allocOnce() made room for, for a length that is
\* valid (Node checks it before).
ScratchFits ==
  qBuf = <<>> \/ /\ Len(qlenBuf) = HeaderSize /\ Len(qBuf) <= qlen
                 /\ runtime = "node" => ValidateSize(qlen)

\* Deno goes on only with a whole header.
WholeHeaders == runtime # "node" /\ sock = "open" => Len(qlenBuf) \in {0, HeaderSize}

Room == TcpTypeOK /\ ScratchFits /\ WholeHeaders

LEMMA TakeType ==
  ASSUME NEW c \in Seq(AnyByte), NEW k \in Nat
  PROVE  Take(c, k) \in Seq(AnyByte) /\ Len(Take(c, k)) = Lesser(k, Len(c))
<1> DEFINE m == Lesser(k, Len(c))
<1>1. Len(c) \in Nat /\ m \in Nat /\ m <= Len(c)
  BY DEF Lesser
<1> HIDE DEF m
<1>2. \A i \in 1 .. m : c[i] \in AnyByte
  BY <1>1, ElementOfSeq
<1>3. /\ SubSeq(c, 1, m) \in Seq(AnyByte)
      /\ Len(SubSeq(c, 1, m)) = IF 1 <= m THEN m - 1 + 1 ELSE 0
  BY <1>1, <1>2, SubSeqProperties
<1> QED
  BY <1>1, <1>3 DEF Take, m

LEMMA DropType ==
  ASSUME NEW c \in Seq(AnyByte), NEW k \in Nat
  PROVE  Drop(c, k) \in Seq(AnyByte)
<1>1. Len(c) \in Nat
  OBVIOUS
<1>2. \A i \in k + 1 .. Len(c) : c[i] \in AnyByte
  BY <1>1, ElementOfSeq
<1> QED
  BY <1>1, <1>2, SubSeqProperties DEF Drop

\* Any two bytes encode a number with its type.
LEMMA DecodeType ==
  ASSUME NEW h \in Seq(AnyByte), Len(h) = 2
  PROVE  Decode(h) \subseteq 0 .. MaxSize + 1
<1>1. h[1] \in Place
  <2>1. h[1] \in AnyByte
    OBVIOUS
  <2>2. AnyByte \subseteq Place
    BY StreamIs, ElementOfSeq DEF AnyByte
  <2> QED
    BY <2>1, <2>2
<1>2. h[1][1] \in 1 .. Len(QLens)
  BY <1>1 DEF Place
<1> QED
  BY <1>2, Lengths DEF Decode

\* handleTCPData(), whatever bytes it is given.
LEMMA HandleFits ==
  ASSUME Room, runtime = "node", NEW c \in Seq(AnyByte),
         NEW others \in SUBSET tasks, NEW s \in {"open", "closed"}, HandleTCPData(c, others, s),
         received' \in 0 .. Len(Stream), runtime' = "node"
  PROVE  Room'
<1> DEFINE rem == HeaderSize - Len(qlenBuf)
           header == qlenBuf \o Take(c, rem)
           data == Drop(c, rem)
<1>1. /\ qlenBuf \in Seq(AnyByte) /\ Len(qlenBuf) \in Nat /\ Len(qlenBuf) <= 2
      /\ qBuf \in Seq(AnyByte) /\ Len(qBuf) \in Nat /\ Len(qBuf) <= MaxSize
      /\ qlen \in 0 .. MaxSize + 1
      /\ \A t \in tasks : /\ t.query \in Seq(AnyByte) /\ Len(t.query) <= MaxSize
                          /\ t.oob \in Seq(AnyByte)
  BY DEF Room, TcpTypeOK, TypeOKUpTo, HeaderSize
<1>2. rem \in Nat /\ rem = 2 - Len(qlenBuf)
  BY <1>1 DEF HeaderSize
<1> HIDE DEF rem
<1>3. Take(c, rem) \in Seq(AnyByte) /\ Len(Take(c, rem)) <= rem /\ Len(Take(c, rem)) \in Nat
  BY <1>2, TakeType DEF Lesser
<1>4. header \in Seq(AnyByte) /\ Len(header) = Len(qlenBuf) + Len(Take(c, rem))
  BY <1>1, <1>3, ConcatProperties
<1>5. data \in Seq(AnyByte)
  BY <1>2, DropType
<1> HIDE DEF header, data
<1>6. Len(header) \in Nat /\ Len(header) <= 2
  BY <1>1, <1>2, <1>3, <1>4
<1>10. \/ Len(header) < HeaderSize /\ Len(qlenBuf) # 2
       \/ Len(header) = 2 /\ ~(Len(header) < HeaderSize)
  <2> DEFINE l == Len(header)
             k == Len(qlenBuf)
  <2>1. l \in Nat /\ l <= 2 /\ k \in Nat /\ k <= l
    BY <1>1, <1>3, <1>4, <1>6
  <2> HIDE DEF l, k
  <2>2. (l < 2 /\ k # 2) \/ (l = 2 /\ ~(l < 2))
    BY <2>1
  <2> QED
    BY <2>2 DEF l, k, HeaderSize
\* What a call that cuts no query leaves behind keeps its types.
<1>7. ASSUME tasks' = others, sock' \in {"open", "closed"}, qlenBuf' = header,
             qlen' \in 0 .. MaxSize + 1, qBuf' \in Seq(AnyByte), Len(qBuf') <= MaxSize,
             ScratchFits'
      PROVE  Room'
  BY <1>1, <1>4, <1>6, <1>7 DEF Room, WholeHeaders, TcpTypeOK, TypeOKUpTo, HeaderSize
<1>8. CASE Len(header) < HeaderSize /\ Len(qlenBuf) # 2
  <2>1. qlenBuf' = header /\ tasks' = others /\ sock' = s /\ UNCHANGED <<qlen, qBuf>>
    BY <1>8 DEF HandleTCPData, header, rem
  <2>2. qBuf = <<>>
    BY <1>8 DEF Room, ScratchFits, HeaderSize
  <2>3. ScratchFits'
    BY <2>1, <2>2 DEF ScratchFits
  <2> QED
    BY <1>1, <1>7, <2>1, <2>3
<1>9. CASE Len(header) = 2 /\ ~(Len(header) < HeaderSize)
  <2>1. Len(header) = 2
    BY <1>9
  <2>2. PICK n \in IF rem = 0 THEN {qlen} ELSE Decode(header) :
          LET missing == n - Len(qBuf)
              query == qBuf \o Take(data, missing)
          IN
          \/ /\ ~ValidateSize(n)
             /\ qlenBuf' = header /\ qlen' = n
             /\ tasks' = others /\ sock' = "closed"
             /\ UNCHANGED qBuf
          \/ /\ ValidateSize(n) /\ Len(query) < n
             /\ qlenBuf' = header /\ qlen' = n /\ qBuf' = query
             /\ tasks' = others /\ sock' = s
          \/ /\ ValidateSize(n) /\ Len(query) = n
             /\ EmptyScratch
             /\ tasks' = others \cup {[query |-> query, oob |-> Drop(data, missing)]}
             /\ sock' = s
    BY <1>9, Zenon DEF HandleTCPData, header, data, rem
  <2> DEFINE missing == n - Len(qBuf)
             query == qBuf \o Take(data, missing)
  <2>3. n \in 0 .. MaxSize + 1
    BY <1>1, <1>4, <2>1, <2>2, DecodeType
  <2>4. qBuf = <<>> \/ (n = qlen /\ Len(qBuf) <= n /\ ValidateSize(n))
    <3>1. CASE rem = 0
      BY <2>2, <3>1 DEF Room, ScratchFits
    <3>2. CASE rem # 0
      <4>1. Len(qlenBuf) # 2
        BY <1>1, <1>2, <3>2
      <4> QED
        BY <4>1 DEF Room, ScratchFits, HeaderSize
    <3> QED
      BY <3>1, <3>2
  <2>5. missing \in Nat /\ Len(qBuf) <= n
    BY <1>1, <2>3, <2>4
  <2> HIDE DEF missing, query
  <2>6. Take(data, missing) \in Seq(AnyByte) /\ Drop(data, missing) \in Seq(AnyByte)
    BY <1>5, <2>5, TakeType, DropType
  <2>7. query \in Seq(AnyByte) /\ Len(query) \in Nat
    BY <1>1, <2>6, ConcatProperties DEF query
  <2>8. \/ /\ ~ValidateSize(n)
           /\ qlenBuf' = header /\ qlen' = n
           /\ tasks' = others /\ sock' = "closed"
           /\ UNCHANGED qBuf
        \/ /\ ValidateSize(n) /\ Len(query) < n
           /\ qlenBuf' = header /\ qlen' = n /\ qBuf' = query
           /\ tasks' = others /\ sock' = s
        \/ /\ ValidateSize(n) /\ Len(query) = n
           /\ EmptyScratch
           /\ tasks' = others \cup {[query |-> query, oob |-> Drop(data, missing)]}
           /\ sock' = s
    BY <2>2, Zenon DEF missing, query
  <2>9. CASE ~ValidateSize(n)
    <3>1. /\ qlenBuf' = header /\ qlen' = n /\ tasks' = others /\ sock' = "closed"
          /\ UNCHANGED qBuf
      BY <2>8, <2>9
    <3>2. ScratchFits'
      BY <2>4, <2>9, <3>1 DEF ScratchFits
    <3> QED
      BY <1>1, <1>7, <2>3, <3>1, <3>2
  <2>10. CASE ValidateSize(n) /\ Len(query) < n
    <3>1. /\ qlenBuf' = header /\ qlen' = n /\ qBuf' = query
          /\ tasks' = others /\ sock' = s
      BY <2>8, <2>10, <2>7, <2>3
    <3>2. ScratchFits'
      BY <2>1, <2>3, <2>7, <2>10, <3>1 DEF ScratchFits, HeaderSize, ValidateSize
    <3>3. Len(query) <= MaxSize
      BY <2>3, <2>7, <2>10, Lengths DEF ValidateSize
    <3> QED
      BY <1>7, <2>3, <2>7, <3>1, <3>2, <3>3
  <2>11. CASE ValidateSize(n) /\ Len(query) = n
    <3>1. /\ EmptyScratch /\ sock' = s
          /\ tasks' = others \cup {[query |-> query, oob |-> Drop(data, missing)]}
      BY <2>3, <2>8, <2>11
    <3>2. <<>> \in Seq(AnyByte) /\ Len(<<>>) = 0 /\ 0 \in 0 .. MaxSize + 1 /\ 0 <= MaxSize
      BY Lengths
    <3>3. Len(query) <= MaxSize
      BY <2>3, <2>11, Lengths DEF ValidateSize
    <3>4. ASSUME NEW t \in tasks'
          PROVE  /\ t.query \in Seq(AnyByte) /\ Len(t.query) <= MaxSize
                 /\ t.oob \in Seq(AnyByte)
      BY <1>1, <2>6, <2>7, <3>1, <3>3
    <3> QED
      BY <3>1, <3>2, <3>4 DEF Room, ScratchFits, WholeHeaders, TcpTypeOK, TypeOKUpTo, EmptyScratch, HeaderSize
  <2> QED
    BY <2>8, <2>9, <2>10, <2>11
<1> QED
  BY <1>10, <1>8, <1>9

LEMMA NodeFits ==
  ASSUME Room, Node
  PROVE  Room'
<1>1. runtime = "node" /\ runtime' = "node" /\ unanswered' = unanswered /\ NodeNext
  BY DEF Node
<1>2. received \in 0 .. Len(Stream) /\ sock \in {"open", "closed"}
      /\ \A t \in tasks : t.oob \in Seq(AnyByte)
  BY DEF Room, TcpTypeOK, TypeOKUpTo
<1>3. ASSUME NEW k \in 1 .. MaxChunk, Data(k)
      PROVE  Room'
  <2>1. /\ received + k \in 0 .. Len(Stream) /\ received' = received + k
        /\ HandleTCPData(Seg(received, received + k), tasks, sock)
    BY <1>2, <1>3, FramingAssumption, StreamIs DEF Data, Seg
  <2>2. Seg(received, received + k) \in Seq(AnyByte)
    <3>1. received \in Nat /\ received + k \in Nat /\ received + k <= Len(Stream)
      BY <1>2, <2>1, StreamIs
    <3> QED
      BY <3>1, SegType, Zenon
  <2> QED
    BY <1>1, <1>2, <2>1, <2>2, HandleFits
<1>4. ASSUME NEW t \in tasks, NEW s \in {"open", "closed"}, Continue(t, s), received' = received
      PROVE  Room'
  <2>1. CASE t.oob = <<>>
    <3>1. tasks' = tasks \ {t} /\ sock' = s /\ UNCHANGED <<qlenBuf, qlen, qBuf>>
      BY <1>4, <2>1 DEF Continue
    <3> QED
      BY <1>1, <1>4, <3>1 DEF Room, ScratchFits, WholeHeaders, TcpTypeOK, TypeOKUpTo
  <2>2. CASE t.oob # <<>>
    <3>1. HandleTCPData(t.oob, tasks \ {t}, s) /\ tasks \ {t} \in SUBSET tasks
      BY <1>4, <2>2 DEF Continue
    <3> QED
      BY <1>1, <1>2, <1>4, <3>1, HandleFits
  <2> QED
    BY <2>1, <2>2
<1> QED
  BY <1>1, <1>2, <1>3, <1>4 DEF NodeNext, Settle, Answer, Fail, Skip

\* What Deno's reads give.
LEMMA ChunkType ==
  ASSUME Room, NEW k \in Nat, Read(k)
  PROVE  /\ received' \in 0 .. Len(Stream)
         /\ Chunk(k) \in Seq(AnyByte) /\ Len(Chunk(k)) = k
<1> DEFINE r == received + k
<1>1. /\ received \in Nat /\ r \in Nat /\ r <= Len(Stream) /\ received <= r
      /\ received' = r /\ r - received = k
  BY StreamIs DEF Room, TcpTypeOK, TypeOKUpTo, Read
<1>2. Chunk(k) = Seg(received, r)
  BY DEF Chunk, Seg
<1> HIDE DEF r
<1>3. Seg(received, r) \in Seq(AnyByte) /\ Len(Seg(received, r)) = r - received
  BY <1>1, SegType
<1> QED
  BY <1>1, <1>2, <1>3, StreamIs

LEMMA DenoFits ==
  ASSUME Room, \/ \E k \in 1 .. HeaderSize : ReadHeader(k)
               \/ \E k \in 0 .. MaxSize + 1 : ReadQuery(k)
               \/ ReadNothing \/ ReadThrows
               \/ \E t \in tasks : DenoSettle(t)
  PROVE  Room'
<1>1. ASSUME NEW k \in 1 .. HeaderSize, ReadHeader(k)
      PROVE  Room'
  <2>1. k \in Nat /\ k <= 2 /\ runtime = "deno" /\ Read(k)
    BY <1>1 DEF HeaderSize, ReadHeader, AtHeader, Reading
  <2>2. /\ received' \in 0 .. Len(Stream)
        /\ Chunk(k) \in Seq(AnyByte) /\ Len(Chunk(k)) = k
    BY <2>1, ChunkType
  <2>3. qBuf = <<>>
    BY <1>1 DEF Room, ScratchFits, ReadHeader, AtHeader, HeaderSize
  <2>4. qlen' \in 0 .. MaxSize + 1
    <3>1. CASE k < 2
      BY <1>1, <3>1 DEF ReadHeader, HeaderSize, Room, TcpTypeOK, TypeOKUpTo
    <3>2. CASE k = 2
      BY <1>1, <2>2, <3>2, DecodeType DEF ReadHeader, HeaderSize
    <3> QED
      BY <2>1, <3>1, <3>2
  <2>5. /\ qlenBuf' = Chunk(k) /\ sock' \in {"open", "closed"}
        /\ UNCHANGED <<qBuf, tasks, runtime>>
    BY <1>1 DEF ReadHeader, Room, TcpTypeOK, TypeOKUpTo
  <2>6. TcpTypeOK'
    BY <2>1, <2>2, <2>4, <2>5 DEF Room, TcpTypeOK, TypeOKUpTo, HeaderSize
  <2>7. WholeHeaders'
    BY <1>1, <2>1, <2>2, <2>5 DEF WholeHeaders, ReadHeader, HeaderSize
  <2> QED
    BY <2>3, <2>5, <2>6, <2>7 DEF Room, ScratchFits
<1>2. ASSUME NEW k \in 0 .. MaxSize + 1, ReadQuery(k)
      PROVE  Room'
  <2>1. k \in Nat /\ k <= qlen /\ k <= MaxSize + 1 /\ runtime = "deno" /\ Read(k)
        /\ qlenBuf # <<>>
    BY <1>2, Lengths DEF ReadQuery, AtQuery, Reading, Room, TcpTypeOK, TypeOKUpTo
  <2>2. /\ received' \in 0 .. Len(Stream)
        /\ Chunk(k) \in Seq(AnyByte) /\ Len(Chunk(k)) = k
    BY <2>1, ChunkType
  <2>3. CASE k = qlen
    <3>1. /\ EmptyScratch /\ tasks' = {[query |-> Chunk(k), oob |-> <<>>]}
          /\ UNCHANGED <<sock, runtime>>
      BY <1>2, <2>3 DEF ReadQuery
    <3>2. <<>> \in Seq(AnyByte) /\ Len(<<>>) = 0 /\ 0 \in 0 .. MaxSize + 1 /\ 0 <= MaxSize + 1
      BY Lengths
    <3> QED
      BY <2>1, <2>2, <3>1, <3>2 DEF Room, ScratchFits, WholeHeaders, TcpTypeOK, TypeOKUpTo, EmptyScratch, HeaderSize
  <2>4. CASE k # qlen
    <3>1. /\ qBuf' = Chunk(k) /\ sock' = "closed"
          /\ UNCHANGED <<qlenBuf, qlen, tasks, runtime>>
      BY <1>2, <2>4 DEF ReadQuery
    <3>2. Len(qlenBuf) = HeaderSize
      <4>1. Len(qlenBuf) # 0
        BY <2>1 DEF Room, TcpTypeOK, TypeOKUpTo
      <4> QED
        BY <1>2, <2>1, <4>1 DEF Room, WholeHeaders, ReadQuery, AtQuery, Reading
    <3>3. ScratchFits'
      BY <2>1, <2>2, <3>1, <3>2 DEF ScratchFits
    <3> QED
      BY <2>1, <2>2, <3>1, <3>3 DEF Room, WholeHeaders, TcpTypeOK, TypeOKUpTo
  <2> QED
    BY <2>3, <2>4
<1>3. CASE ReadNothing \/ ReadThrows
  <2>1. /\ runtime = "deno" /\ runtime' \in {"deno", "exited"} /\ sock' = "closed"
        /\ UNCHANGED <<received, qlenBuf, qlen, qBuf, tasks>>
    BY <1>3 DEF ReadNothing, ReadThrows, Waiting, AtHeader, AtQuery, Reading
  <2> QED
    BY <2>1 DEF Room, ScratchFits, WholeHeaders, TcpTypeOK, TypeOKUpTo
<1>4. ASSUME NEW t \in tasks, DenoSettle(t)
      PROVE  Room'
  BY <1>4 DEF DenoSettle, DenoAnswer, DenoGivesUp, Room, ScratchFits, WholeHeaders, TcpTypeOK, TypeOKUpTo
<1> QED
  BY <1>1, <1>2, <1>3, <1>4

\* Whatever the client sends, and however chunks overlap handleTCPData() calls:
\* no query's buffer is filled beyond its length, and on Node none is made for a
\* query above maxDNSPacketSize.
THEOREM ScratchNeverOverflows == TcpSpec => [](TcpTypeOK /\ ScratchFits)
<1>1. TcpInit => Room
  BY StreamIs, Lengths DEF TcpInit, NodeInit, Room, ScratchFits, WholeHeaders, TcpTypeOK, TypeOKUpTo, HeaderSize
<1>2. Room /\ [TcpNext]_tcpVars => Room'
  <2> SUFFICES ASSUME Room, [TcpNext]_tcpVars
               PROVE  Room'
    OBVIOUS
  <2>1. CASE UNCHANGED tcpVars
    BY <2>1 DEF tcpVars, nodeVars, Room, ScratchFits, WholeHeaders, TcpTypeOK, TypeOKUpTo
  <2> QED
    BY <2>1, NodeFits, DenoFits DEF TcpNext
<1>3. Room => TcpTypeOK /\ ScratchFits
  BY DEF Room
<1> QED
  BY <1>1, <1>2, <1>3, PTL DEF TcpSpec
-----------------------------------------------------------------------------
\* A fetch is under way no longer than MaxLatency; what an updater saw of a
\* certificate's life is what makes it come back in time.
CertsInv ==
  /\ now \in Nat /\ issued \in Nat /\ cert \in Nat
  /\ context \in [TlsServers -> Nat]
  /\ updater \in [TlsServers -> Updaters]
  /\ \A s \in TlsServers :
       updater[s].st = "fetching" => now <= updater[s].since + MaxLatency
  /\ RetriesInTime

USE CertsAssumption

\* Backoff() waits for some time, and for no longer than the certificate lasts
\* if that is more than a minute.
LEMMA BackoffInTime ==
  ASSUME NEW n \in Nat, NEW v \in Int
  PROVE  /\ Backoff(n, v) \in Nat
         /\ v > OneMin => Backoff(n, v) <= v
<1> DEFINE left == Greatest(1, MaxAttempts - n)
           when == SixMin * left
<1>1. left \in Nat /\ left >= 1
  BY DEF Greatest
<1>2. when \in Nat
  <2> HIDE DEF left
  <2> QED BY <1>1
<1>3. Backoff(n, v) = IF v <= OneMin THEN OneMin
                      ELSE IF when > v THEN Greatest(OneMin, v - OneMin)
                      ELSE when
  BY DEF Backoff
<1> HIDE DEF when
<1> QED BY <1>2, <1>3 DEF Greatest

LEMMA CertsInitInv == CertsInit => CertsInv
BY DEF CertsInit, CertsInv, Updaters, Off, RetriesInTime, NoCert

\* What one updater's step has to establish of that updater.
UpdaterOK(u) ==
  /\ u \in Updaters
  /\ u.st = "fetching" => now <= u.since + MaxLatency
  /\ u.st = "due" /\ u.crt - u.since > OneMin => u.at <= u.crt + MaxLatency

LEMMA UpdaterStep ==
  ASSUME CertsInv, NEW s \in TlsServers, NEW u, UpdaterOK(u),
         updater' = [updater EXCEPT ![s] = u], UNCHANGED <<now, issued>>,
         cert' \in Nat, context' \in [TlsServers -> Nat]
  PROVE  CertsInv'
<1>1. updater' \in [TlsServers -> Updaters]
  BY DEF CertsInv, UpdaterOK
<1>2. \A t \in TlsServers : updater'[t] = u \/ updater'[t] = updater[t]
  BY DEF CertsInv
<1> QED BY <1>1, <1>2 DEF CertsInv, RetriesInTime, UpdaterOK

\* Each step of the certificate authority, of the clock and of an updater.
LEMMA RenewalInv == CertsInv /\ Renewal => CertsInv'
<1> SUFFICES ASSUME CertsInv, Renewal PROVE CertsInv'
  OBVIOUS
<1>1. CASE Issue
  BY <1>1 DEF Issue, CertsInv, RetriesInTime
<1>2. CASE Tick
  <2>1. now \in Nat /\ now' = now + 1 /\ UNCHANGED <<issued, cert, context, updater>>
    BY <1>2 DEF Tick, CertsInv
  <2>2. \A s \in TlsServers : updater[s].since \in Nat
    BY DEF CertsInv, Updaters
  <2>3. \A s \in TlsServers : updater[s].st = "fetching" =>
          now + 1 <= updater[s].since + MaxLatency
    BY <1>2, <2>1, <2>2 DEF Tick
  <2> QED BY <2>1, <2>3 DEF CertsInv, RetriesInTime
<1>3. ASSUME NEW s \in TlsServers, CertUpdateForever(s) PROVE CertsInv'
  <2> DEFINE u == updater[s]
  <2>0. u \in Updaters /\ UpdaterOK(u) /\ now \in Nat /\ cert \in Nat
        /\ issued \in Nat /\ context \in [TlsServers -> Nat]
    BY DEF CertsInv, RetriesInTime, UpdaterOK
  <2>1. CASE GiveUp(s)
    <3> DEFINE w == [u EXCEPT !.st = "over"]
    <3>1. UpdaterOK(w)
      BY <2>0 DEF UpdaterOK, Updaters
    <3>2. updater' = [updater EXCEPT ![s] = w]
      BY <2>1 DEF GiveUp
    <3> HIDE DEF w
    <3> QED BY <2>0, <2>1, <3>1, <3>2, UpdaterStep DEF GiveUp
  <2>2. CASE NotNeeded(s)
    <3> DEFINE at == now + Least(ValidFor(cert) - OneDay, MaxTimer)
               w == Due(at, 0, cert)
    <3>1. at \in Nat /\ at <= cert
      BY <2>0, <2>2 DEF NotNeeded, ValidFor, Least
    <3>2. UpdaterOK(w)
      <4> HIDE DEF at
      <4> QED BY <2>0, <3>1 DEF UpdaterOK, Updaters, Due
    <3>3. updater' = [updater EXCEPT ![s] = w]
      BY <2>2 DEF NotNeeded
    <3> HIDE DEF w
    <3> QED BY <2>0, <2>2, <3>2, <3>3, UpdaterStep DEF NotNeeded
  <2>3. CASE Fetch(s)
    <3> DEFINE w == [u EXCEPT !.st = "fetching", !.crt = cert, !.since = now]
    <3>1. UpdaterOK(w)
      <4> HIDE DEF u
      <4>1. w \in Updaters /\ w.st = "fetching" /\ w.since = now
        BY <2>0 DEF Updaters
      <4> QED BY <2>0, <4>1 DEF UpdaterOK
    <3>2. updater' = [updater EXCEPT ![s] = w]
      BY <2>3 DEF Fetch
    <3> HIDE DEF w
    <3> QED BY <2>0, <2>3, <3>1, <3>2, UpdaterStep DEF Fetch
  <2>4. CASE FetchFails(s)
    <3> DEFINE wait == Backoff(u.n + 1, u.crt - u.since)
               w == [Due(now + wait, u.n + 1, u.crt) EXCEPT !.since = u.since]
    <3>1. u.st = "fetching" /\ now <= u.since + MaxLatency
      BY <2>0, <2>4 DEF FetchFails, Settles, UpdaterOK
    <3>2. u.n \in Nat /\ u.crt \in Nat /\ u.since \in Nat
      BY <2>0 DEF Updaters
    <3>3. wait \in Nat /\ (u.crt - u.since > OneMin => wait <= u.crt - u.since)
      <4> DEFINE n == u.n + 1
                 v == u.crt - u.since
      <4>1. n \in Nat /\ v \in Int
        <5> HIDE DEF u
        <5> QED BY <3>2
      <4> HIDE DEF n, v
      <4>2. Backoff(n, v) \in Nat /\ (v > OneMin => Backoff(n, v) <= v)
        BY <4>1, BackoffInTime
      <4> QED BY <4>2 DEF n, v
    <3>4. UpdaterOK(w)
      <4> HIDE DEF wait, u
      <4> QED BY <2>0, <3>1, <3>2, <3>3 DEF UpdaterOK, Updaters, Due
    <3>5. updater' = [updater EXCEPT ![s] = w]
      BY <2>4 DEF FetchFails
    <3> HIDE DEF w
    <3> QED BY <2>0, <2>4, <3>4, <3>5, UpdaterStep DEF FetchFails
  <2>5. CASE Renewed(s)
    <3> DEFINE w == Due(now, 0, issued)
    <3>1. UpdaterOK(w)
      BY <2>0 DEF UpdaterOK, Updaters, Due
    <3>2. updater' = [updater EXCEPT ![s] = w]
      BY <2>5 DEF Renewed
    <3>3. cert' \in Nat /\ context' \in [TlsServers -> Nat]
      BY <2>0, <2>5 DEF Renewed
    <3> HIDE DEF w
    <3> QED BY <2>5, <3>1, <3>2, <3>3, UpdaterStep DEF Renewed
  <2> QED BY <1>3, <2>1, <2>2, <2>3, <2>4, <2>5 DEF CertUpdateForever
<1> QED BY <1>1, <1>2, <1>3 DEF Renewal

\* Servers begin to listen.
LEMMA StartedInv ==
  ASSUME CertsInv, updater' = Started, UNCHANGED <<now, issued, cert, context>>
  PROVE  CertsInv'
BY DEF CertsInv, Started, Due, Updaters, RetriesInTime

\* The other steps have nothing to do with certificates.
LEMMA CertsNextInv == CertsInv /\ [Next]_vars => CertsInv'
<1> SUFFICES ASSUME CertsInv, [Next]_vars PROVE CertsInv'
  OBVIOUS
<1>1. CASE UNCHANGED certVars
  BY <1>1 DEF certVars, CertsInv, RetriesInTime
<1>2. CASE CertStep
  BY <1>2, RenewalInv DEF CertStep
<1>3. ASSUME NEW profiler \in BOOLEAN, SystemUp(profiler) PROVE CertsInv'
  <2>1. CASE tlsoffload
    BY <1>1, <1>3, <2>1 DEF SystemUp, certVars
  <2>2. CASE ~tlsoffload
    BY <1>3, <2>2, StartedInv DEF SystemUp
  <2> QED BY <2>1, <2>2
<1> QED
  BY <1>1, <1>2, <1>3
  DEF Next, vars, Prep, SystemReady, Up, BootFails, DownloadOnly, Killed, Bye, Exit,
      Accept, Secured, HandshakeFails, Destroyed, Closed, AdjustMaxConns,
      StopAfter, StopProc, SystemDown

\* However renewals fail, and however late: an updater that has seen more than
\* a minute left tries again before the certificate ends (give or take the
\* time a fetch takes), for any number of servers, attempts and periods.
THEOREM RetriesSafety == Spec => []RetriesInTime
<1>1. Init => CertsInv
  BY CertsInitInv DEF Init
<1>2. CertsInv => RetriesInTime
  BY DEF CertsInv
<1> QED BY <1>1, <1>2, CertsNextInv, PTL DEF Spec
-----------------------------------------------------------------------------
ConnType ==
  [st : {"none", "handshake", "open", "closing"},
   srv : Servers \cup {"none"}, addr : Addrs \cup {NoAddr}]

\* The tracker has an entry for each open connection, under its address: no
\* two connections have the same, so neither replaces nor removes another's.
TrackerOK ==
  /\ conn \in [Sockets -> ConnType]
  /\ connmap = [s \in DOMAIN connmap |-> connmap[s]]
  /\ \A c \in Sockets : conn[c].st = "open" =>
       /\ conn[c].addr # NoAddr
       /\ conn[c].srv \in DOMAIN connmap
       /\ conn[c].addr \in DOMAIN connmap[conn[c].srv]
       /\ connmap[conn[c].srv][conn[c].addr] = c
  /\ \A c, d \in Sockets :
       conn[c].addr = conn[d].addr /\ conn[c].addr # NoAddr => c = d

\* The process can only stop once it is up, and its tracker is empty then.
BeforeUp == boot \in {"prepare", "ready", "steady", "go"}

StopOK ==
  /\ boot \in {"prepare", "ready", "steady", "go", "up", "exited"}
  /\ BeforeUp => /\ ~endtimer /\ ~adjTimer /\ ~stopped /\ listening = {}
                 /\ \A c \in Sockets : conn[c].st = "none"
  /\ stopped => srvs = {}
  /\ DrainLeavesNone

IInv == CertsInv /\ TrackerOK /\ StopOK

\* With the sockets and the tracker alone, the tracker is in order.
LEMMA SameTracker ==
  ASSUME TrackerOK, UNCHANGED <<conn, connmap>>
  PROVE  TrackerOK'
BY DEF TrackerOK

LEMMA SameCerts ==
  ASSUME CertsInv, UNCHANGED certVars
  PROVE  CertsInv'
BY DEF CertsInv, certVars, RetriesInTime

\* A new or a secured connection under an address no other one has.
LEMMA TrappedOK ==
  ASSUME TrackerOK, NEW c \in Sockets, NEW s \in Servers \cup {"none"},
         NEW a \in Addrs \cup {NoAddr}, Trapped(c, s, a),
         \A d \in Sockets : conn[d].addr = a /\ a # NoAddr => d = c
  PROVE  /\ TrackerOK'
         /\ \A d \in Sockets : d # c => conn'[d] = conn[d]
         /\ srvs = {} => conn'[c].st = "closing"
<1>1. CASE Tracks(s, a)
  <2> DEFINE rec == [st |-> "open", srv |-> s, addr |-> a]
             m == [x \in DOMAIN connmap[s] \cup {a} |->
                     IF x = a THEN c ELSE connmap[s][x]]
  <2>1. conn' = [conn EXCEPT ![c] = rec] /\ s \in DOMAIN connmap /\ srvs # {}
        /\ a # NoAddr
    BY <1>1 DEF Trapped, Tracks
  <2>2. connmap' = [connmap EXCEPT ![s] = m]
    BY <1>1 DEF Trapped
  <2>3. rec \in ConnType
    BY DEF ConnType
  <2>4. conn' \in [Sockets -> ConnType] /\ conn'[c] = rec
        /\ \A d \in Sockets : d # c => conn'[d] = conn[d]
    <3> HIDE DEF rec
    <3> QED BY <2>1, <2>3 DEF TrackerOK
  <2>5. /\ DOMAIN connmap' = DOMAIN connmap
        /\ connmap' = [t \in DOMAIN connmap' |-> connmap'[t]]
        /\ connmap'[s] = m
        /\ \A t \in DOMAIN connmap : t # s => connmap'[t] = connmap[t]
    <3>1. connmap = [t \in DOMAIN connmap |-> connmap[t]]
      BY DEF TrackerOK
    <3> HIDE DEF m
    <3> QED BY <2>1, <2>2, <3>1
  <2>6. \A d, e \in Sockets :
          conn'[d].addr = conn'[e].addr /\ conn'[d].addr # NoAddr => d = e
    BY <2>4 DEF TrackerOK
  <2>7. ASSUME NEW d \in Sockets, conn'[d].st = "open"
        PROVE  /\ conn'[d].addr # NoAddr
               /\ conn'[d].srv \in DOMAIN connmap'
               /\ conn'[d].addr \in DOMAIN connmap'[conn'[d].srv]
               /\ connmap'[conn'[d].srv][conn'[d].addr] = d
    <3>1. CASE d = c
      BY <2>1, <2>4, <2>5, <3>1
    <3>2. CASE d # c
      <4>1. /\ conn'[d] = conn[d] /\ conn[d].srv \in DOMAIN connmap
            /\ conn[d].addr # NoAddr
            /\ conn[d].addr \in DOMAIN connmap[conn[d].srv]
            /\ connmap[conn[d].srv][conn[d].addr] = d
            /\ conn[d].addr # a
        BY <2>1, <2>4, <2>7, <3>2 DEF TrackerOK
      <4>2. CASE conn[d].srv = s
        BY <2>5, <4>1, <4>2
      <4>3. CASE conn[d].srv # s
        BY <2>5, <4>1, <4>3
      <4> QED BY <4>2, <4>3
    <3> QED BY <3>1, <3>2
  <2> QED BY <2>1, <2>4, <2>5, <2>6, <2>7 DEF TrackerOK
<1>2. CASE ~Tracks(s, a)
  <2> DEFINE rec == [st |-> "closing", srv |-> s, addr |-> NoAddr]
  <2>1. conn' = [conn EXCEPT ![c] = rec] /\ connmap' = connmap
    BY <1>2 DEF Trapped
  <2>2. rec \in ConnType
    BY DEF ConnType
  <2>3. conn' \in [Sockets -> ConnType] /\ conn'[c] = rec
        /\ \A d \in Sockets : d # c => conn'[d] = conn[d]
    <3> HIDE DEF rec
    <3> QED BY <2>1, <2>2 DEF TrackerOK
  <2> QED BY <2>1, <2>3 DEF TrackerOK
<1> QED BY <1>1, <1>2

\* A socket goes over to "closing" or is gone: the others keep their entries.
LEMMA LeavesOK ==
  ASSUME TrackerOK, NEW c \in Sockets, NEW rec \in ConnType,
         conn' = [conn EXCEPT ![c] = rec], UNCHANGED connmap,
         rec.st # "open", rec.addr \in {conn[c].addr, NoAddr}
  PROVE  TrackerOK'
<1>1. conn' \in [Sockets -> ConnType] /\ conn'[c] = rec
      /\ \A d \in Sockets : d # c => conn'[d] = conn[d]
  BY DEF TrackerOK
<1> QED BY <1>1 DEF TrackerOK

LEMMA InitInv == Init => IInv
<1> SUFFICES ASSUME Init PROVE IInv
  OBVIOUS
<1>1. CertsInv
  BY CertsInitInv DEF Init
<1>2. TrackerOK
  <2>1. Idle \in ConnType
    BY DEF Idle, ConnType
  <2>2. connmap = [s \in DOMAIN connmap |-> connmap[s]]
    BY DEF Init, NoneTracked
  <2> QED BY <2>1, <2>2 DEF Init, TrackerOK, Idle
<1>3. StopOK
  BY DEF Init, StopOK, BeforeUp, DrainLeavesNone, Idle
<1> QED BY <1>1, <1>2, <1>3 DEF IInv

\* The steps that change neither connections nor certificates.
LEMMA ControlInv ==
  ASSUME IInv, UNCHANGED <<conn, connmap, certVars>>, StopOK'
  PROVE  IInv'
BY SameTracker, SameCerts DEF IInv

LEMMA ExitInv == ASSUME IInv, Exit PROVE IInv'
BY ControlInv
   DEF Exit, connVars, loadVars, IInv, StopOK, BeforeUp, DrainLeavesNone

LEMMA BootInv ==
  ASSUME IInv,
         Prep \/ SystemReady \/ Up \/ BootFails \/ DownloadOnly \/ Killed \/ Bye
  PROVE  IInv'
<1> USE DEF connVars, loadVars, IInv, StopOK, BeforeUp, DrainLeavesNone
<1>1. CASE Prep
  BY <1>1, ControlInv DEF Prep
<1>2. CASE SystemReady
  BY <1>2, ControlInv DEF SystemReady
<1>3. CASE Up
  BY <1>3, ControlInv DEF Up
<1>4. CASE BootFails \/ DownloadOnly \/ Killed \/ Bye
  BY <1>4, ExitInv DEF BootFails, DownloadOnly, Killed, Bye
<1> QED BY <1>1, <1>2, <1>3, <1>4

\* systemUp(): there is no connection yet, so none is untracked.
LEMMA SystemUpInv ==
  ASSUME IInv, NEW profiler \in BOOLEAN, SystemUp(profiler)
  PROVE  IInv'
<1>1. BeforeUp /\ \A c \in Sockets : conn[c].st = "none"
  BY DEF SystemUp, IInv, StopOK, BeforeUp
<1>2. CertsInv'
  <2>1. CASE tlsoffload
    BY <2>1, SameCerts DEF SystemUp, IInv, certVars
  <2>2. CASE ~tlsoffload
    BY <2>2, StartedInv DEF SystemUp, IInv
  <2> QED BY <2>1, <2>2
<1>3. TrackerOK'
  <2>1. conn' = conn /\ connmap' = [s \in DOMAIN connmap' |-> connmap'[s]]
    BY DEF SystemUp
  <2> QED BY <1>1, <2>1 DEF IInv, TrackerOK
<1>4. StopOK'
  BY <1>1 DEF SystemUp, IInv, StopOK, BeforeUp, DrainLeavesNone
<1> QED BY <1>2, <1>3, <1>4 DEF IInv

\* What a connection's step leaves alone.
LEMMA ConnStop ==
  ASSUME IInv, ~BeforeUp, UNCHANGED <<bootVars, srvs, stopped>>,
         stopped => \A c \in Sockets : conn'[c].st # "open"
  PROVE  StopOK'
BY DEF IInv, StopOK, BeforeUp, DrainLeavesNone, bootVars

LEMMA AcceptInv ==
  ASSUME PortReuse = FALSE, IInv, NEW c \in Sockets, NEW s \in Servers,
         NEW a \in Addrs, Accept(c, s, a)
  PROVE  IInv'
<1>1. ~BeforeUp /\ UNCHANGED <<bootVars, srvs, stopped, certVars>>
  BY DEF Accept, IInv, StopOK
<1>2. \A d \in Sockets : conn[d].addr # a
  BY DEF Accept, Free
<1>3. CASE s \in TlsServers
  <2> DEFINE rec == [st |-> "handshake", srv |-> s, addr |-> a]
  <2>1. conn' = [conn EXCEPT ![c] = rec] /\ UNCHANGED connmap
    BY <1>3 DEF Accept
  <2>2. rec \in ConnType
    BY DEF ConnType
  <2>3. conn' \in [Sockets -> ConnType] /\ conn'[c] = rec
        /\ \A d \in Sockets : d # c => conn'[d] = conn[d]
    <3> HIDE DEF rec
    <3> QED BY <2>1, <2>2 DEF IInv, TrackerOK
  <2>4. TrackerOK'
    BY <1>2, <2>1, <2>3 DEF IInv, TrackerOK
  <2>5. stopped => \A d \in Sockets : conn'[d].st # "open"
    BY <2>3 DEF IInv, StopOK, DrainLeavesNone
  <2> QED BY <1>1, <2>4, <2>5, ConnStop, SameCerts DEF IInv
<1>4. CASE s \notin TlsServers
  <2>1. PICK addr \in {a, NoAddr} : Trapped(c, s, addr)
    BY <1>4 DEF Accept
  <2>2. /\ TrackerOK'
        /\ \A d \in Sockets : d # c => conn'[d] = conn[d]
        /\ srvs = {} => conn'[c].st = "closing"
    BY <1>2, <2>1, TrappedOK DEF IInv
  <2>3. stopped => \A d \in Sockets : conn'[d].st # "open"
    BY <2>2 DEF IInv, StopOK, DrainLeavesNone
  <2> QED BY <1>1, <2>2, <2>3, ConnStop, SameCerts DEF IInv
<1> QED BY <1>3, <1>4

LEMMA SecuredInv ==
  ASSUME IInv, NEW c \in Sockets, Secured(c)
  PROVE  IInv'
<1>1. ~BeforeUp /\ UNCHANGED <<bootVars, srvs, stopped, certVars>>
  BY DEF Secured, IInv, StopOK
<1>2. PICK a \in {conn[c].addr, NoAddr} : Trapped(c, conn[c].srv, a)
  BY DEF Secured
<1>3. conn[c] \in ConnType
  BY DEF IInv, TrackerOK
<1>4. /\ conn[c].srv \in Servers \cup {"none"} /\ a \in Addrs \cup {NoAddr}
      /\ \A d \in Sockets : conn[d].addr = a /\ a # NoAddr => d = c
  BY <1>2, <1>3 DEF ConnType, IInv, TrackerOK
<1>5. /\ TrackerOK'
      /\ \A d \in Sockets : d # c => conn'[d] = conn[d]
      /\ srvs = {} => conn'[c].st = "closing"
  BY <1>2, <1>4, TrappedOK DEF IInv
<1>6. stopped => \A d \in Sockets : conn'[d].st # "open"
  BY <1>5 DEF IInv, StopOK, DrainLeavesNone
<1> QED BY <1>1, <1>5, <1>6, ConnStop, SameCerts DEF IInv

LEMMA EndsInv ==
  ASSUME IInv, NEW c \in Sockets, HandshakeFails(c) \/ Destroyed(c)
  PROVE  IInv'
<1>1. ~BeforeUp /\ UNCHANGED <<bootVars, srvs, stopped, connmap, certVars>>
  BY DEF HandshakeFails, Destroyed, IInv, StopOK
<1>2. conn[c] \in ConnType
  BY DEF IInv, TrackerOK
<1>3. PICK a \in {conn[c].addr, NoAddr} :
        conn' = [conn EXCEPT ![c] = [st |-> "closing", srv |-> conn[c].srv, addr |-> a]]
  <2>1. CASE HandshakeFails(c)
    BY <2>1 DEF HandshakeFails
  <2>2. CASE Destroyed(c)
    <3> DEFINE rec == [st |-> "closing", srv |-> conn[c].srv, addr |-> conn[c].addr]
    <3>1. rec = [conn[c] EXCEPT !.st = "closing"]
      BY <1>2 DEF ConnType
    <3>2. conn' = [conn EXCEPT ![c] = rec]
      BY <2>2, <3>1 DEF Destroyed
    <3> QED BY <3>2
  <2> QED BY <2>1, <2>2
<1> DEFINE rec == [st |-> "closing", srv |-> conn[c].srv, addr |-> a]
<1>4. rec \in ConnType /\ rec.st # "open" /\ rec.addr \in {conn[c].addr, NoAddr}
  BY <1>2 DEF ConnType
<1>5. TrackerOK'
  <2> HIDE DEF rec
  <2> QED BY <1>1, <1>3, <1>4, LeavesOK DEF IInv, rec
<1>6. stopped => \A d \in Sockets : conn'[d].st # "open"
  BY <1>3 DEF IInv, StopOK, DrainLeavesNone, TrackerOK
<1> QED BY <1>1, <1>5, <1>6, ConnStop, SameCerts DEF IInv

\* 'close' removes the entry of that address, which no open connection has.
LEMMA ClosedInv ==
  ASSUME IInv, NEW c \in Sockets, Closed(c)
  PROVE  IInv'
<1>1. ~BeforeUp /\ UNCHANGED <<bootVars, srvs, stopped, certVars>>
  BY DEF Closed, IInv, StopOK
<1>2. Idle \in ConnType /\ Idle.st = "none" /\ Idle.addr = NoAddr
  BY DEF Idle, ConnType
<1>3. conn' \in [Sockets -> ConnType] /\ conn'[c] = Idle
      /\ \A d \in Sockets : d # c => conn'[d] = conn[d]
  BY <1>2 DEF Closed, IInv, TrackerOK
<1>4. \A d, e \in Sockets :
        conn'[d].addr = conn'[e].addr /\ conn'[d].addr # NoAddr => d = e
  BY <1>2, <1>3 DEF IInv, TrackerOK
<1>5. ASSUME NEW d \in Sockets, conn'[d].st = "open"
      PROVE  /\ d # c /\ conn'[d] = conn[d]
             /\ conn[d].srv \in DOMAIN connmap
             /\ conn[d].addr \in DOMAIN connmap[conn[d].srv]
             /\ connmap[conn[d].srv][conn[d].addr] = d
             /\ conn[d].addr # conn[c].addr
  BY <1>2, <1>3, <1>5 DEF IInv, TrackerOK
<1>6. ASSUME NEW d \in Sockets, conn'[d].st = "open"
      PROVE  conn'[d].addr # NoAddr
  BY <1>5, <1>6 DEF IInv, TrackerOK
<1>7. TrackerOK'
  <2>1. CASE conn[c].srv \notin DOMAIN connmap
    <3>1. connmap' = connmap
      BY <2>1 DEF Closed
    <3>2. connmap = [t \in DOMAIN connmap |-> connmap[t]]
      BY DEF IInv, TrackerOK
    <3> QED BY <1>3, <1>4, <1>5, <1>6, <3>1, <3>2 DEF TrackerOK
  <2>2. CASE conn[c].srv \in DOMAIN connmap
    <3> DEFINE s == conn[c].srv
               m == [a \in DOMAIN connmap[s] \ {conn[c].addr} |-> connmap[s][a]]
    <3>1. connmap' = [connmap EXCEPT ![s] = m]
      BY <2>2 DEF Closed
    <3>2. /\ DOMAIN connmap' = DOMAIN connmap
          /\ connmap' = [t \in DOMAIN connmap' |-> connmap'[t]]
          /\ connmap'[s] = m
          /\ \A t \in DOMAIN connmap : t # s => connmap'[t] = connmap[t]
      <4>1. connmap = [t \in DOMAIN connmap |-> connmap[t]]
        BY DEF IInv, TrackerOK
      <4> HIDE DEF m, s
      <4>2. s \in DOMAIN connmap
        BY <2>2 DEF s
      <4> QED BY <3>1, <4>1, <4>2
    <3>3. ASSUME NEW d \in Sockets, conn'[d].st = "open"
          PROVE  /\ conn'[d].addr # NoAddr
               /\ conn'[d].srv \in DOMAIN connmap'
                 /\ conn'[d].addr \in DOMAIN connmap'[conn'[d].srv]
                 /\ connmap'[conn'[d].srv][conn'[d].addr] = d
      <4>1. CASE conn[d].srv = s
        BY <1>5, <1>6, <3>2, <3>3, <4>1
      <4>2. CASE conn[d].srv # s
        BY <1>5, <1>6, <3>2, <3>3, <4>2
      <4> QED BY <4>1, <4>2
    <3> QED BY <1>3, <1>4, <1>6, <3>2, <3>3 DEF TrackerOK
  <2> QED BY <2>1, <2>2
<1>8. stopped => \A d \in Sockets : conn'[d].st # "open"
  BY <1>2, <1>3 DEF IInv, StopOK, DrainLeavesNone
<1> QED BY <1>1, <1>7, <1>8, ConnStop, SameCerts DEF IInv

\* systemDown(): every open connection is in the tracker, so it is drained.
LEMMA StopProcInv ==
  ASSUME IInv, NEW very \in BOOLEAN, StopProc(very)
  PROVE  IInv'
<1>1. boot = "up" /\ ~BeforeUp /\ UNCHANGED <<boot, certVars>> /\ srvs' = {}
  BY DEF StopProc, SystemDown, Running, IInv, StopOK, BeforeUp, bootVars
<1>2. \A c \in Sockets : conn[c].st = "open" => c \in Drained
  BY DEF Drained, IInv, TrackerOK
<1>3. conn' = [c \in Sockets |->
        IF c \in Drained THEN [conn[c] EXCEPT !.st = "closing"] ELSE conn[c]]
  BY DEF StopProc, SystemDown
<1>4. ASSUME NEW c \in Sockets
      PROVE  conn'[c] \in ConnType /\ conn'[c].st # "open"
             /\ conn'[c].addr = conn[c].addr
  <2>1. conn[c] \in ConnType
    BY DEF IInv, TrackerOK
  <2> QED BY <1>2, <1>3, <2>1 DEF ConnType
<1>5. TrackerOK'
  <2>1. conn' \in [Sockets -> ConnType]
    BY <1>3, <1>4
  <2>2. connmap' = [s \in DOMAIN connmap' |-> connmap'[s]]
    BY DEF StopProc, SystemDown, NoneTracked
  <2> QED BY <1>4, <2>1, <2>2 DEF IInv, TrackerOK
<1>6. StopOK'
  BY <1>1, <1>4 DEF StopOK, BeforeUp, DrainLeavesNone
<1> QED BY <1>1, <1>5, <1>6, SameCerts DEF IInv

LEMMA LoadInv ==
  ASSUME IInv,
         StopAfter \/ \E avg1, avg5 \in Averages, low, very \in BOOLEAN :
                        AdjustMaxConns(avg1, avg5, low, very)
  PROVE  IInv'
<1> USE DEF IInv, StopOK, BeforeUp, DrainLeavesNone, connVars, bootVars
<1>1. CASE StopAfter
  BY <1>1, ControlInv DEF StopAfter
<1>2. ASSUME NEW avg1 \in Averages, NEW avg5 \in Averages,
             NEW low \in BOOLEAN, NEW very \in BOOLEAN,
             AdjustMaxConns(avg1, avg5, low, very)
      PROVE  IInv'
  <2>1. boot = "up" /\ UNCHANGED <<boot, connVars, stopped, certVars>>
    BY <1>2 DEF AdjustMaxConns, Running
  <2> QED BY <2>1, ControlInv
<1> QED BY <1>1, <1>2

LEMMA NextInv == PortReuse = FALSE /\ IInv /\ [Next]_vars => IInv'
<1> SUFFICES ASSUME PortReuse = FALSE, IInv, [Next]_vars PROVE IInv'
  OBVIOUS
<1>1. CASE UNCHANGED vars
  <2>1. UNCHANGED <<conn, connmap, certVars>> /\ UNCHANGED lifeVars
    BY <1>1 DEF vars, lifeVars, connVars
  <2>2. StopOK'
    BY <2>1 DEF lifeVars, bootVars, connVars, loadVars, IInv, StopOK, BeforeUp,
                DrainLeavesNone
  <2> QED BY <2>1, <2>2, ControlInv
<1>2. CASE CertStep
  <2>1. CertsInv'
    BY <1>2, RenewalInv DEF CertStep, IInv
  <2>2. TrackerOK'
    BY <1>2, SameTracker DEF CertStep, lifeVars, connVars, IInv
  <2>3. StopOK'
    BY <1>2 DEF CertStep, lifeVars, bootVars, connVars, loadVars, IInv, StopOK,
                BeforeUp, DrainLeavesNone
  <2> QED BY <2>1, <2>2, <2>3 DEF IInv
<1> QED BY <1>1, <1>2, BootInv, SystemUpInv, AcceptInv, SecuredInv, EndsInv,
           ClosedInv, LoadInv, StopProcInv DEF Next

\* For any number of servers and sockets, if ports do not come back before
\* 'close': once systemDown() has run no connection is open, whatever came in
\* before, meanwhile or after.
THEOREM LifecycleSafety ==
  ASSUME PortReuse = FALSE
  PROVE  Spec => []DrainLeavesNone
<1>1. IInv => DrainLeavesNone
  BY DEF IInv, StopOK
<1>2. PortReuse = FALSE
  OBVIOUS
<1>3. IInv /\ [Next]_vars => IInv'
  BY <1>2, NextInv
<1> QED BY <1>1, <1>3, InitInv, PTL DEF Spec
-----------------------------------------------------------------------------
\* The tracker's map: of each server, which socket has an address.
TrackerTyped(m) ==
  /\ m = [s \in DOMAIN m |-> m[s]] /\ DOMAIN m \subseteq Servers
  /\ \A s \in DOMAIN m : DOMAIN m[s] \subseteq Addrs /\ m[s] \in [DOMAIN m[s] -> Sockets]

\* What has its type but for the certificates, with what the loads make of the
\* limit, and the connections and their tracker apart.
LoadTyped == limit \in Nat /\ adj \in 0 .. Breakpoint

ProcessTyped ==
  /\ boot \in {"prepare", "ready", "steady", "go", "up", "exited"}
  /\ tlsoffload \in BOOLEAN /\ ready \in BOOLEAN /\ adjTimer \in BOOLEAN
  /\ endtimer \in BOOLEAN /\ stopped \in BOOLEAN
  /\ listening \subseteq Servers /\ srvs \subseteq Servers

ConnsTyped == TrackerTyped(connmap) /\ conn \in [Sockets -> ConnType]

LifeTyped == LoadTyped /\ ProcessTyped /\ ConnsTyped

TypesInv == CertsInv /\ now <= MaxNow /\ LifeTyped

LEMMA TrackerSet ==
  ASSUME NEW m, TrackerTyped(m), NEW s \in DOMAIN m,
         NEW f, DOMAIN f \subseteq Addrs, f \in [DOMAIN f -> Sockets]
  PROVE  TrackerTyped([m EXCEPT ![s] = f])
<1> DEFINE n == [m EXCEPT ![s] = f]
<1>1. n = [t \in DOMAIN m |-> IF t = s THEN f ELSE m[t]]
  BY DEF TrackerTyped
<1> HIDE DEF n
<1>2. DOMAIN n = DOMAIN m /\ n = [t \in DOMAIN n |-> n[t]]
      /\ n[s] = f /\ \A t \in DOMAIN m : t # s => n[t] = m[t]
  BY <1>1
<1>3. ASSUME NEW t \in DOMAIN n
      PROVE  DOMAIN n[t] \subseteq Addrs /\ n[t] \in [DOMAIN n[t] -> Sockets]
  BY <1>2, Zenon DEF TrackerTyped
<1>4. TrackerTyped(n)
  BY <1>2, <1>3 DEF TrackerTyped
<1> QED
  BY <1>4 DEF n

LEMMA NoneTrackedTyped == TrackerTyped(NoneTracked)
BY DEF TrackerTyped, NoneTracked

LEMMA ConnSet ==
  ASSUME conn \in [Sockets -> ConnType], NEW c \in Sockets, NEW rec \in ConnType,
         conn' = [conn EXCEPT ![c] = rec]
  PROVE  conn' \in [Sockets -> ConnType]
OBVIOUS

LEMMA InitTypes == Init => TypesInv
<1> SUFFICES ASSUME Init PROVE TypesInv
  OBVIOUS
<1>1. CertsInv /\ now <= MaxNow
  BY CertsInitInv DEF Init, CertsInit
<1>2. LoadTyped
  BY LifecycleAssumption, FS_CardinalityType DEF Init, LoadTyped, Unlimited
<1>3. ProcessTyped
  BY DEF Init, ProcessTyped
<1>4. Idle \in ConnType
  BY DEF Idle, ConnType
<1>5. ConnsTyped
  BY <1>4, NoneTrackedTyped DEF Init, ConnsTyped
<1> QED
  BY <1>1, <1>2, <1>3, <1>5 DEF TypesInv, LifeTyped

LEMMA TrappedTyped ==
  ASSUME ConnsTyped, ProcessTyped, NEW c \in Sockets, NEW s \in Servers \cup {"none"},
         NEW a \in Addrs \cup {NoAddr}, Trapped(c, s, a)
  PROVE  ConnsTyped'
<1>1. CASE Tracks(s, a)
  <2> DEFINE rec == [st |-> "open", srv |-> s, addr |-> a]
             f == [x \in DOMAIN connmap[s] \cup {a} |-> IF x = a THEN c ELSE connmap[s][x]]
  <2>1. s \in DOMAIN connmap /\ a \in Addrs
    BY <1>1 DEF Tracks
  <2>2. conn' = [conn EXCEPT ![c] = rec] /\ connmap' = [connmap EXCEPT ![s] = f]
    BY <1>1 DEF Trapped
  <2>3. rec \in ConnType
    BY DEF ConnType
  <2>4. DOMAIN f \subseteq Addrs /\ f \in [DOMAIN f -> Sockets]
    BY <2>1 DEF ConnsTyped, TrackerTyped
  <2> HIDE DEF rec, f
  <2>5. TrackerTyped(connmap')
    BY <2>1, <2>2, <2>4, TrackerSet DEF ConnsTyped
  <2> QED
    BY <2>2, <2>3, <2>5, ConnSet DEF ConnsTyped
<1>2. CASE ~Tracks(s, a)
  <2> DEFINE rec == [st |-> "closing", srv |-> s, addr |-> NoAddr]
  <2>1. conn' = [conn EXCEPT ![c] = rec] /\ connmap' = connmap
    BY <1>2 DEF Trapped
  <2>2. rec \in ConnType
    BY DEF ConnType
  <2> HIDE DEF rec
  <2> QED
    BY <2>1, <2>2, ConnSet DEF ConnsTyped
<1> QED
  BY <1>1, <1>2

\* Connections come, are secured, end and are forgotten.
LEMMA ConnStepsTyped ==
  ASSUME LifeTyped, NEW c \in Sockets,
         \/ \E s \in Servers, a \in Addrs : Accept(c, s, a)
         \/ Secured(c) \/ HandshakeFails(c) \/ Destroyed(c) \/ Closed(c)
  PROVE  LifeTyped'
<1>1. LoadTyped' /\ ProcessTyped'
  BY DEF Accept, Secured, HandshakeFails, Destroyed, Closed, bootVars, loadVars,
         LifeTyped, LoadTyped, ProcessTyped
<1> SUFFICES ConnsTyped'
  BY <1>1 DEF LifeTyped
<1>2. conn[c] \in ConnType
  BY DEF LifeTyped, ConnsTyped
<1>3. ASSUME NEW s \in Servers, NEW a \in Addrs, Accept(c, s, a)
      PROVE  ConnsTyped'
  <2>1. CASE s \in TlsServers
    <3> DEFINE rec == [st |-> "handshake", srv |-> s, addr |-> a]
    <3>1. conn' = [conn EXCEPT ![c] = rec] /\ connmap' = connmap
      BY <1>3, <2>1 DEF Accept
    <3>2. rec \in ConnType
      BY DEF ConnType
    <3> HIDE DEF rec
    <3> QED
      BY <3>1, <3>2, ConnSet DEF LifeTyped, ConnsTyped
  <2>2. CASE s \notin TlsServers
    <3>1. PICK addr \in {a, NoAddr} : Trapped(c, s, addr)
      BY <1>3, <2>2 DEF Accept
    <3> QED
      BY <3>1, TrappedTyped DEF LifeTyped
  <2> QED
    BY <2>1, <2>2
<1>4. CASE Secured(c)
  <2>1. PICK a \in {conn[c].addr, NoAddr} : Trapped(c, conn[c].srv, a)
    BY <1>4 DEF Secured
  <2>2. conn[c].srv \in Servers \cup {"none"} /\ a \in Addrs \cup {NoAddr}
    BY <1>2, <2>1 DEF ConnType
  <2> QED
    BY <2>1, <2>2, TrappedTyped DEF LifeTyped
<1>5. CASE HandshakeFails(c)
  <2> DEFINE rec == [st |-> "closing", srv |-> conn[c].srv, addr |-> NoAddr]
  <2>1. conn' = [conn EXCEPT ![c] = rec] /\ connmap' = connmap
    BY <1>5 DEF HandshakeFails
  <2>2. rec \in ConnType
    BY <1>2 DEF ConnType
  <2> HIDE DEF rec
  <2> QED
    BY <2>1, <2>2, ConnSet DEF LifeTyped, ConnsTyped
<1>6. CASE Destroyed(c)
  <2> DEFINE rec == [conn[c] EXCEPT !.st = "closing"]
  <2>1. conn' = [conn EXCEPT ![c] = rec] /\ connmap' = connmap
    BY <1>6 DEF Destroyed
  <2>2. rec \in ConnType
    BY <1>2 DEF ConnType
  <2> HIDE DEF rec
  <2> QED
    BY <2>1, <2>2, ConnSet DEF LifeTyped, ConnsTyped
<1>7. CASE Closed(c)
  <2> DEFINE s == conn[c].srv
             f == [a \in DOMAIN connmap[s] \ {conn[c].addr} |-> connmap[s][a]]
  <2>1. Idle \in ConnType
    BY DEF Idle, ConnType
  <2>2. conn' \in [Sockets -> ConnType]
    BY <1>7, <2>1, ConnSet DEF Closed, LifeTyped, ConnsTyped
  <2>3. CASE s \in DOMAIN connmap
    <3>1. DOMAIN f \subseteq Addrs /\ f \in [DOMAIN f -> Sockets]
      BY <2>3 DEF LifeTyped, ConnsTyped, TrackerTyped
    <3>2. connmap' = [connmap EXCEPT ![s] = f]
      BY <1>7, <2>3 DEF Closed
    <3> HIDE DEF s, f
    <3> QED
      BY <2>2, <2>3, <3>1, <3>2, TrackerSet DEF LifeTyped, ConnsTyped
  <2>4. CASE s \notin DOMAIN connmap
    BY <1>7, <2>2, <2>4 DEF Closed, LifeTyped, ConnsTyped
  <2> QED
    BY <2>3, <2>4
<1> QED
  BY <1>3, <1>4, <1>5, <1>6, <1>7

\* The count of adjustments neither falls below zero nor passes Breakpoint.
LEMMA AdjustTyped ==
  ASSUME LifeTyped, NEW avg1 \in Averages, NEW avg5 \in Averages,
         NEW low \in BOOLEAN, NEW very \in BOOLEAN, AdjustMaxConns(avg1, avg5, low, very)
  PROVE  LifeTyped'
<1> USE LifecycleAssumption
<1> DEFINE n == Adjustments(avg1, avg5, low)
<1>1. adj \in Nat /\ limit \in Nat /\ avg1 \in Nat /\ avg5 \in Nat
  BY DEF LifeTyped, LoadTyped
<1>2. n \in Nat
  BY <1>1 DEF Adjustments
<1>3. MinConns \div 2 \in Nat /\ ConnsFor(avg1, avg5, low) \in Nat
  BY <1>1 DEF ConnsFor, Greatest
<1> HIDE DEF n
<1>4. LoadTyped'
  BY <1>1, <1>2, <1>3 DEF AdjustMaxConns, LifeTyped, LoadTyped, n
<1>5. ProcessTyped' /\ ConnsTyped'
  BY DEF AdjustMaxConns, bootVars, connVars, LifeTyped, ProcessTyped, ConnsTyped
<1> QED
  BY <1>4, <1>5 DEF LifeTyped

LEMMA BootStepsTyped ==
  ASSUME LifeTyped,
         \/ Prep \/ SystemReady \/ Up \/ BootFails \/ DownloadOnly
         \/ StopAfter \/ Killed \/ Bye \/ CertStep
  PROVE  LifeTyped'
BY DEF Prep, SystemReady, Up, BootFails, DownloadOnly, StopAfter, Killed, Bye, CertStep, Exit,
       lifeVars, bootVars, connVars, loadVars, LifeTyped, LoadTyped, ProcessTyped, ConnsTyped

LEMMA SystemUpTyped ==
  ASSUME LifeTyped, NEW profiler \in BOOLEAN, SystemUp(profiler)
  PROVE  LifeTyped'
<1>1. LoadTyped' /\ ProcessTyped'
  BY DEF SystemUp, LifeTyped, LoadTyped, ProcessTyped, Servers
<1>2. listening' \subseteq Servers /\ connmap' = [s \in listening' |-> [a \in {} |-> {}]]
  BY DEF SystemUp, Servers
<1>3. TrackerTyped(connmap')
  BY <1>2 DEF TrackerTyped
<1> QED
  BY <1>1, <1>3 DEF SystemUp, LifeTyped, ConnsTyped

LEMMA StopProcTyped ==
  ASSUME LifeTyped, NEW very \in BOOLEAN, StopProc(very)
  PROVE  LifeTyped'
<1>1. LoadTyped' /\ ProcessTyped'
  <2>1. LoadTyped'
    BY LifecycleAssumption DEF StopProc, SystemDown, LifeTyped, LoadTyped
  <2>2. endtimer' \in BOOLEAN
    <3>1. endtimer' = (very /\ IsCloud)
      BY DEF StopProc, SystemDown
    <3> QED
      BY <3>1
  <2> QED
    BY <2>1, <2>2 DEF StopProc, SystemDown, bootVars, LifeTyped, ProcessTyped
<1>2. ASSUME NEW c \in Sockets
      PROVE  (IF c \in Drained THEN [conn[c] EXCEPT !.st = "closing"] ELSE conn[c]) \in ConnType
  <2>1. conn[c] \in ConnType
    BY DEF LifeTyped, ConnsTyped
  <2> QED
    BY <2>1 DEF ConnType
<1>3. conn' \in [Sockets -> ConnType]
  BY <1>2 DEF StopProc, SystemDown
<1> QED
  BY <1>1, <1>3, NoneTrackedTyped DEF StopProc, SystemDown, LifeTyped, ConnsTyped

LEMMA NextTypes == TypesInv /\ [Next]_vars => TypesInv'
<1> SUFFICES ASSUME TypesInv, [Next]_vars PROVE TypesInv'
  OBVIOUS
<1>1. CertsInv'
  BY CertsNextInv DEF TypesInv
<1>2. now' <= MaxNow
  <2>1. CASE now' = now
    BY <2>1 DEF TypesInv
  <2>2. CASE CertStep /\ Tick
    BY <2>2 DEF Tick, TypesInv, CertsInv
  <2> QED
    BY <2>1, <2>2
    DEF Next, vars, certVars, Prep, SystemReady, Up, BootFails, DownloadOnly, Killed, Bye, Exit,
        SystemUp, Accept, Secured, HandshakeFails, Destroyed, Closed, AdjustMaxConns,
        StopAfter, StopProc, SystemDown, CertStep, Renewal, Issue, CertUpdateForever,
        GiveUp, NotNeeded, Fetch, FetchFails, Renewed
<1>3. LifeTyped'
  <2>1. CASE UNCHANGED vars
    BY <2>1 DEF vars, lifeVars, bootVars, connVars, loadVars, TypesInv, LifeTyped, LoadTyped,
                ProcessTyped, ConnsTyped
  <2> QED
    BY <2>1, BootStepsTyped, SystemUpTyped, ConnStepsTyped, AdjustTyped, StopProcTyped
    DEF Next, TypesInv
<1> QED
  BY <1>1, <1>2, <1>3 DEF TypesInv

\* The types of Lifecycle and Certs, whether ports come back early or not; of
\* adjustMaxConns(), that its count stays within Breakpoint and the limit a
\* number of connections.
THEOREM LifecycleTypes == Spec => []TypeOK
<1>1. TypesInv => TypeOK
  BY DEF TypesInv, CertsInv, LifeTyped, LoadTyped, ProcessTyped, ConnsTyped, TrackerTyped,
         ConnType, TypeOK, CertsTypeOK
<1> QED
  BY <1>1, InitTypes, NextTypes, PTL DEF Spec
=============================================================================
