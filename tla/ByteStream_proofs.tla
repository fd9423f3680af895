-------------------------- MODULE ByteStream_proofs --------------------------
(***************************************************************************)
(* Proofs about COBS, for bytes of any size and buffers of any length, and *)
(* about the receivers at the end of a line: for any packets, faults and   *)
(* chunks, and any limit of the accumulator.                               *)
(***************************************************************************)
EXTENDS ByteStream, InductionLemmas, SequenceTheorems

-----------------------------------------------------------------------------
(* Sequences.                                                              *)

LEMMA SeqOfMore ==
    ASSUME NEW S, NEW R, S \subseteq R, NEW s \in Seq(S)
    PROVE  s \in Seq(R)
OBVIOUS

\* One element put in the place of another.
LEMMA Replaced ==
    ASSUME NEW S, NEW s \in Seq(S), NEW i \in 1 .. Len(s), NEW v \in S
    PROVE  LET t == [s EXCEPT ![i] = v] IN
           /\ t \in Seq(S) /\ Len(t) = Len(s)
           /\ \A j \in 1 .. Len(s) : t[j] = IF j = i THEN v ELSE s[j]
OBVIOUS

\* Pieces of sequences that are the same there.
LEMMA SamePiece ==
    ASSUME NEW S, NEW s \in Seq(S), NEW t \in Seq(S), NEW m \in Nat \ {0}, NEW n \in Nat,
           n <= Len(s), n <= Len(t), m <= n + 1, \A j \in m .. n : s[j] = t[j]
    PROVE  SubSeq(s, m, n) = SubSeq(t, m, n) /\ SubSeq(s, m, n) \in Seq(S)
<1>1. /\ SubSeq(s, m, n) \in Seq(S) /\ SubSeq(t, m, n) \in Seq(S)
      /\ Len(SubSeq(s, m, n)) = n - m + 1 /\ Len(SubSeq(t, m, n)) = n - m + 1
      /\ \A i \in 1 .. n - m + 1 : SubSeq(s, m, n)[i] = s[m + i - 1]
      /\ \A i \in 1 .. n - m + 1 : SubSeq(t, m, n)[i] = t[m + i - 1]
  OBVIOUS
<1>2. \A i \in 1 .. n - m + 1 : m + i - 1 \in m .. n
  OBVIOUS
<1>3. \A i \in 1 .. n - m + 1 : SubSeq(s, m, n)[i] = SubSeq(t, m, n)[i]
  BY <1>1, <1>2
<1> DEFINE u == SubSeq(s, m, n)
           v == SubSeq(t, m, n)
           k == n - m + 1
<1> HIDE DEF u, v, k
<1>4. u \in Seq(S) /\ v \in Seq(S) /\ Len(u) = k /\ Len(v) = k /\ \A i \in 1 .. k : u[i] = v[i]
  BY <1>1, <1>3 DEF u, v, k
<1>5. u = v
  BY <1>4
<1> QED
  BY <1>1, <1>5 DEF u, v

\* A piece that is one element longer.
LEMMA LongerPiece ==
    ASSUME NEW S, NEW s \in Seq(S), NEW t \in Seq(S), NEW m \in Nat \ {0}, NEW n \in Nat,
           n <= Len(s), n + 1 <= Len(t), m <= n + 1, \A j \in m .. n : s[j] = t[j]
    PROVE  SubSeq(t, m, n + 1) = SubSeq(s, m, n) \o <<t[n + 1]>>
<1>1. SubSeq(s, m, n) = SubSeq(t, m, n) /\ SubSeq(s, m, n) \in Seq(S)
  <2>1. Len(t) \in Nat
    OBVIOUS
  <2>2. n <= Len(t)
    BY <2>1
  <2> QED
    BY <2>2, SamePiece
<1>2. m \in 1 .. Len(t) + 1 /\ n + 1 \in m .. Len(t)
  OBVIOUS
<1>3. SubSeq(t, m, n + 1) = SubSeq(t, m, (n + 1) - 1) \o <<t[n + 1]>>
  BY <1>2, SubSeqRecursiveSecond
<1>4. (n + 1) - 1 = n
  OBVIOUS
<1> QED
  BY <1>1, <1>3, <1>4

\* Behind its first R elements, W goes on with l.
EndsWith(W, R, l) ==
    Len(W) = R + Len(l) /\ \A j \in 1 .. Len(l) : W[R + j] = l[j]

\* What stands behind the first n elements of l.
LEMMA SameEnd ==
    ASSUME NEW S, NEW l \in Seq(S), NEW W \in Seq(S), NEW R \in Nat, EndsWith(W, R, l),
           NEW n \in 1 .. Len(l)
    PROVE  /\ SubSeq(l, n + 1, Len(l)) \in Seq(S)
           /\ SubSeq(l, n + 1, Len(l)) = SubSeq(W, (R + n) + 1, Len(W))
<1> DEFINE L == Len(l)
           k == L - n
           u == SubSeq(l, n + 1, L)
           v == SubSeq(W, (R + n) + 1, Len(W))
<1>1. L \in Nat /\ n \in Nat /\ n <= L /\ n >= 1 /\ Len(W) = R + L /\ k \in Nat
  BY DEF EndsWith
<1>2. \A j \in 1 .. k : /\ n + j \in 1 .. L
                        /\ (n + 1) + j - 1 = n + j /\ ((R + n) + 1) + j - 1 = R + (n + j)
  BY <1>1
<1>3. L - (n + 1) + 1 = k /\ Len(W) - ((R + n) + 1) + 1 = k
  BY <1>1
<1>4. u \in Seq(S) /\ Len(u) = k /\ \A j \in 1 .. k : u[j] = l[n + j]
  <2>1. n + 1 \in Int /\ L \in Int /\ \A j \in n + 1 .. L : l[j] \in S
    BY <1>1
  <2>2. /\ u \in Seq(S)
        /\ Len(u) = IF n + 1 <= L THEN L - (n + 1) + 1 ELSE 0
        /\ \A j \in 1 .. L - (n + 1) + 1 : u[j] = l[(n + 1) + j - 1]
    <3> HIDE DEF L
    <3> QED
      BY <2>1, SubSeqProperties
  <2>3. Len(u) = k
    <3> HIDE DEF u, L
    <3> QED
      BY <1>1, <2>2 DEF k
  <2> HIDE DEF u, L, k
  <2> QED
    BY <1>2, <1>3, <2>2, <2>3
<1>5. v \in Seq(S) /\ Len(v) = k /\ \A j \in 1 .. k : v[j] = W[R + (n + j)]
  <2> DEFINE m == (R + n) + 1
             M == Len(W)
  <2>1. m \in Int /\ M \in Int /\ \A j \in m .. M : W[j] \in S
    BY <1>1
  <2>2. /\ v \in Seq(S)
        /\ Len(v) = IF m <= M THEN M - m + 1 ELSE 0
        /\ \A j \in 1 .. M - m + 1 : v[j] = W[m + j - 1]
    <3> HIDE DEF m, M
    <3> QED
      BY <2>1, SubSeqProperties DEF m, M
  <2>3. M - m + 1 = k /\ \A j \in 1 .. k : m + j - 1 = R + (n + j)
    BY <1>2, <1>3
  <2>4. Len(v) = k
    <3> HIDE DEF v, m, M
    <3> QED
      BY <1>1, <2>1, <2>2, <2>3 DEF k
  <2> HIDE DEF v, m, M, k
  <2> QED
    BY <2>2, <2>3, <2>4
<1> HIDE DEF u, v, k, L
<1>6. \A j \in 1 .. k : u[j] = v[j]
  <2>1. \A j \in 1 .. L : W[R + j] = l[j]
    BY DEF EndsWith, L
  <2> QED
    BY <1>2, <1>4, <1>5, <2>1
<1>7. u = v
  BY <1>1, <1>4, <1>5, <1>6, SeqEqual
<1> QED
  BY <1>4, <1>7 DEF u, v, L

LEMMA ThreePieces ==
    ASSUME NEW a \in Seq(Byte), NEW b \in Seq(Byte), NEW c \in Seq(Byte)
    PROVE  a \o (b \o c) = (a \o b) \o c
BY ConcatAssociative

LEMMA FourPieces ==
    ASSUME NEW a \in Seq(Byte), NEW b \in Seq(Byte), NEW c \in Seq(Byte), NEW d \in Seq(Byte)
    PROVE  a \o ((b \o c) \o d) = ((a \o b) \o c) \o d
<1>1. b \o c \in Seq(Byte) /\ a \o b \in Seq(Byte)
  BY ConcatProperties
<1>2. a \o ((b \o c) \o d) = (a \o (b \o c)) \o d
  BY <1>1, ThreePieces
<1>3. a \o (b \o c) = (a \o b) \o c
  BY ThreePieces
<1> QED
  BY <1>2, <1>3

-----------------------------------------------------------------------------
(* What the decoders compute of bytes without a zero.                      *)

NonZero == 1 .. Full

\* What a block puts out, and where the next one begins.
Block(X, i) == SubSeq(X, i + 1, BlockEnd(X, i)) \o ImpliedZero(X, i, BlockEnd(X, i) + 1)

NextBlock(X, i) == BlockEnd(X, i) + 1

LEMMA BlockType ==
    ASSUME NEW X \in Seq(NonZero), NEW i \in 1 .. Len(X)
    PROVE  /\ Len(X) \in Nat /\ X[i] \in Nat /\ X[i] \in 1 .. Full
           /\ NextBlock(X, i) \in i + 1 .. Len(X) + 1
           /\ Block(X, i) \in Seq(Byte)
           /\ Len(Block(X, i)) <= NextBlock(X, i) - i
<1>1. Len(X) \in Nat /\ X[i] \in Nat /\ X[i] \in 1 .. Full /\ Full \in Nat
  BY FullAssumption DEF NonZero
<1>2. BlockEnd(X, i) \in i .. Len(X)
  BY <1>1 DEF BlockEnd
<1>3. X \in Seq(Byte)
  <2>1. NonZero \subseteq Byte
    BY FullAssumption DEF NonZero, Byte
  <2> QED
    BY <2>1, SeqOfMore
<1>4. /\ SubSeq(X, i + 1, BlockEnd(X, i)) \in Seq(Byte)
      /\ Len(SubSeq(X, i + 1, BlockEnd(X, i))) = BlockEnd(X, i) - i
  <2>1. BlockEnd(X, i) \in Int /\ i + 1 \in Int
    BY <1>1, <1>2
  <2>2. i + 1 <= BlockEnd(X, i) => i + 1 \in 1 .. Len(X) /\ BlockEnd(X, i) \in 1 .. Len(X)
    BY <1>1, <1>2
  <2> DEFINE n == BlockEnd(X, i)
             m == i + 1
  <2> HIDE DEF n
  <2>3. \A j \in m .. n : X[j] \in Byte
    BY <1>1, <1>2, <1>3 DEF n
  <2> QED
    BY <1>1, <1>2, <2>1, <2>2, <2>3, SubSeqProperties DEF n
<1>5. /\ ImpliedZero(X, i, BlockEnd(X, i) + 1) \in Seq(Byte)
      /\ Len(ImpliedZero(X, i, BlockEnd(X, i) + 1)) <= 1
  <2>1. 0 \in Byte
    BY <1>1 DEF Byte
  <2>2. <<0>> \in Seq(Byte) /\ Len(<<0>>) = 1
    BY <2>1
  <2>3. <<>> \in Seq(Byte) /\ Len(<<>>) = 0
    OBVIOUS
  <2> QED
    BY <2>2, <2>3 DEF ImpliedZero
<1>6. NextBlock(X, i) \in i + 1 .. Len(X) + 1
  BY <1>1, <1>2 DEF NextBlock
<1>7. /\ Block(X, i) \in Seq(Byte)
      /\ Len(Block(X, i)) <= NextBlock(X, i) - i
  BY <1>1, <1>2, <1>4, <1>5, ConcatProperties DEF Block, NextBlock
<1> QED
  BY <1>1, <1>6, <1>7

\* f gives the data that stands behind each place.
Equations(f, X) ==
    /\ f[Len(X) + 1] = <<>>
    /\ \A i \in 1 .. Len(X) : f[i] = Block(X, i) \o f[NextBlock(X, i)]

Decodes(f, X) == f \in [1 .. Len(X) + 1 -> Seq(Byte)] /\ Equations(f, X)

\* Such a function is built from the back.
LEMMA DecoderExists ==
    ASSUME NEW X \in Seq(NonZero)
    PROVE  \E f : Decodes(f, X)
<1> DEFINE L == Len(X)
           From(f, k) == /\ f[L + 1] = <<>>
                         /\ \A i \in k .. L : f[i] = Block(X, i) \o f[NextBlock(X, i)]
           T == {m \in Nat : m <= L => \E f \in [L + 1 - m .. L + 1 -> Seq(Byte)] : From(f, L + 1 - m)}
<1>1. L \in Nat
  OBVIOUS
<1>2. 0 \in T
  <2> DEFINE f == [i \in L + 1 .. L + 1 |-> <<>>]
  <2>1. f \in [L + 1 - 0 .. L + 1 -> Seq(Byte)] /\ From(f, L + 1 - 0)
    BY <1>1
  <2> QED
    BY <2>1
<1>3. ASSUME NEW m \in Nat, m \in T PROVE m + 1 \in T
  <2>1. SUFFICES ASSUME m + 1 <= L
                 PROVE  \E f \in [L + 1 - (m + 1) .. L + 1 -> Seq(Byte)] : From(f, L + 1 - (m + 1))
    OBVIOUS
  <2>2. PICK g \in [L + 1 - m .. L + 1 -> Seq(Byte)] : From(g, L + 1 - m)
    BY <1>3, <2>1
  <2> DEFINE k == L - m
             f == [i \in k .. L + 1 |-> IF i = k THEN Block(X, k) \o g[NextBlock(X, k)] ELSE g[i]]
  <2>3. k \in 1 .. L /\ k \in Nat /\ L + 1 - (m + 1) = k /\ L + 1 - m = k + 1
    BY <1>1, <2>1
  <2>4. g \in [k + 1 .. L + 1 -> Seq(Byte)] /\ From(g, k + 1)
    BY <2>2, <2>3
  <2>5. \A i \in k .. L : NextBlock(X, i) \in i + 1 .. L + 1 /\ Block(X, i) \in Seq(Byte)
    BY <1>1, <2>3, BlockType
  <2> HIDE DEF L, k
  <2>6. f \in [k .. L + 1 -> Seq(Byte)]
    BY <1>1, <2>3, <2>4, <2>5, ConcatProperties
  <2>7. f[k] = Block(X, k) \o g[NextBlock(X, k)] /\ \A i \in k + 1 .. L + 1 : f[i] = g[i]
    BY <1>1, <2>3
  <2> HIDE DEF f
  <2>8. f[L + 1] = <<>>
    BY <1>1, <2>3, <2>4, <2>7
  <2>9. ASSUME NEW i \in k .. L PROVE f[i] = Block(X, i) \o f[NextBlock(X, i)]
    <3>1. NextBlock(X, i) \in k + 1 .. L + 1 /\ NextBlock(X, i) # k
      BY <1>1, <2>3, <2>5, <2>9
    <3>2. f[NextBlock(X, i)] = g[NextBlock(X, i)]
      BY <2>7, <3>1
    <3>3. CASE i = k
      BY <2>7, <3>2, <3>3
    <3>4. CASE i # k
      <4>1. i \in k + 1 .. L /\ i \in k + 1 .. L + 1
        BY <1>1, <2>3, <3>4
      <4> QED
        BY <2>4, <2>7, <3>2, <4>1
    <3> QED
      BY <3>3, <3>4
  <2> QED
    BY <2>3, <2>6, <2>8, <2>9
<1>4. L \in T
  <2> HIDE DEF T
  <2> QED
    BY <1>1, <1>2, <1>3, NatSetInduction
<1>5. PICK f \in [1 .. L + 1 -> Seq(Byte)] : From(f, 1)
  <2>1. L + 1 - L = 1
    BY <1>1
  <2> QED
    BY <1>1, <1>4, <2>1
<1> QED
  BY <1>5 DEF Decodes, Equations

\* There is no other.
LEMMA DecoderUnique ==
    ASSUME NEW X \in Seq(NonZero), NEW f, NEW g, Equations(f, X), Equations(g, X),
           NEW i \in 1 .. Len(X) + 1
    PROVE  f[i] = g[i]
<1> DEFINE L == Len(X)
           T == {m \in Nat : \A j \in 1 .. L + 1 : j >= L + 1 - m => f[j] = g[j]}
<1>1. L \in Nat
  OBVIOUS
<1>2. 0 \in T
  BY <1>1 DEF Equations
<1>3. ASSUME NEW m \in Nat, m \in T PROVE m + 1 \in T
  <2> SUFFICES ASSUME NEW j \in 1 .. L + 1, j >= L + 1 - (m + 1) PROVE f[j] = g[j]
    OBVIOUS
  <2>1. CASE j = L + 1
    BY <2>1 DEF Equations
  <2>2. CASE j # L + 1
    <3>1. j \in 1 .. L
      BY <1>1, <2>2
    <3>2. NextBlock(X, j) \in j + 1 .. L + 1
      BY <3>1, BlockType
    <3>3. NextBlock(X, j) \in 1 .. L + 1 /\ NextBlock(X, j) >= L + 1 - m
      BY <1>1, <3>1, <3>2
    <3>4. f[NextBlock(X, j)] = g[NextBlock(X, j)]
      BY <1>3, <3>3
    <3> QED
      BY <3>1, <3>4 DEF Equations
  <2> QED
    BY <2>1, <2>2
<1>4. L \in T
  <2> HIDE DEF T
  <2> QED
    BY <1>1, <1>2, <1>3, NatSetInduction
<1> QED
  BY <1>1, <1>4

\* Both decoders return what stands behind the beginning.
LEMMA DecodersAre ==
    ASSUME NEW X \in Seq(NonZero), NEW f, Decodes(f, X)
    PROVE  PyDecode(X) = f[1] /\ JsDecode(X) = f[1]
<1> DEFINE L == Len(X)
           InPy(d) == [i \in 1 .. L + 1 |->
                       IF i = L + 1 THEN <<>>
                       ELSE LET end == BlockEnd(X, i) IN
                            SubSeq(X, i + 1, end) \o ImpliedZero(X, i, end + 1) \o d[end + 1]]
           InJs(d) == [i \in 1 .. L + 1 |->
                       IF i > L THEN <<>>
                       ELSE IF X[i] = 0 THEN <<>>
                       ELSE LET end == BlockEnd(X, i) IN
                            SubSeq(X, i + 1, end) \o JsImpliedZero(X, i, end + 1) \o d[end + 1]]
           py == CHOOSE d : d = InPy(d)
           js == CHOOSE d : d = InJs(d)
<1>1. L \in Nat /\ 1 \in 1 .. L + 1
  OBVIOUS
<1>2. f = InPy(f)
  <2>1. ASSUME NEW i \in 1 .. L + 1 PROVE f[i] = InPy(f)[i]
    <3>1. CASE i = L + 1
      BY <3>1 DEF Decodes, Equations
    <3>2. CASE i # L + 1
      <4>1. i \in 1 .. L
        BY <1>1, <3>2
      <4> QED
        BY <3>2, <4>1 DEF Decodes, Equations, Block, NextBlock
    <3> QED
      BY <3>1, <3>2
  <2> QED
    BY <2>1 DEF Decodes
<1>3. ASSUME NEW i \in 1 .. L
      PROVE  X[i] # 0 /\ JsImpliedZero(X, i, BlockEnd(X, i) + 1) = ImpliedZero(X, i, BlockEnd(X, i) + 1)
  <2>1. BlockEnd(X, i) + 1 \in i + 1 .. L + 1
    BY BlockType DEF NextBlock
  <2>2. \A j \in 1 .. L : X[j] # 0
    BY FullAssumption DEF NonZero
  <2>3. BlockEnd(X, i) + 1 <= L => BlockEnd(X, i) + 1 \in 1 .. L
    BY <1>1, <2>1
  <2> QED
    BY <2>2, <2>3 DEF JsImpliedZero, ImpliedZero
<1>4. f = InJs(f)
  <2>1. ASSUME NEW i \in 1 .. L + 1 PROVE f[i] = InJs(f)[i]
    <3>1. CASE i = L + 1
      BY <1>1, <3>1 DEF Decodes, Equations
    <3>2. CASE i # L + 1
      <4>1. i \in 1 .. L /\ ~ (i > L)
        BY <1>1, <3>2
      <4> QED
        BY <1>3, <4>1 DEF Decodes, Equations, Block, NextBlock
    <3> QED
      BY <3>1, <3>2
  <2> QED
    BY <2>1 DEF Decodes
<1>5. PyDecode(X) = py[1] /\ JsDecode(X) = js[1]
  BY DEF PyDecode, JsDecode
<1> HIDE DEF InPy, InJs
<1>6. py = InPy(py) /\ js = InJs(js)
  BY <1>2, <1>4
<1> HIDE DEF py, js
<1>7. Equations(py, X)
  <2>1. py[L + 1] = <<>>
    BY <1>1, <1>6 DEF InPy
  <2>2. ASSUME NEW i \in 1 .. L PROVE py[i] = Block(X, i) \o py[NextBlock(X, i)]
    <3>1. i \in 1 .. L + 1 /\ i # L + 1
      BY <1>1
    <3>2. py[i] = InPy(py)[i]
      BY <1>6
    <3> QED
      BY <3>1, <3>2 DEF InPy, Block, NextBlock
  <2> QED
    BY <2>1, <2>2 DEF Equations
<1>8. Equations(js, X)
  <2>1. js[L + 1] = <<>>
    BY <1>1, <1>6 DEF InJs
  <2>2. ASSUME NEW i \in 1 .. L PROVE js[i] = Block(X, i) \o js[NextBlock(X, i)]
    <3>1. i \in 1 .. L + 1 /\ ~ (i > L)
      BY <1>1
    <3>2. js[i] = InJs(js)[i]
      BY <1>6
    <3>3. X[i] # 0 /\ JsImpliedZero(X, i, BlockEnd(X, i) + 1) = ImpliedZero(X, i, BlockEnd(X, i) + 1)
      BY <1>3
    <3> QED
      BY <3>1, <3>2, <3>3 DEF InJs, Block, NextBlock
  <2> QED
    BY <2>1, <2>2 DEF Equations
<1> QED
  BY <1>1, <1>5, <1>7, <1>8, DecoderUnique DEF Decodes

\* Both decoders agree on what holds no zero, and return no more than they get.
LEMMA SameDecoding ==
    ASSUME NEW X \in Seq(NonZero)
    PROVE  /\ JsDecode(X) = PyDecode(X)
           /\ PyDecode(X) \in Seq(Byte) /\ Len(PyDecode(X)) <= Len(X)
<1> DEFINE L == Len(X)
<1>1. L \in Nat
  OBVIOUS
<1>2. PICK f : Decodes(f, X)
  BY DecoderExists
<1>3. \A i \in 1 .. L + 1 : f[i] \in Seq(Byte) /\ Len(f[i]) \in Nat
  BY <1>2 DEF Decodes
<1>4. ASSUME NEW i \in 1 .. L, NEW j \in 1 .. L + 1, j = NextBlock(X, i), Len(f[j]) <= L + 1 - j
      PROVE  Len(f[i]) <= L + 1 - i
  <2>1. f[i] = Block(X, i) \o f[j] /\ Block(X, i) \in Seq(Byte) /\ f[j] \in Seq(Byte)
    BY <1>2, <1>3, <1>4, BlockType DEF Decodes, Equations
  <2>2. Len(f[i]) = Len(Block(X, i)) + Len(f[j])
    BY <2>1, ConcatProperties
  <2>3. Len(Block(X, i)) \in Nat /\ Len(Block(X, i)) <= j - i
    BY <1>4, <2>1, BlockType
  <2> QED
    BY <1>1, <1>3, <1>4, <2>2, <2>3
<1> DEFINE U == {m \in Nat : \A i \in 1 .. L + 1 : i >= L + 1 - m => Len(f[i]) <= L + 1 - i}
<1>5. 0 \in U
  BY <1>1, <1>2 DEF Decodes, Equations
<1>6. ASSUME NEW m \in Nat, m \in U PROVE m + 1 \in U
  <2> SUFFICES ASSUME NEW i \in 1 .. L + 1, i >= L + 1 - (m + 1) PROVE Len(f[i]) <= L + 1 - i
    OBVIOUS
  <2>1. CASE i = L + 1
    BY <1>1, <1>2, <2>1 DEF Decodes, Equations
  <2>2. CASE i # L + 1
    <3>1. i \in 1 .. L
      BY <1>1, <2>2
    <3>2. NextBlock(X, i) \in i + 1 .. L + 1
      BY <3>1, BlockType
    <3>3. NextBlock(X, i) \in 1 .. L + 1 /\ NextBlock(X, i) >= L + 1 - m
      BY <1>1, <3>1, <3>2
    <3>4. Len(f[NextBlock(X, i)]) <= L + 1 - NextBlock(X, i)
      BY <1>6, <3>3
    <3> QED
      BY <1>4, <3>1, <3>3, <3>4
  <2> QED
    BY <2>1, <2>2
<1>7. L \in U
  <2> HIDE DEF U
  <2> QED
    BY <1>1, <1>5, <1>6, NatSetInduction
<1>8. 1 \in 1 .. L + 1 /\ Len(f[1]) <= L
  BY <1>1, <1>7
<1> QED
  BY <1>2, <1>3, <1>8, DecodersAre

-----------------------------------------------------------------------------
(* What the encoder writes, and how it is read.                            *)

\* Between two bytes: the open block reaches to the end and is not full, and no
\* byte is zero but the code that is still to be filled in.
Encoder ==
    {e \in [out : Seq(Byte), at : Nat, code : Nat] :
        /\ e.at \in 1 .. Len(e.out)
        /\ Len(e.out) = e.at + e.code - 1
        /\ e.code \in 1 .. Full - 1
        /\ \A i \in 1 .. Len(e.out) : i # e.at => e.out[i] # 0}

Filled(e) == [e.out EXCEPT ![e.at] = e.code]

OpenBlock(e) == SubSeq(e.out, e.at + 1, Len(e.out))

\* The three things that may happen at a byte.
PlainByte(e, b) ==
    /\ b # 0 /\ e.code + 1 # Full
    /\ EncodeByte(e, b) = [out |-> Append(e.out, b), at |-> e.at, code |-> e.code + 1]

ZeroByte(e, b) ==
    /\ b = 0
    /\ EncodeByte(e, b) = [out |-> Append(Filled(e), 0), at |-> Len(e.out) + 1, code |-> 1]

LastByte(e, b) ==
    /\ b # 0 /\ e.code + 1 = Full
    /\ EncodeByte(e, b) = [out |-> Append([Append(e.out, b) EXCEPT ![e.at] = Full], 0),
                           at |-> Len(e.out) + 2, code |-> 1]

LEMMA EncoderFacts ==
    ASSUME NEW e \in Encoder
    PROVE  /\ e.out \in Seq(Byte) /\ Len(e.out) \in Nat
           /\ e.at \in Nat /\ e.at \in 1 .. Len(e.out)
           /\ e.code \in Nat /\ e.code \in 1 .. Full - 1
           /\ Len(e.out) = e.at + e.code - 1
           /\ \A i \in 1 .. Len(e.out) : i # e.at => e.out[i] # 0
           /\ Full \in Nat /\ Full > 1
BY FullAssumption DEF Encoder

LEMMA EncodeByteCases ==
    ASSUME NEW e \in Encoder, NEW b \in Byte
    PROVE  PlainByte(e, b) \/ ZeroByte(e, b) \/ LastByte(e, b)
<1>1. CASE b = 0
  BY <1>1 DEF EncodeByte, Closes, ZeroByte, Filled
<1>2. CASE b # 0 /\ e.code + 1 # Full
  BY <1>2 DEF EncodeByte, Closes, PlainByte
<1>3. CASE b # 0 /\ e.code + 1 = Full
  <2>1. Len(Append(e.out, b)) + 1 = Len(e.out) + 2
    BY EncoderFacts, AppendProperties
  <2> QED
    BY <1>3, <2>1 DEF EncodeByte, Closes, LastByte
<1> QED
  BY <1>1, <1>2, <1>3

\* Filling in the code leaves no zero.
LEMMA FilledType ==
    ASSUME NEW e \in Encoder
    PROVE  /\ Filled(e) \in Seq(NonZero) /\ Filled(e) \in Seq(Byte)
           /\ Len(Filled(e)) = Len(e.out)
           /\ \A i \in 1 .. Len(e.out) : Filled(e)[i] = IF i = e.at THEN e.code ELSE e.out[i]
<1>1. e.code \in Byte /\ e.code \in NonZero
  BY EncoderFacts DEF Byte, NonZero
<1>2. /\ Filled(e) \in Seq(Byte) /\ Len(Filled(e)) = Len(e.out)
      /\ \A i \in 1 .. Len(e.out) : Filled(e)[i] = IF i = e.at THEN e.code ELSE e.out[i]
  BY <1>1, EncoderFacts, Replaced DEF Filled
<1>3. ASSUME NEW i \in 1 .. Len(e.out) PROVE Filled(e)[i] \in NonZero
  <2>1. Filled(e)[i] \in Byte
    BY <1>2
  <2>2. Filled(e)[i] # 0
    BY <1>1, <1>2, EncoderFacts DEF NonZero
  <2> QED
    BY <2>1, <2>2, FullAssumption DEF Byte, NonZero
<1>4. Filled(e) \in Seq(NonZero)
  BY <1>2, <1>3
<1> QED
  BY <1>2, <1>4

LEMMA InEncoder ==
    ASSUME NEW out \in Seq(Byte), NEW at \in Nat, NEW code \in Nat,
           at \in 1 .. Len(out), Len(out) = at + code - 1, code \in 1 .. Full - 1,
           \A i \in 1 .. Len(out) : i # at => out[i] # 0
    PROVE  [out |-> out, at |-> at, code |-> code] \in Encoder
BY DEF Encoder

LEMMA EncodeByteType ==
    ASSUME NEW e \in Encoder, NEW b \in Byte
    PROVE  EncodeByte(e, b) \in Encoder
<1> DEFINE n == Len(e.out)
<1>1. /\ e.out \in Seq(Byte) /\ n \in Nat /\ e.at \in 1 .. n /\ e.at \in Nat
      /\ e.code \in 1 .. Full - 1 /\ n = e.at + e.code - 1 /\ Full \in Nat /\ Full > 1
      /\ \A i \in 1 .. n : i # e.at => e.out[i] # 0
      /\ 0 \in Byte /\ Full \in Byte /\ NonZero \subseteq Byte
  BY EncoderFacts DEF Byte, NonZero
<1>2. CASE PlainByte(e, b)
  <2> DEFINE out == Append(e.out, b)
  <2>1. out \in Seq(Byte) /\ Len(out) = n + 1 /\ \A i \in 1 .. n : out[i] = e.out[i] /\ out[n + 1] = b
    BY <1>1, AppendProperties
  <2>2. \A i \in 1 .. n + 1 : i # e.at => out[i] # 0
    <3>1. ASSUME NEW i \in 1 .. n + 1, i # e.at PROVE out[i] # 0
      <4>1. i \in 1 .. n \/ i = n + 1
        BY <1>1
      <4> QED
        BY <1>1, <1>2, <2>1, <3>1, <4>1 DEF PlainByte
    <3> QED
      BY <3>1
  <2> HIDE DEF out, n
  <2>3. /\ e.at \in Nat /\ e.code + 1 \in Nat /\ e.at \in 1 .. Len(out)
        /\ Len(out) = e.at + (e.code + 1) - 1 /\ e.code + 1 \in 1 .. Full - 1
    <3> DEFINE at == e.at
               code == e.code
    <3>1. /\ n \in Nat /\ at \in 1 .. n /\ at \in Nat /\ code \in 1 .. Full - 1
          /\ n = at + code - 1 /\ Full \in Nat
      BY <1>1
    <3>2. code + 1 # Full
      BY <1>2 DEF PlainByte
    <3>3. Len(out) = n + 1
      BY <2>1
    <3> HIDE DEF at, code
    <3>4. /\ at \in Nat /\ code + 1 \in Nat /\ at \in 1 .. Len(out)
          /\ Len(out) = at + (code + 1) - 1 /\ code + 1 \in 1 .. Full - 1
      BY <3>1, <3>2, <3>3
    <3> QED
      BY <3>4 DEF at, code
  <2>4. [out |-> out, at |-> e.at, code |-> e.code + 1] \in Encoder
    BY <2>1, <2>2, <2>3, InEncoder
  <2> QED
    BY <1>2, <2>4 DEF PlainByte, out
<1>3. CASE ZeroByte(e, b)
  <2> DEFINE out == Append(Filled(e), 0)
  <2>1. Filled(e) \in Seq(NonZero) /\ Filled(e) \in Seq(Byte) /\ Len(Filled(e)) = n
    BY <1>1, FilledType
  <2>2. out \in Seq(Byte) /\ Len(out) = n + 1 /\ \A i \in 1 .. n : out[i] = Filled(e)[i]
    BY <1>1, <2>1, AppendProperties
  <2>3. \A i \in 1 .. n : Filled(e)[i] # 0
    BY <2>1, FullAssumption DEF NonZero
  <2>4. \A i \in 1 .. n + 1 : i # n + 1 => out[i] # 0
    <3>1. ASSUME NEW i \in 1 .. n + 1, i # n + 1 PROVE out[i] # 0
      <4>1. i \in 1 .. n
        BY <1>1, <3>1
      <4> QED
        BY <2>1, <2>2, <2>3, <4>1
    <3> QED
      BY <3>1
  <2> HIDE DEF out, n
  <2>5. [out |-> out, at |-> n + 1, code |-> 1] \in Encoder
    BY <1>1, <2>2, <2>4, InEncoder
  <2> QED
    BY <1>3, <2>5 DEF ZeroByte, out, n
<1>4. CASE LastByte(e, b)
  <2> DEFINE more == Append(e.out, b)
             full == [more EXCEPT ![e.at] = Full]
             out == Append(full, 0)
  <2>1. /\ more \in Seq(Byte) /\ Len(more) = n + 1
        /\ \A i \in 1 .. n : more[i] = e.out[i]
        /\ more[n + 1] = b
    BY <1>1, AppendProperties
  <2>2. EncodeByte(e, b) = [out |-> out, at |-> n + 2, code |-> 1] /\ b # 0
    BY <1>4 DEF LastByte
  <2> HIDE DEF more, n
  <2>3. /\ full \in Seq(Byte) /\ Len(full) = n + 1
        /\ \A i \in 1 .. n + 1 : full[i] = IF i = e.at THEN Full ELSE more[i]
    <3>1. e.at \in 1 .. Len(more) /\ Full \in Byte
      BY <1>1, <2>1
    <3> QED
      BY <2>1, <3>1, Replaced
  <2> HIDE DEF full
  <2>4. \A i \in 1 .. n + 1 : full[i] # 0
    <3>1. ASSUME NEW i \in 1 .. n + 1 PROVE full[i] # 0
      <4>1. CASE i = e.at
        BY <1>1, <2>3, <4>1
      <4>2. CASE i = n + 1 /\ i # e.at
        BY <2>1, <2>2, <2>3, <4>2
      <4>3. CASE i \in 1 .. n /\ i # e.at
        BY <1>1, <2>1, <2>3, <4>3
      <4> QED
        BY <1>1, <4>1, <4>2, <4>3
    <3> QED
      BY <3>1
  <2>5. out \in Seq(Byte) /\ Len(out) = n + 2 /\ \A i \in 1 .. n + 1 : out[i] = full[i]
    <3>1. out \in Seq(Byte) /\ Len(out) = Len(full) + 1 /\ \A i \in 1 .. Len(full) : out[i] = full[i]
      BY <1>1, <2>3, AppendProperties
    <3> QED
      BY <1>1, <2>3, <3>1
  <2>6. \A i \in 1 .. n + 2 : i # n + 2 => out[i] # 0
    <3>1. ASSUME NEW i \in 1 .. n + 2, i # n + 2 PROVE out[i] # 0
      <4>1. i \in 1 .. n + 1
        BY <1>1, <3>1
      <4> QED
        BY <2>4, <2>5, <4>1
    <3> QED
      BY <3>1
  <2> HIDE DEF out
  <2>7. n + 2 \in Nat /\ n + 2 \in 1 .. Len(out) /\ Len(out) = n + 2 + 1 - 1 /\ 1 \in 1 .. Full - 1
    BY <1>1, <2>5
  <2> QED
    BY <2>2, <2>5, <2>6, <2>7, InEncoder
<1> QED
  BY <1>2, <1>3, <1>4, EncodeByteCases

-----------------------------------------------------------------------------
(* The round trip.                                                         *)

\* Whatever follows, the bytes before `at' are read as `pre'.
Reads(out, at, pre) ==
    \A X \in Seq(NonZero) : \A f :
        Decodes(f, X) /\ at <= Len(X) /\ (\A j \in 1 .. at - 1 : X[j] = out[j])
            => f[1] = pre \o f[at]

\* What has been encoded so far: the bytes before the open block, and the block.
Represents(e, d) ==
    \E pre \in Seq(Byte) : Reads(e.out, e.at, pre) /\ d = pre \o OpenBlock(e)

LEMMA OpenBlockType ==
    ASSUME NEW e \in Encoder
    PROVE  OpenBlock(e) \in Seq(Byte)
<1>1. e.at + 1 \in Nat \ {0} /\ e.at + 1 <= Len(e.out) + 1
  BY EncoderFacts
<1> QED
  BY <1>1, EncoderFacts, SamePiece DEF OpenBlock

\* How a block is read whose code is filled in, and behind which more may stand.
LEMMA ReadOpenBlock ==
    ASSUME NEW e \in Encoder, NEW X \in Seq(NonZero), NEW f, Decodes(f, X),
           Len(X) >= Len(e.out), \A j \in e.at .. Len(e.out) : X[j] = Filled(e)[j]
    PROVE  f[e.at] = OpenBlock(e) \o (IF Len(X) > Len(e.out) THEN <<0>> ELSE <<>>) \o f[Len(e.out) + 1]
<1> DEFINE n == Len(e.out)
           at == e.at
<1>1. n \in Nat /\ Len(X) \in Nat /\ at \in Nat /\ at \in 1 .. n /\ at \in 1 .. Len(X)
  BY EncoderFacts
<1>2. X[at] = e.code /\ X[at] < Full /\ X[at] \in Nat
  <2>1. at \in at .. n
    BY <1>1
  <2> QED
    BY <1>1, <2>1, EncoderFacts, FilledType
<1>3. BlockEnd(X, at) = n
  BY <1>1, <1>2, EncoderFacts DEF BlockEnd
<1>4. SubSeq(X, at + 1, n) = OpenBlock(e)
  <2>1. \A j \in at + 1 .. n : X[j] = e.out[j]
    BY <1>1, FilledType
  <2>2. X \in Seq(Byte) /\ e.out \in Seq(Byte)
    <3>1. NonZero \subseteq Byte
      BY FullAssumption DEF NonZero, Byte
    <3> QED
      BY <3>1, EncoderFacts, SeqOfMore
  <2>3. at + 1 \in Nat \ {0} /\ at + 1 <= n + 1 /\ n <= Len(X) /\ n <= Len(e.out)
    BY <1>1
  <2> HIDE DEF n, at
  <2>4. SubSeq(X, at + 1, n) = SubSeq(e.out, at + 1, n)
    BY <1>1, <2>1, <2>2, <2>3, SamePiece
  <2> QED
    BY <2>4 DEF OpenBlock, n, at
<1>5. ImpliedZero(X, at, n + 1) = IF Len(X) > n THEN <<0>> ELSE <<>>
  BY <1>1, <1>2 DEF ImpliedZero
<1> QED
  BY <1>1, <1>3, <1>4, <1>5 DEF Decodes, Equations, Block, NextBlock

LEMMA ZeroIsRead ==
    ASSUME NEW e \in Encoder, NEW d \in Seq(Byte), Represents(e, d), ZeroByte(e, 0)
    PROVE  Represents(EncodeByte(e, 0), Append(d, 0))
<1> DEFINE n == Len(e.out)
           out == Append(Filled(e), 0)
<1>1. PICK pre \in Seq(Byte) : Reads(e.out, e.at, pre) /\ d = pre \o OpenBlock(e)
  BY DEF Represents
<1>2. EncodeByte(e, 0) = [out |-> out, at |-> n + 1, code |-> 1]
  BY DEF ZeroByte
<1>3. /\ n \in Nat /\ e.at \in Nat /\ e.at \in 1 .. n /\ 0 \in Byte
      /\ OpenBlock(e) \in Seq(Byte) /\ <<0>> \in Seq(Byte)
  BY EncoderFacts, OpenBlockType DEF Byte
<1>4. /\ Filled(e) \in Seq(Byte) /\ out \in Seq(Byte) /\ Len(out) = n + 1
      /\ \A j \in 1 .. n : out[j] = Filled(e)[j]
  BY <1>3, FilledType, AppendProperties
<1>5. Append(d, 0) = d \o <<0>> /\ d \o <<0>> \in Seq(Byte)
  BY <1>3, AppendIsConcat, ConcatProperties
<1> DEFINE read == d \o <<0>>
<1>6. \A g \in Seq(Byte) : pre \o ((OpenBlock(e) \o <<0>>) \o g) = read \o g
  <2> DEFINE o == OpenBlock(e)
             z == <<0>>
  <2>1. o \in Seq(Byte) /\ z \in Seq(Byte)
    BY <1>3
  <2> HIDE DEF o, z
  <2>2. \A g \in Seq(Byte) : pre \o ((o \o z) \o g) = ((pre \o o) \o z) \o g
    BY <2>1, FourPieces, ZenonT(60)
  <2>3. d = pre \o o /\ read = d \o z
    BY <1>1 DEF o, z
  <2>4. \A g \in Seq(Byte) : pre \o ((o \o z) \o g) = read \o g
    <3> HIDE DEF read
    <3> QED
      BY <2>2, <2>3
  <2> QED
    BY <2>4 DEF o, z
<1>7. Reads(out, n + 1, read)
  <2> HIDE DEF out, n, read
  <2> SUFFICES ASSUME NEW X \in Seq(NonZero), NEW f, Decodes(f, X), n + 1 <= Len(X),
                      \A j \in 1 .. (n + 1) - 1 : X[j] = out[j]
               PROVE  f[1] = read \o f[n + 1]
    BY DEF Reads
  <2>1. Len(X) \in Nat /\ Len(X) >= n /\ Len(X) > n /\ \A j \in 1 .. n : X[j] = Filled(e)[j]
    BY <1>3, <1>4
  <2>2. f[e.at] = (OpenBlock(e) \o <<0>>) \o f[n + 1]
    <3>1. \A j \in e.at .. n : X[j] = Filled(e)[j]
      BY <1>3, <2>1
    <3> QED
      BY <2>1, <3>1, ReadOpenBlock DEF n
  <2>3. f[1] = pre \o f[e.at]
    <3>1. ASSUME NEW j \in 1 .. e.at - 1 PROVE X[j] = e.out[j]
      <4>1. j \in 1 .. n /\ j # e.at
        BY <1>3
      <4>2. Filled(e)[j] = e.out[j]
        BY <4>1, FilledType DEF n
      <4> QED
        BY <2>1, <4>1, <4>2
    <3>2. e.at <= Len(X)
      BY <1>3, <2>1
    <3> QED
      BY <1>1, <3>1, <3>2 DEF Reads
  <2>4. f[n + 1] \in Seq(Byte)
    <3>1. n + 1 \in 1 .. Len(X) + 1
      BY <1>3, <2>1
    <3> QED
      BY <3>1 DEF Decodes
  <2> QED
    BY <1>6, <2>2, <2>3, <2>4
<1> HIDE DEF out, n
<1>8. SubSeq(out, n + 1 + 1, Len(out)) = <<>>
  BY <1>3, <1>4, SubSeqEmpty
<1>9. read = read \o <<>> /\ read \in Seq(Byte)
  BY <1>5, ConcatEmptySeq
<1> HIDE DEF read
<1>10. Represents([out |-> out, at |-> n + 1, code |-> 1], read)
  BY <1>7, <1>8, <1>9 DEF Represents, OpenBlock
<1> QED
  BY <1>2, <1>5, <1>10 DEF read

LEMMA LastIsRead ==
    ASSUME NEW e \in Encoder, NEW d \in Seq(Byte), NEW b \in Byte, Represents(e, d), LastByte(e, b)
    PROVE  Represents(EncodeByte(e, b), Append(d, b))
<1> DEFINE n == Len(e.out)
           at == e.at
           o == OpenBlock(e)
           z == <<b>>
           more == Append(e.out, b)
           full == [more EXCEPT ![at] = Full]
           out == Append(full, 0)
           read == d \o z
<1>1. PICK pre \in Seq(Byte) : Reads(e.out, at, pre) /\ d = pre \o o
  BY DEF Represents
<1>2. EncodeByte(e, b) = [out |-> out, at |-> n + 2, code |-> 1]
  BY DEF LastByte
<1>3. e.code + 1 = Full
  BY DEF LastByte
<1>4. /\ n \in Nat /\ at \in Nat /\ 1 <= at /\ at <= n /\ n + 1 = at + Full - 1
      /\ Full \in Nat
  <2>1. /\ n \in Nat /\ at \in Nat /\ at \in 1 .. n /\ n = at + e.code - 1
        /\ e.code \in Nat /\ Full \in Nat
    BY EncoderFacts
  <2> DEFINE c == e.code
  <2>2. c \in Nat /\ c + 1 = Full /\ n = at + c - 1
    BY <1>3, <2>1
  <2> HIDE DEF n, at, c
  <2> QED
    BY <2>1, <2>2
<1>5. 0 \in Byte /\ Full \in Byte
  BY <1>4 DEF Byte
<1>6. e.out \in Seq(Byte) /\ o \in Seq(Byte) /\ z \in Seq(Byte)
  BY EncoderFacts, OpenBlockType
<1>7. /\ more \in Seq(Byte) /\ Len(more) = n + 1
      /\ \A j \in 1 .. n : more[j] = e.out[j]
      /\ more[n + 1] = b /\ n = Len(e.out)
  BY <1>6, AppendProperties
<1>8. Append(d, b) = read /\ read \in Seq(Byte)
  BY <1>6, AppendIsConcat, ConcatProperties
<1>9. \A g \in Seq(Byte) : pre \o ((o \o z) \o g) = read \o g
  <2> HIDE DEF o, z
  <2>1. \A g \in Seq(Byte) : pre \o ((o \o z) \o g) = ((pre \o o) \o z) \o g
    BY <1>6, FourPieces, ZenonT(60)
  <2>2. d = pre \o o /\ read = d \o z
    BY <1>1
  <2> HIDE DEF read
  <2> QED
    BY <2>1, <2>2
<1> HIDE DEF more, n
<1>10. /\ full \in Seq(Byte) /\ Len(full) = n + 1
       /\ \A j \in 1 .. n + 1 : full[j] = IF j = at THEN Full ELSE more[j]
  <2>1. at \in 1 .. Len(more)
    BY <1>4, <1>7
  <2> QED
    BY <1>7, <1>5, <2>1, Replaced
<1> HIDE DEF full
<1>11. out \in Seq(Byte) /\ Len(out) = n + 2 /\ \A j \in 1 .. n + 1 : out[j] = full[j]
  <2>1. out \in Seq(Byte) /\ Len(out) = Len(full) + 1 /\ \A j \in 1 .. Len(full) : out[j] = full[j]
    BY <1>10, <1>5, AppendProperties
  <2> QED
    BY <1>4, <1>10, <2>1
<1> HIDE DEF o, z, at, out, read
<1>12. ASSUME NEW X \in Seq(NonZero), n + 2 <= Len(X), \A j \in 1 .. n + 1 : X[j] = out[j]
       PROVE  /\ at <= Len(X) /\ n + 2 \in 1 .. Len(X) + 1 /\ at \in 1 .. Len(X)
              /\ \A j \in 1 .. at - 1 : X[j] = e.out[j]
              /\ Block(X, at) = o \o z /\ NextBlock(X, at) = n + 2
  <2>1. Len(X) \in Nat /\ at <= Len(X) /\ n + 2 \in 1 .. Len(X) + 1 /\ at \in 1 .. Len(X)
    BY <1>4, <1>12
  <2>2. \A j \in 1 .. n + 1 : X[j] = full[j]
    BY <1>11, <1>12
  <2>3. \A j \in 1 .. n : j # at => X[j] = e.out[j]
    <3>1. ASSUME NEW j \in 1 .. n, j # at PROVE X[j] = e.out[j]
      <4>1. j \in 1 .. n + 1
        BY <1>4
      <4> QED
        BY <1>7, <1>10, <2>2, <3>1, <4>1
    <3> QED
      BY <3>1
  <2>4. X[at] = Full /\ X[n + 1] = b
    <3>1. at \in 1 .. n + 1 /\ n + 1 \in 1 .. n + 1 /\ n + 1 # at
      BY <1>4
    <3> QED
      BY <1>7, <1>10, <2>2, <3>1
  <2>5. BlockEnd(X, at) = n + 1
    BY <1>4, <1>12, <2>1, <2>4 DEF BlockEnd
  <2>6. SubSeq(X, at + 1, n + 1) = o \o z
    <3>1. X \in Seq(Byte)
      <4>1. NonZero \subseteq Byte
        BY <1>4 DEF NonZero, Byte
      <4> QED
        BY <4>1, SeqOfMore
    <3>2. \A j \in at + 1 .. n : e.out[j] = X[j]
      BY <1>4, <2>3
    <3>3. at + 1 \in Nat \ {0} /\ n <= Len(e.out) /\ n + 1 <= Len(X) /\ at + 1 <= n + 1
      BY <1>4, <1>7, <1>12, <2>1
    <3>4. SubSeq(X, at + 1, n + 1) = SubSeq(e.out, at + 1, n) \o <<X[n + 1]>>
      <4> DEFINE m == at + 1
                 s == e.out
      <4>1. /\ m \in Nat \ {0} /\ n \in Nat /\ n <= Len(s) /\ n + 1 <= Len(X) /\ m <= n + 1
            /\ s \in Seq(Byte) /\ \A j \in m .. n : s[j] = X[j]
        BY <1>4, <1>6, <3>2, <3>3
      <4> HIDE DEF m, s
      <4>2. SubSeq(X, m, n + 1) = SubSeq(s, m, n) \o <<X[n + 1]>>
        BY <3>1, <4>1, LongerPiece
      <4> QED
        BY <4>2 DEF m, s
    <3> QED
      BY <2>4, <3>4 DEF o, z, n, at, OpenBlock
  <2>7. ImpliedZero(X, at, n + 1 + 1) = <<>>
    BY <1>4, <2>4 DEF ImpliedZero
  <2>8. (o \o z) \o <<>> = o \o z
    <3>1. o \o z \in Seq(Byte)
      BY <1>6, ConcatProperties
    <3> QED
      BY <3>1, ConcatEmptySeq
  <2>9. \A j \in 1 .. at - 1 : X[j] = e.out[j]
    BY <1>4, <2>3
  <2>10. n + 1 + 1 = n + 2
    BY <1>4
  <2> QED
    BY <2>1, <2>5, <2>6, <2>7, <2>8, <2>9, <2>10 DEF Block, NextBlock
<1>13. Reads(out, n + 2, read)
  <2> SUFFICES ASSUME NEW X \in Seq(NonZero), NEW f, Decodes(f, X), n + 2 <= Len(X),
                      \A j \in 1 .. (n + 2) - 1 : X[j] = out[j]
               PROVE  f[1] = read \o f[n + 2]
    BY DEF Reads
  <2>1. (n + 2) - 1 = n + 1
    BY <1>4
  <2>2. /\ at <= Len(X) /\ n + 2 \in 1 .. Len(X) + 1 /\ at \in 1 .. Len(X)
        /\ \A j \in 1 .. at - 1 : X[j] = e.out[j]
        /\ Block(X, at) = o \o z /\ NextBlock(X, at) = n + 2
    BY <1>12, <2>1
  <2>3. f[1] = pre \o f[at]
    BY <1>1, <2>2 DEF Reads
  <2>4. f[at] = (o \o z) \o f[n + 2] /\ f[n + 2] \in Seq(Byte)
    BY <2>2 DEF Decodes, Equations
  <2> QED
    BY <1>9, <2>3, <2>4
<1>14. SubSeq(out, n + 2 + 1, Len(out)) = <<>>
  <2>1. Len(out) \in Int /\ n + 2 + 1 \in Int /\ Len(out) < n + 2 + 1
    BY <1>4, <1>11
  <2> QED
    BY <2>1, SubSeqEmpty
<1>15. read = read \o <<>>
  BY <1>8, ConcatEmptySeq
<1>16. Represents([out |-> out, at |-> n + 2, code |-> 1], read)
  BY <1>8, <1>13, <1>14, <1>15 DEF Represents, OpenBlock
<1> QED
  BY <1>2, <1>8, <1>16

LEMMA PlainIsRead ==
    ASSUME NEW e \in Encoder, NEW d \in Seq(Byte), NEW b \in Byte, Represents(e, d), PlainByte(e, b)
    PROVE  Represents(EncodeByte(e, b), Append(d, b))
<1> DEFINE n == Len(e.out)
           at == e.at
           o == OpenBlock(e)
           z == <<b>>
           out == Append(e.out, b)
<1>1. PICK pre \in Seq(Byte) : Reads(e.out, at, pre) /\ d = pre \o o
  BY DEF Represents
<1>2. EncodeByte(e, b) = [out |-> out, at |-> at, code |-> e.code + 1]
  BY DEF PlainByte
<1>3. n \in Nat /\ at \in Nat /\ 1 <= at /\ at <= n
  BY EncoderFacts
<1>4. e.out \in Seq(Byte) /\ o \in Seq(Byte) /\ z \in Seq(Byte)
  BY EncoderFacts, OpenBlockType
<1>5. /\ out \in Seq(Byte) /\ Len(out) = n + 1
      /\ \A j \in 1 .. n : out[j] = e.out[j]
      /\ out[n + 1] = b /\ n = Len(e.out)
  BY <1>4, AppendProperties
<1>6. Append(d, b) = pre \o (o \o z)
  <2>1. Append(d, b) = d \o z
    BY <1>4, AppendIsConcat
  <2> HIDE DEF o, z
  <2>2. (pre \o o) \o z = pre \o (o \o z)
    BY <1>4, ThreePieces
  <2> QED
    BY <1>1, <2>1, <2>2
<1> HIDE DEF out, n
<1>7. SubSeq(out, at + 1, n + 1) = o \o z
  <2>1. at + 1 \in Nat \ {0} /\ n <= Len(e.out) /\ n + 1 <= Len(out) /\ at + 1 <= n + 1
    BY <1>3, <1>5
  <2>2. \A j \in at + 1 .. n : e.out[j] = out[j]
    BY <1>3, <1>5
  <2>3. SubSeq(out, at + 1, n + 1) = SubSeq(e.out, at + 1, n) \o <<out[n + 1]>>
    <3> DEFINE m == at + 1
               s == e.out
    <3>1. /\ m \in Nat \ {0} /\ n \in Nat /\ n <= Len(s) /\ n + 1 <= Len(out) /\ m <= n + 1
          /\ s \in Seq(Byte) /\ out \in Seq(Byte) /\ \A j \in m .. n : s[j] = out[j]
      BY <1>3, <1>5, <1>4, <2>1, <2>2
    <3> HIDE DEF m, s
    <3>2. SubSeq(out, m, n + 1) = SubSeq(s, m, n) \o <<out[n + 1]>>
      BY <3>1, LongerPiece
    <3> QED
      BY <3>2 DEF m, s
  <2> QED
    BY <1>5, <2>3 DEF OpenBlock, at, n
<1>8. Reads(out, at, pre)
  <2>1. \A j \in 1 .. at - 1 : out[j] = e.out[j]
    BY <1>3, <1>5
  <2> QED
    BY <1>1, <2>1 DEF Reads
<1> HIDE DEF o, z
<1>9. Represents([out |-> out, at |-> at, code |-> e.code + 1], Append(d, b))
  BY <1>5, <1>6, <1>7, <1>8 DEF Represents, OpenBlock
<1> QED
  BY <1>2, <1>9

LEMMA ByteIsRead ==
    ASSUME NEW e \in Encoder, NEW d \in Seq(Byte), NEW b \in Byte, Represents(e, d)
    PROVE  Represents(EncodeByte(e, b), Append(d, b))
<1>1. CASE PlainByte(e, b)
  BY <1>1, PlainIsRead
<1>2. CASE ZeroByte(e, b)
  <2>1. b = 0
    BY <1>2 DEF ZeroByte
  <2> QED
    BY <1>2, <2>1, ZeroIsRead
<1>3. CASE LastByte(e, b)
  BY <1>3, LastIsRead
<1> QED
  BY <1>1, <1>2, <1>3, EncodeByteCases

FirstBlock == [out |-> <<0>>, at |-> 1, code |-> 1]

LEMMA FirstIsRead == FirstBlock \in Encoder /\ Represents(FirstBlock, <<>>)
<1>1. 0 \in Byte /\ <<0>> \in Seq(Byte) /\ Len(<<0>>) = 1 /\ <<>> \in Seq(Byte)
  BY FullAssumption DEF Byte
<1>2. FirstBlock \in Encoder
  <2> DEFINE out == <<0>>
  <2>1. out \in Seq(Byte) /\ Len(out) = 1
    BY <1>1
  <2>2. 1 \in 1 .. Full - 1 /\ 1 \in Nat
    BY FullAssumption
  <2> HIDE DEF out
  <2>3. 1 \in 1 .. Len(out) /\ Len(out) = 1 + 1 - 1 /\ \A i \in 1 .. Len(out) : i # 1 => out[i] # 0
    BY <2>1
  <2>4. [out |-> out, at |-> 1, code |-> 1] \in Encoder
    BY <2>1, <2>2, <2>3, InEncoder
  <2> QED
    BY <2>4 DEF FirstBlock, out
<1>3. Reads(<<0>>, 1, <<>>)
  <2> SUFFICES ASSUME NEW X \in Seq(NonZero), NEW f, Decodes(f, X)
               PROVE  f[1] = <<>> \o f[1]
    BY DEF Reads
  <2>1. Len(X) \in Nat /\ 1 \in 1 .. Len(X) + 1
    OBVIOUS
  <2>2. f[1] \in Seq(Byte)
    BY <2>1 DEF Decodes
  <2> QED
    BY <2>2, ConcatEmptySeq
<1>4. SubSeq(<<0>>, 1 + 1, 1) = <<>> /\ <<>> \o <<>> = <<>>
  BY <1>1, SubSeqEmpty, ConcatEmptySeq
<1>5. Represents(FirstBlock, <<>>)
  BY <1>1, <1>3, <1>4 DEF Represents, OpenBlock, FirstBlock
<1> QED
  BY <1>2, <1>5

\* The encoding grows by a byte for every byte, and by one more for a full block,
\* which Full - 1 bytes have filled.
Grown(e, n) ==
    /\ Len(e.out) >= n + 1
    /\ (Len(e.out) - n - 1) * (Full - 1) + e.code - 1 <= n

LEMMA BlocksGrow ==
    ASSUME NEW m \in Nat, NEW c \in Nat, NEW k \in Nat, NEW n \in Nat, NEW w \in Nat, NEW v \in Nat,
           m >= n + 1, c >= 1, (m - n - 1) * k + c - 1 <= n,
           \/ w = m + 1 /\ (v = c + 1 \/ v = 1)
           \/ w = m + 2 /\ v = 1 /\ c = k
    PROVE  w >= n + 1 + 1 /\ (w - (n + 1) - 1) * k + v - 1 <= n + 1
<1> DEFINE q == m - n - 1
           p == q * k
<1>1. q \in Nat /\ p \in Nat /\ p + c - 1 <= n /\ (q + 1) * k = p + k
  OBVIOUS
<1>2. CASE w = m + 1 /\ (v = c + 1 \/ v = 1)
  <2>1. w - (n + 1) - 1 = q /\ (w - (n + 1) - 1) * k = p
    BY <1>2
  <2> HIDE DEF p
  <2> QED
    BY <1>1, <1>2, <2>1
<1>3. CASE w = m + 2 /\ v = 1 /\ c = k
  <2>1. w - (n + 1) - 1 = q + 1
    BY <1>3
  <2> HIDE DEF p, q
  <2>2. (w - (n + 1) - 1) * k = p + k
    BY <1>1, <2>1
  <2> QED
    BY <1>1, <1>3, <2>2
<1> QED
  BY <1>2, <1>3

LEMMA ByteGrows ==
    ASSUME NEW e \in Encoder, NEW b \in Byte, NEW n \in Nat, Grown(e, n)
    PROVE  Grown(EncodeByte(e, b), n + 1)
<1> DEFINE m == Len(e.out)
           c == e.code
           k == Full - 1
           r == EncodeByte(e, b)
<1>1. m \in Nat /\ c \in Nat /\ c >= 1 /\ k \in Nat /\ k >= 1 /\ m >= n + 1 /\ (m - n - 1) * k + c - 1 <= n
      /\ Full \in Nat
  BY EncoderFacts DEF Grown
<1>2. e.out \in Seq(Byte) /\ 0 \in Byte
  BY EncoderFacts DEF Byte
<1>3. \/ Len(r.out) = m + 1 /\ (r.code = c + 1 \/ r.code = 1)
      \/ Len(r.out) = m + 2 /\ r.code = 1 /\ c = k
  <2>1. CASE PlainByte(e, b)
    BY <1>2, <2>1, AppendProperties DEF PlainByte
  <2>2. CASE ZeroByte(e, b)
    <3>1. Len(Append(Filled(e), 0)) = m + 1
      BY <1>2, FilledType, AppendProperties
    <3> QED
      BY <2>2, <3>1 DEF ZeroByte
  <2>3. CASE LastByte(e, b)
    <3> DEFINE more == Append(e.out, b)
               full == [more EXCEPT ![e.at] = Full]
    <3>1. more \in Seq(Byte) /\ Len(more) = m + 1
      BY <1>2, AppendProperties
    <3>2. e.at \in 1 .. Len(more) /\ Full \in Byte
      BY <3>1, EncoderFacts DEF Byte
    <3> HIDE DEF more
    <3>3. full \in Seq(Byte) /\ Len(full) = m + 1
      BY <3>1, <3>2, Replaced
    <3> HIDE DEF full
    <3>4. Len(Append(full, 0)) = m + 2
      BY <1>1, <1>2, <3>3, AppendProperties
    <3>5. r = [out |-> Append(full, 0), at |-> m + 2, code |-> 1] /\ c + 1 = Full
      BY <2>3 DEF LastByte, full, more
    <3> HIDE DEF r
    <3>6. Len(r.out) = m + 2 /\ r.code = 1
      BY <3>4, <3>5
    <3> QED
      BY <1>1, <3>5, <3>6
  <2> QED
    BY <2>1, <2>2, <2>3, EncodeByteCases
<1> DEFINE w == Len(r.out)
           v == r.code
<1> HIDE DEF m, c, k, r
<1>4. w \in Nat /\ v \in Nat
  BY <1>1, <1>3
<1> HIDE DEF w, v
<1>5. w >= n + 1 + 1 /\ (w - (n + 1) - 1) * k + v - 1 <= n + 1
  BY <1>1, <1>3, <1>4, BlocksGrow DEF w, v
<1> QED
  BY <1>5 DEF Grown, k, r, w, v

\* What is encoded can be read, and is not much longer.
LEMMA Encoding ==
    ASSUME NEW d \in Seq(Byte)
    PROVE  \E e \in Encoder : CobsEncode(d) = Filled(e) /\ Represents(e, d) /\ Grown(e, Len(d))
<1> DEFINE L == Len(d)
           Step == [n \in 1 .. L |-> [e \in Encoder |-> EncodeByte(e, d[n])]]
           Def(g) == [n \in 0 .. L |-> IF n = 0 THEN FirstBlock ELSE EncodeByte(g[n - 1], d[n])]
           encoder == CHOOSE g : g = Def(g)
<1>1. L \in Nat /\ \A n \in 1 .. L : d[n] \in Byte
  OBVIOUS
<1>2. Step \in [1 .. L -> [Encoder -> Encoder]]
  BY <1>1, EncodeByteType
<1>3. PICK f : IsRecursion(f, L, Encoder, FirstBlock, Step)
  <2> HIDE DEF Step, L
  <2> QED
    BY <1>1, <1>2, FirstIsRead, RecursiveFunction
<1>4. f \in [0 .. L -> Encoder] /\ f[0] = FirstBlock
  <2> HIDE DEF Step, L
  <2> QED
    BY <1>3 DEF IsRecursion
<1>5. ASSUME NEW n \in 1 .. L PROVE f[n] = EncodeByte(f[n - 1], d[n])
  <2>1. f[n] = Step[n][f[n - 1]]
    <3> HIDE DEF Step, L
    <3> QED
      BY <1>3 DEF IsRecursion
  <2>2. n - 1 \in 0 .. L
    BY <1>1
  <2>3. Step[n] = [e \in Encoder |-> EncodeByte(e, d[n])]
    OBVIOUS
  <2> HIDE DEF Step, L
  <2> QED
    BY <1>4, <2>1, <2>2, <2>3
<1>6. f = Def(f)
  <2>1. ASSUME NEW n \in 0 .. L PROVE f[n] = Def(f)[n]
    <3>1. CASE n = 0
      BY <1>4, <3>1
    <3>2. CASE n \in 1 .. L
      BY <1>5, <3>2
    <3> QED
      BY <1>1, <3>1, <3>2
  <2>2. f = [n \in 0 .. L |-> f[n]]
    BY <1>4
  <2> QED
    BY <2>1, <2>2
<1>7. encoder = Def(encoder)
  <2> HIDE DEF Def
  <2> QED
    BY <1>6, Zenon
<1>8. CobsEncode(d) = Filled(encoder[L])
  BY DEF CobsEncode, Filled, FirstBlock
<1> HIDE DEF encoder
<1>9. encoder[0] = FirstBlock /\ \A n \in 1 .. L : encoder[n] = EncodeByte(encoder[n - 1], d[n])
  <2>1. \A n : encoder[n] = Def(encoder)[n]
    <3> HIDE DEF Def
    <3> QED
      BY <1>7
  <2>2. Def(encoder)[0] = FirstBlock
    BY <1>1
  <2>3. \A n \in 1 .. L : Def(encoder)[n] = EncodeByte(encoder[n - 1], d[n])
    BY <1>1
  <2> HIDE DEF Def
  <2> QED
    BY <2>1, <2>2, <2>3
<1> HIDE DEF Step, Def
<1> DEFINE Good(e, n) == e \in Encoder /\ Represents(e, SubSeq(d, 1, n)) /\ Grown(e, n)
           T == {n \in Nat : n <= L => Good(encoder[n], n)}
<1>10. 0 \in T
  <2>1. SubSeq(d, 1, 0) = <<>>
    BY SubSeqEmpty
  <2>2. Grown(FirstBlock, 0)
    BY FullAssumption DEF Grown, FirstBlock
  <2> QED
    BY <1>9, <2>1, <2>2, FirstIsRead
<1>11. ASSUME NEW n \in Nat, n \in T PROVE n + 1 \in T
  <2> SUFFICES ASSUME n + 1 <= L PROVE Good(encoder[n + 1], n + 1)
    OBVIOUS
  <2>1. Good(encoder[n], n)
    BY <1>1, <1>11
  <2>2. n + 1 \in 1 .. L /\ (n + 1) - 1 = n
    BY <1>1
  <2>3. encoder[n + 1] = EncodeByte(encoder[n], d[n + 1]) /\ d[n + 1] \in Byte
    BY <1>1, <1>9, <2>2
  <2>4. SubSeq(d, 1, n) \in Seq(Byte) /\ SubSeq(d, 1, n + 1) = Append(SubSeq(d, 1, n), d[n + 1])
    <3>1. n <= Len(d) /\ 1 \in Nat \ {0} /\ 1 <= n + 1 /\ n + 1 <= Len(d)
      BY <1>1
    <3>2. SubSeq(d, 1, n) \in Seq(Byte)
      BY <3>1, SamePiece
    <3>3. SubSeq(d, 1, n + 1) = SubSeq(d, 1, n) \o <<d[n + 1]>>
      BY <3>1, LongerPiece
    <3> QED
      BY <2>3, <3>2, <3>3, AppendIsConcat
  <2> QED
    BY <2>1, <2>3, <2>4, EncodeByteType, ByteIsRead, ByteGrows
<1>12. L \in T
  <2> HIDE DEF T
  <2> QED
    BY <1>1, <1>10, <1>11, NatSetInduction
<1>13. SubSeq(d, 1, L) = d
  BY SubSeqFull
<1>14. Good(encoder[L], L)
  BY <1>1, <1>12
<1>15. encoder[L] \in Encoder /\ Represents(encoder[L], d) /\ Grown(encoder[L], L)
  BY <1>13, <1>14
<1> QED
  BY <1>8, <1>15

\* What an encoded packet is, and what it is decoded to.
LEMMA EncodingIsRead ==
    ASSUME NEW d \in Seq(Byte)
    PROVE  /\ CobsEncode(d) \in Seq(NonZero)
           /\ JsDecode(CobsEncode(d)) = d /\ PyDecode(CobsEncode(d)) = d
<1>1. PICK e \in Encoder : CobsEncode(d) = Filled(e) /\ Represents(e, d)
  BY Encoding
<1> DEFINE X == Filled(e)
           n == Len(e.out)
<1>2. X \in Seq(NonZero) /\ Len(X) = n /\ n \in Nat
  BY FilledType, EncoderFacts
<1>3. PICK pre \in Seq(Byte) : Reads(e.out, e.at, pre) /\ d = pre \o OpenBlock(e)
  BY <1>1 DEF Represents
<1>4. \A j \in 1 .. n : X[j] = IF j = e.at THEN e.code ELSE e.out[j]
  BY FilledType
<1>5. e.at \in Nat /\ 1 <= e.at /\ e.at <= n
  BY EncoderFacts
<1> HIDE DEF X, n
<1>6. PICK f : Decodes(f, X)
  BY <1>2, DecoderExists
<1>7. f[1] = pre \o f[e.at]
  <2>1. \A j \in 1 .. e.at - 1 : X[j] = e.out[j]
    BY <1>2, <1>4, <1>5
  <2>2. e.at <= Len(X)
    BY <1>2, <1>5
  <2> QED
    BY <1>2, <1>3, <1>6, <2>1, <2>2 DEF Reads
<1>8. f[e.at] = OpenBlock(e)
  <2>1. Len(X) >= Len(e.out) /\ ~ (Len(X) > Len(e.out))
    BY <1>2 DEF n
  <2>2. f[e.at] = OpenBlock(e) \o <<>> \o f[Len(e.out) + 1]
    BY <1>2, <1>6, <2>1, ReadOpenBlock DEF X
  <2>3. f[Len(e.out) + 1] = <<>>
    BY <1>2, <1>6 DEF Decodes, Equations, n
  <2>4. OpenBlock(e) \o <<>> = OpenBlock(e)
    BY OpenBlockType, ConcatEmptySeq
  <2> QED
    BY <2>2, <2>3, <2>4
<1> QED
  BY <1>1, <1>2, <1>3, <1>6, <1>7, <1>8, DecodersAre DEF X

LEMMA Quotient ==
    ASSUME NEW F \in Nat, NEW n \in Nat, NEW k \in Nat, k >= 1, F * k <= n
    PROVE  F <= n \div k /\ n \div k \in Nat
<1> DEFINE q == n \div k
           r == n % k
<1>1. q \in Nat /\ r \in Nat /\ r < k /\ n = q * k + r
  OBVIOUS
<1> HIDE DEF q, r
<1>2. ASSUME F >= q + 1 PROVE FALSE
  <2>1. F * k >= (q + 1) * k
    BY <1>1, <1>2
  <2>2. (q + 1) * k = q * k + k
    BY <1>1
  <2> DEFINE a == F * k
             b == q * k
  <2>3. a \in Nat /\ b \in Nat
    BY <1>1
  <2>4. a >= b + k /\ n = b + r /\ a <= n
    BY <1>1, <2>1, <2>2
  <2> HIDE DEF a, b
  <2> QED
    BY <1>1, <2>3, <2>4
<1> QED
  BY <1>1, <1>2 DEF q

LEMMA EncodingLength ==
    ASSUME NEW d \in Seq(Byte)
    PROVE  Len(CobsEncode(d)) <= Len(d) + 1 + Len(d) \div (Full - 1)
<1>1. PICK e \in Encoder : CobsEncode(d) = Filled(e) /\ Grown(e, Len(d))
  BY Encoding
<1> DEFINE m == Len(e.out)
           n == Len(d)
           k == Full - 1
           F == m - n - 1
<1>2. m \in Nat /\ n \in Nat /\ k \in Nat /\ k >= 1 /\ e.code \in Nat /\ e.code >= 1
  BY EncoderFacts
<1>3. F \in Nat /\ F * k + e.code - 1 <= n
  BY <1>1, <1>2 DEF Grown
<1>4. Len(CobsEncode(d)) = m
  BY <1>1, FilledType
<1> HIDE DEF m, n, k
<1>5. F * k \in Nat
  BY <1>2, <1>3
<1>6. m = n + 1 + F
  BY <1>2
<1> HIDE DEF F
<1>7. F * k <= n
  BY <1>2, <1>3, <1>5
<1>8. F <= n \div k /\ n \div k \in Nat
  BY <1>2, <1>3, <1>7, Quotient
<1> QED
  BY <1>2, <1>3, <1>4, <1>6, <1>8 DEF n, k

\* The round trip, the agreement of the decoders and the overhead hold of every
\* buffer of bytes of any size, whatever its length (cobsEncode, cobs_encode,
\* cobsDecode, cobs_decode).
THEOREM CobsCorrect == Spec => []CobsHolds
<1> DEFINE Buffer == data \in Seq(Byte)
<1>1. Init => Buffer
  BY DEF Init, BufferInit
<1>2. Buffer /\ [Next]_vars => Buffer'
  <2> SUFFICES ASSUME Buffer, [Next]_vars PROVE Buffer'
    OBVIOUS
  <2>1. CASE Extend
    <3>1. PICK b \in Byte : data' = Append(data, b)
      BY <2>1 DEF Extend
    <3> QED
      BY <3>1, AppendProperties
  <2>2. CASE data' = data
    BY <2>2
  <2> QED
    BY <2>1, <2>2 DEF Next, FillBuffer, Stream, vars
<1>3. Buffer => CobsHolds
  <2> SUFFICES ASSUME Buffer PROVE CobsHolds
    OBVIOUS
  <2>1. RoundTrip
    <3>1. \A n \in NonZero : n # 0
      BY FullAssumption DEF NonZero
    <3> QED
      BY <3>1, EncodingIsRead DEF RoundTrip
  <2>2. DecodersAgree
    <3> SUFFICES ASSUME \A i \in 1 .. Len(data) : data[i] # 0
                 PROVE  JsDecode(data) = PyDecode(data) /\ Len(JsDecode(data)) <= Len(data)
      BY DEF DecodersAgree
    <3>1. \A i \in 1 .. Len(data) : data[i] \in NonZero
      BY FullAssumption DEF Byte, NonZero
    <3>2. data \in Seq(NonZero)
      BY <3>1
    <3> QED
      BY <3>2, SameDecoding
  <2>3. Overhead
    BY EncodingLength DEF Overhead
  <2> QED
    BY <2>1, <2>2, <2>3 DEF CobsHolds
<1> QED
  BY <1>1, <1>2, <1>3, PTL DEF Spec

-----------------------------------------------------------------------------
(* The line and its receivers.  W is what has not been dealt with: the      *)
(* bytes in the receiver's buffer and, behind them, those under way.        *)

\* What is known of the past; `got' are the packets delivered so far.
Past == [client |-> client, sent |-> sent, damaged |-> damaged]

Pasts == {h \in [client : {"js", "py"}, sent : Seq(Packets), damaged : SUBSET (1 .. MaxSent + 1)] :
             Len(h.sent) <= MaxSent}

CanBeRead(h, n) ==
    /\ n \notin h.damaged
    /\ h.client = "js" => Len(CobsEncode(h.sent[n])) <= MaxAccumulator

\* The frame n of these bytes stands behind p.
FrameBehind(W, p, n, encoded) ==
    /\ p + Len(encoded) + 1 <= Len(W)
    /\ \A k \in 1 .. Len(encoded) : W[p + k].b = encoded[k]
    /\ W[p + Len(encoded) + 1].b = 0
    /\ \A k \in 1 .. Len(encoded) + 1 : W[p + k].of = n

\* The receiver looks for the next delimiter from here, or the one of the frame
\* before stands here.
BeginsBehind(W, from, p, n) == p = from - 1 \/ (p >= from /\ W[p].b = 0 /\ W[p].of = n - 1)

Packet == [data : Seq(Byte), of : 1 .. MaxSent]

IsDelivered(h, got, n) == \E k \in 1 .. Len(got) : got[k] = [data |-> h.sent[n], of |-> n]

\* A frame that can be read has been delivered, or stands whole where it will
\* be found.
NoneIsLost(h, W, from, got) ==
    \A n \in 1 .. Len(h.sent) : CanBeRead(h, n) =>
        \/ IsDelivered(h, got, n)
        \/ \E p \in from - 1 .. Len(W) :
              BeginsBehind(W, from, p, n) /\ FrameBehind(W, p, n, CobsEncode(h.sent[n]))

\* Frames stand one behind the other, each with one delimiter, unless a fault
\* made another.
InOrder(h, W, from) ==
    \A i, j \in from .. Len(W) : i < j =>
        /\ W[i].of <= W[j].of
        /\ (W[i].b = 0 /\ W[i].of = W[j].of) => W[i].of \in h.damaged

WasSent(h, W, from) == \A j \in from .. Len(W) : W[j].of <= Len(h.sent)

\* What is delivered is behind the frames that are still to come.
Passed(h, W, from, got) ==
    \A k \in 1 .. Len(got) :
        /\ got[k].of <= Len(h.sent)
        /\ \A j \in from .. Len(W) :
             got[k].of < W[j].of \/ (got[k].of = W[j].of /\ got[k].of \in h.damaged)

Once(h, got) ==
    \A j, k \in 1 .. Len(got) : j < k =>
        got[j].of < got[k].of \/ (got[j].of = got[k].of /\ got[j].of \in h.damaged)

\* The next frame will stand behind a delimiter, or be the first.
NextBegins(h, W, from) ==
    Len(h.sent) + 1 \notin h.damaged =>
        from = Len(W) + 1 \/ (W[Len(W)].b = 0 /\ W[Len(W)].of = Len(h.sent))

Pending(h, W, from, got) ==
    /\ NoneIsLost(h, W, from, got) /\ InOrder(h, W, from) /\ WasSent(h, W, from)
    /\ Passed(h, W, from, got) /\ Once(h, got) /\ NextBegins(h, W, from)

\* The bytes up to i have been looked at, those before `from' are done with.
Scanned(h, W, from, i, got) ==
    /\ from \in 1 .. i + 1
    /\ \A j \in from .. i : W[j].b # 0
    /\ got \in Seq(Packet)
    /\ Pending(h, W, from, got)

LEMMA LineByte ==
    ASSUME NEW W \in Seq(OnLine), NEW j \in 1 .. Len(W)
    PROVE  W[j].b \in Byte /\ W[j].of \in 1 .. MaxSent /\ W[j].of \in Nat
<1>1. W[j] \in OnLine
  OBVIOUS
<1> QED
  BY <1>1, LineAssumption DEF OnLine

\* The bytes of a piece of the line, without their history.
LEMMA BytesFacts ==
    ASSUME NEW V \in Seq(OnLine)
    PROVE  /\ Bytes(V) \in Seq(Byte) /\ Len(Bytes(V)) = Len(V)
           /\ \A k \in 1 .. Len(V) : Bytes(V)[k] = V[k].b
           /\ (\A k \in 1 .. Len(V) : V[k].b # 0) => Bytes(V) \in Seq(NonZero)
<1> DEFINE n == Len(V)
<1>1. n \in Nat /\ \A k \in 1 .. n : V[k].b \in Byte
  BY LineByte
<1>2. Bytes(V) = [k \in 1 .. n |-> V[k].b]
  BY DEF Bytes
<1> HIDE DEF n
<1>3. Bytes(V) \in [1 .. n -> Byte]
  BY <1>1, <1>2
<1>4. ASSUME \A k \in 1 .. n : V[k].b # 0 PROVE Bytes(V) \in [1 .. n -> NonZero]
  <2>1. \A k \in 1 .. n : V[k].b \in NonZero
    BY <1>1, <1>4, FullAssumption DEF Byte, NonZero
  <2> QED
    BY <1>2, <2>1
<1> DEFINE B == Bytes(V)
<1> HIDE DEF B
<1>5. B \in Seq(Byte) /\ Len(B) = n
  BY <1>1, <1>3 DEF B
<1>6. (\A k \in 1 .. n : V[k].b # 0) => B \in Seq(NonZero)
  BY <1>1, <1>4 DEF B
<1>7. \A k \in 1 .. n : B[k] = V[k].b
  BY <1>2 DEF B
<1> QED
  BY <1>5, <1>6, <1>7 DEF B, n

\* The line between `from' and i.
LEMMA Cut ==
    ASSUME NEW W \in Seq(OnLine), NEW from \in Nat \ {0}, NEW i \in Nat,
           from <= i + 1, i <= Len(W), \A j \in from .. i : W[j].b # 0
    PROVE  LET B == Bytes(SubSeq(W, from, i)) IN
           /\ SubSeq(W, from, i) \in Seq(OnLine) /\ Len(SubSeq(W, from, i)) = i + 1 - from
           /\ B \in Seq(NonZero) /\ Len(B) = i + 1 - from
           /\ \A k \in 1 .. i + 1 - from : B[k] = W[from + k - 1].b
<1> DEFINE V == SubSeq(W, from, i)
           m == i + 1 - from
<1>1. m \in Nat /\ \A k \in 1 .. m : from + k - 1 \in from .. i /\ from + k - 1 \in 1 .. Len(W)
  OBVIOUS
<1>2. V \in Seq(OnLine) /\ Len(V) = m /\ \A k \in 1 .. m : V[k] = W[from + k - 1]
  BY SubSeqProperties
<1> HIDE DEF V
<1>3. \A k \in 1 .. m : V[k].b # 0
  BY <1>1, <1>2
<1> HIDE DEF m
<1>4. Bytes(V) \in Seq(NonZero) /\ Len(Bytes(V)) = m /\ \A k \in 1 .. m : Bytes(V)[k] = W[from + k - 1].b
  BY <1>2, <1>3, BytesFacts
<1> QED
  BY <1>2, <1>4 DEF V, m

\* Frame p, as it is sent.
LEMMA FrameFacts ==
    ASSUME NEW packet \in Packets, NEW n \in 1 .. MaxSent
    PROVE  LET m == Len(CobsEncode(packet)) IN
           /\ CobsEncode(packet) \in Seq(NonZero) /\ m \in Nat
           /\ Frame(packet, n) \in Seq(OnLine) /\ Len(Frame(packet, n)) = m + 1
           /\ \A k \in 1 .. m : Frame(packet, n)[k].b = CobsEncode(packet)[k]
           /\ Frame(packet, n)[m + 1].b = 0
           /\ \A k \in 1 .. m + 1 : Frame(packet, n)[k].of = n
<1> DEFINE E == CobsEncode(packet)
           m == Len(E)
           X == Append(E, 0)
           F == Frame(packet, n)
<1>1. E \in Seq(NonZero) /\ E \in Seq(Byte) /\ 0 \in Byte
  <2>1. packet \in Seq(Byte)
    BY LineAssumption
  <2>2. E \in Seq(NonZero)
    BY <2>1, EncodingIsRead
  <2>3. NonZero \subseteq Byte /\ 0 \in Byte
    BY FullAssumption DEF NonZero, Byte
  <2> HIDE DEF E
  <2> QED
    BY <2>2, <2>3, SeqOfMore
<1> HIDE DEF E
<1>2. m \in Nat
  BY <1>1
<1>3. X \in Seq(Byte) /\ Len(X) = m + 1 /\ (\A k \in 1 .. m : X[k] = E[k]) /\ X[m + 1] = 0
  BY <1>1, AppendProperties
<1>4. F = [k \in 1 .. Len(X) |-> [b |-> X[k], of |-> n]]
  BY DEF Frame, E
<1> HIDE DEF X, m
<1>5. \A k \in 1 .. m + 1 : X[k] \in Byte
  BY <1>3
<1>6. F = [k \in 1 .. m + 1 |-> [b |-> X[k], of |-> n]]
  BY <1>3, <1>4
<1> HIDE DEF F
<1>7. F \in [1 .. m + 1 -> OnLine]
  BY <1>5, <1>6 DEF OnLine
<1>8. F \in Seq(OnLine) /\ Len(F) = m + 1
  BY <1>2, <1>7
<1>9. \A k \in 1 .. m + 1 : F[k].b = X[k] /\ F[k].of = n
  BY <1>6
<1>10. \A k \in 1 .. m : k \in 1 .. m + 1
  BY <1>2
<1>11. m + 1 \in 1 .. m + 1
  BY <1>2
<1>12. (\A k \in 1 .. m : F[k].b = E[k]) /\ F[m + 1].b = 0
  BY <1>3, <1>9, <1>10, <1>11
<1> QED
  BY <1>1, <1>2, <1>8, <1>9, <1>12 DEF E, m, F

LEMMA PastFacts ==
    ASSUME NEW h \in Pasts, NEW n \in 1 .. Len(h.sent)
    PROVE  /\ h.sent \in Seq(Packets) /\ h.sent[n] \in Packets /\ n \in 1 .. MaxSent
           /\ h.sent[n] \in Seq(Byte) /\ Len(h.sent[n]) >= MinLen
           /\ CobsEncode(h.sent[n]) \in Seq(NonZero)
           /\ PyDecode(CobsEncode(h.sent[n])) = h.sent[n]
<1>1. h.sent \in Seq(Packets) /\ Len(h.sent) <= MaxSent /\ MaxSent \in Nat
  BY LineAssumption DEF Pasts
<1>2. h.sent[n] \in Packets /\ n \in 1 .. MaxSent
  BY <1>1
<1> QED
  BY <1>1, <1>2, LineAssumption, EncodingIsRead

\* No delimiter, no frame: one that begins at `from' is not over before it.
LEMMA FrameReaches ==
    ASSUME NEW W, NEW from \in Nat \ {0}, NEW i \in Nat, from <= i + 1,
           \A j \in from .. i : W[j].b # 0,
           NEW n, NEW E \in Seq(NonZero), FrameBehind(W, from - 1, n, E)
    PROVE  from + Len(E) > i
<1> DEFINE m == Len(E)
<1>1. m \in Nat
  OBVIOUS
<1>2. W[from + m].b = 0
  <2>1. (from - 1) + m + 1 = from + m
    BY <1>1
  <2> QED
    BY <2>1 DEF FrameBehind
<1> HIDE DEF m
<1>3. from + m <= i => from + m \in from .. i
  BY <1>1
<1>4. from + m > i
  BY <1>1, <1>2, <1>3
<1> QED
  BY <1>4 DEF m

\* The delimiter behind a frame that begins at `from' ends it.
LEMMA FoundHere ==
    ASSUME NEW W \in Seq(OnLine), NEW from \in Nat \ {0}, NEW i \in Nat, from <= i + 1,
           i + 1 <= Len(W), \A j \in from .. i : W[j].b # 0, W[i + 1].b = 0,
           NEW n, NEW E \in Seq(NonZero), FrameBehind(W, from - 1, n, E)
    PROVE  Bytes(SubSeq(W, from, i)) = E /\ W[i + 1].of = n
<1> DEFINE m == Len(E)
           B == Bytes(SubSeq(W, from, i))
           l == i + 1 - from
<1>1. m \in Nat /\ from + m > i /\ \A k \in 1 .. m : E[k] # 0
  <2>1. \A k \in 1 .. m : E[k] \in NonZero
    OBVIOUS
  <2>2. m \in Nat
    OBVIOUS
  <2>3. from + m > i
    BY FrameReaches
  <2>4. \A e \in NonZero : e # 0
    BY FullAssumption DEF NonZero
  <2> QED
    BY <2>1, <2>2, <2>3, <2>4
<1>2. /\ B \in Seq(NonZero) /\ Len(B) = l
      /\ \A k \in 1 .. l : B[k] = W[from + k - 1].b
  <2>1. i <= Len(W)
    OBVIOUS
  <2> QED
    BY <2>1, Cut
<1>3. /\ \A k \in 1 .. m : W[(from - 1) + k].b = E[k]
      /\ \A k \in 1 .. m + 1 : W[(from - 1) + k].of = n
  BY DEF FrameBehind
<1> HIDE DEF m, B
<1>4. m = l
  <2>1. SUFFICES ASSUME m > l PROVE FALSE
    BY <1>1
  <2>2. l + 1 \in 1 .. m /\ (from - 1) + (l + 1) = i + 1
    BY <1>1, <2>1
  <2> HIDE DEF l
  <2> QED
    BY <1>1, <1>3, <2>2
<1>5. W[i + 1].of = n
  <2>1. m + 1 \in 1 .. m + 1 /\ (from - 1) + (m + 1) = i + 1
    BY <1>1, <1>4
  <2> QED
    BY <1>3, <2>1
<1>6. \A k \in 1 .. m : B[k] = E[k]
  <2>1. \A k \in 1 .. m : (from - 1) + k = from + k - 1
    OBVIOUS
  <2> QED
    BY <1>2, <1>3, <1>4, <2>1
<1> HIDE DEF l
<1>7. B = E
  BY <1>2, <1>4, <1>6 DEF m
<1> QED
  BY <1>5, <1>7 DEF B

\* When the bytes up to i + 1 are done with, the frames behind them still stand.
LEMMA DealtWith ==
    ASSUME NEW h, NEW W \in Seq(OnLine), NEW from \in Nat \ {0}, NEW i \in Nat, from <= i + 1,
           i + 1 <= Len(W), \A j \in from .. i : W[j].b # 0,
           NEW got, NEW more, NoneIsLost(h, W, from, got),
           \A n \in 1 .. Len(h.sent) : IsDelivered(h, got, n) => IsDelivered(h, more, n),
           \A n \in 1 .. Len(h.sent) :
              CanBeRead(h, n) /\ FrameBehind(W, from - 1, n, CobsEncode(h.sent[n]))
                => IsDelivered(h, more, n)
    PROVE  NoneIsLost(h, W, i + 2, more)
<1> SUFFICES ASSUME NEW n \in 1 .. Len(h.sent), CanBeRead(h, n), ~ IsDelivered(h, more, n)
             PROVE  \E p \in (i + 2) - 1 .. Len(W) :
                       /\ BeginsBehind(W, i + 2, p, n)
                       /\ FrameBehind(W, p, n, CobsEncode(h.sent[n]))
  BY DEF NoneIsLost
<1>1. PICK p \in from - 1 .. Len(W) :
         BeginsBehind(W, from, p, n) /\ FrameBehind(W, p, n, CobsEncode(h.sent[n]))
  BY DEF NoneIsLost
<1>2. p # from - 1
  BY <1>1
<1>3. p >= from /\ W[p].b = 0 /\ W[p].of = n - 1
  BY <1>1, <1>2 DEF BeginsBehind
<1>4. Len(W) \in Nat /\ p \in Int
  OBVIOUS
<1>5. p >= i + 1
  <2>1. p <= i => p \in from .. i
    BY <1>3, <1>4
  <2> QED
    BY <1>3, <1>4, <2>1
<1>6. p \in (i + 2) - 1 .. Len(W) /\ (p = (i + 2) - 1 \/ p >= i + 2)
  BY <1>4, <1>5
<1> QED
  BY <1>1, <1>3, <1>6 DEF BeginsBehind

\* The order of what stands on the line is that of what is left of it.
LEMMA StillInOrder ==
    ASSUME NEW h, NEW W \in Seq(OnLine), NEW from \in Nat \ {0}, NEW to \in Nat,
           from <= to, from <= Len(W), NEW got,
           InOrder(h, W, from), WasSent(h, W, from), Passed(h, W, from, got), NextBegins(h, W, from)
    PROVE  /\ InOrder(h, W, to) /\ WasSent(h, W, to)
           /\ Passed(h, W, to, got) /\ NextBegins(h, W, to)
<1>1. \A j \in to .. Len(W) : j \in from .. Len(W)
  OBVIOUS
<1>2. from # Len(W) + 1
  OBVIOUS
<1>3. InOrder(h, W, to)
  BY <1>1 DEF InOrder
<1>4. WasSent(h, W, to)
  BY <1>1 DEF WasSent
<1>5. Passed(h, W, to, got)
  BY <1>1 DEF Passed
<1>6. NextBegins(h, W, to)
  BY <1>2 DEF NextBegins
<1> QED
  BY <1>3, <1>4, <1>5, <1>6

\* What has been delivered when the delimiter at i + 1 was looked at.
Delivers(W, from, i, got) ==
    LET decoded == PyDecode(Bytes(SubSeq(W, from, i)))
    IN IF Len(decoded) >= MinLen
       THEN Append(got, [data |-> decoded, of |-> W[i + 1].of]) ELSE got

\* A delimiter: what stands before it is decoded.
LEMMA ZeroScanned ==
    ASSUME NEW h \in Pasts, NEW W \in Seq(OnLine), NEW i \in Nat, i + 1 <= Len(W),
           NEW from, NEW got, Scanned(h, W, from, i, got), W[i + 1].b = 0
    PROVE  Scanned(h, W, i + 2, i + 1, Delivers(W, from, i, got))
<1> DEFINE B == Bytes(SubSeq(W, from, i))
           decoded == PyDecode(B)
           packet == [data |-> decoded, of |-> W[i + 1].of]
           more == Delivers(W, from, i, got)
<1>1. /\ from \in Nat \ {0} /\ from <= i + 1 /\ from \in 1 .. i + 1
      /\ (\A j \in from .. i : W[j].b # 0)
      /\ got \in Seq(Packet) /\ Pending(h, W, from, got)
  BY DEF Scanned
<1>2. /\ NoneIsLost(h, W, from, got) /\ InOrder(h, W, from) /\ WasSent(h, W, from)
      /\ Passed(h, W, from, got) /\ Once(h, got) /\ NextBegins(h, W, from)
  BY <1>1 DEF Pending
<1>3. B \in Seq(NonZero) /\ i + 1 \in 1 .. Len(W) /\ i + 1 \in from .. Len(W)
  <2>1. i <= Len(W) /\ i + 1 \in 1 .. Len(W) /\ i + 1 \in from .. Len(W)
    BY <1>1
  <2> QED
    BY <1>1, <2>1, Cut
<1>4. packet \in Packet
  <2>1. decoded \in Seq(Byte)
    BY <1>3, SameDecoding
  <2>2. W[i + 1].of \in 1 .. MaxSent
    BY <1>3, LineByte
  <2> QED
    BY <2>1, <2>2 DEF Packet
<1>5. more = got \/ more = Append(got, packet)
  BY DEF Delivers
<1>6. /\ Append(got, packet) \in Seq(Packet) /\ Len(Append(got, packet)) = Len(got) + 1
      /\ Append(got, packet)[Len(got) + 1] = packet
      /\ \A k \in 1 .. Len(got) : Append(got, packet)[k] = got[k]
  <2> HIDE DEF packet
  <2> QED
    BY <1>1, <1>4, AppendProperties
<1>7. Len(got) \in Nat
  BY <1>1
<1>8. NoneIsLost(h, W, i + 2, more)
  <2>1. ASSUME NEW n \in 1 .. Len(h.sent), IsDelivered(h, got, n)
        PROVE  IsDelivered(h, more, n)
    <3>1. PICK k \in 1 .. Len(got) : got[k] = [data |-> h.sent[n], of |-> n]
      BY <2>1 DEF IsDelivered
    <3>2. k \in 1 .. Len(got) + 1
      BY <1>7
    <3> HIDE DEF more, packet
    <3>3. CASE more = got
      BY <3>1, <3>3 DEF IsDelivered
    <3>4. CASE more = Append(got, packet)
      <4>1. more[k] = [data |-> h.sent[n], of |-> n] /\ k \in 1 .. Len(more)
        BY <1>6, <3>1, <3>2, <3>4
      <4> QED
        BY <4>1 DEF IsDelivered
    <3> QED
      BY <1>5, <3>3, <3>4
  <2>2. ASSUME NEW n \in 1 .. Len(h.sent), CanBeRead(h, n),
               FrameBehind(W, from - 1, n, CobsEncode(h.sent[n]))
        PROVE  IsDelivered(h, more, n)
    <3>1. B = CobsEncode(h.sent[n]) /\ W[i + 1].of = n
      <4> DEFINE E == CobsEncode(h.sent[n])
      <4>1. E \in Seq(NonZero) /\ FrameBehind(W, from - 1, n, E)
        BY <2>2, PastFacts
      <4> HIDE DEF E
      <4>2. Bytes(SubSeq(W, from, i)) = E /\ W[i + 1].of = n
        BY <1>1, <4>1, FoundHere
      <4> QED
        BY <4>2 DEF E
    <3>2. decoded = h.sent[n] /\ Len(decoded) >= MinLen
      BY <3>1, PastFacts
    <3>3. more = Append(got, packet)
      BY <3>2 DEF Delivers
    <3>4. packet = [data |-> h.sent[n], of |-> n]
      BY <3>1, <3>2
    <3>5. Len(got) + 1 \in 1 .. Len(got) + 1
      BY <1>7
    <3> HIDE DEF more, packet
    <3> QED
      BY <1>6, <3>3, <3>4, <3>5 DEF IsDelivered
  <2> HIDE DEF more
  <2> QED
    BY <1>1, <1>2, <2>1, <2>2, DealtWith
<1>9. /\ InOrder(h, W, i + 2) /\ WasSent(h, W, i + 2)
      /\ Passed(h, W, i + 2, got) /\ NextBegins(h, W, i + 2)
  <2>1. from <= i + 2 /\ from <= Len(W) /\ i + 2 \in Nat
    BY <1>1
  <2> QED
    BY <1>1, <1>2, <2>1, StillInOrder
<1>10. Passed(h, W, i + 2, Append(got, packet))
  <2>1. packet.of = W[i + 1].of /\ packet.of <= Len(h.sent)
    BY <1>2, <1>3 DEF WasSent
  <2>2. ASSUME NEW j \in i + 2 .. Len(W)
        PROVE  packet.of < W[j].of \/ (packet.of = W[j].of /\ packet.of \in h.damaged)
    <3>1. j \in from .. Len(W) /\ i + 1 < j /\ j \in 1 .. Len(W)
      BY <1>1
    <3>2. W[i + 1].of <= W[j].of /\ (W[i + 1].of = W[j].of => W[i + 1].of \in h.damaged)
      BY <1>2, <1>3, <3>1 DEF InOrder
    <3>3. W[i + 1].of \in Nat /\ W[j].of \in Nat
      BY <1>3, <3>1, LineByte
    <3> QED
      BY <2>1, <3>2, <3>3
  <2> HIDE DEF packet
  <2>3. \A k \in 1 .. Len(got) + 1 : k \in 1 .. Len(got) \/ k = Len(got) + 1
    BY <1>7
  <2> QED
    BY <1>6, <1>9, <2>1, <2>2, <2>3 DEF Passed
<1>11. Once(h, Append(got, packet))
  <2> DEFINE all == Append(got, packet)
  <2>1. \A k \in 1 .. Len(got) :
           got[k].of < packet.of \/ (got[k].of = packet.of /\ got[k].of \in h.damaged)
    BY <1>2, <1>3 DEF Passed
  <2> HIDE DEF packet
  <2>2. Len(all) = Len(got) + 1 /\ all[Len(got) + 1] = packet
    BY <1>6
  <2>3. \A k \in 1 .. Len(got) : all[k] = got[k]
    BY <1>6
  <2> HIDE DEF all
  <2> SUFFICES ASSUME NEW j \in 1 .. Len(got) + 1, NEW k \in 1 .. Len(got) + 1, j < k
               PROVE  all[j].of < all[k].of \/ (all[j].of = all[k].of /\ all[j].of \in h.damaged)
    BY <2>2 DEF Once, all
  <2>4. j \in 1 .. Len(got) /\ (k \in 1 .. Len(got) \/ k = Len(got) + 1)
    BY <1>7
  <2>5. CASE k \in 1 .. Len(got)
    BY <1>2, <2>3, <2>4, <2>5 DEF Once
  <2>6. CASE k = Len(got) + 1
    BY <2>1, <2>2, <2>3, <2>4, <2>6
  <2> QED
    BY <2>4, <2>5, <2>6
<1>12. more \in Seq(Packet) /\ Passed(h, W, i + 2, more) /\ Once(h, more)
  <2> HIDE DEF more, packet
  <2> QED
    BY <1>1, <1>2, <1>5, <1>6, <1>9, <1>10, <1>11
<1>13. i + 2 \in 1 .. (i + 1) + 1 /\ \A j \in i + 2 .. i + 1 : W[j].b # 0
  OBVIOUS
<1> HIDE DEF more
<1> QED
  BY <1>8, <1>9, <1>12, <1>13 DEF Scanned, Pending, more

\* Any other byte leaves things as they are,
LEMMA OtherScanned ==
    ASSUME NEW h, NEW W, NEW i \in Nat, NEW from, NEW got,
           Scanned(h, W, from, i, got), W[i + 1].b # 0
    PROVE  Scanned(h, W, from, i + 1, got)
<1>1. from \in 1 .. (i + 1) + 1 /\ \A j \in from .. i + 1 : j \in from .. i \/ j = i + 1
  BY DEF Scanned
<1> QED
  BY <1>1 DEF Scanned

\* or overruns the JavaScript accumulator: no frame that can be read does.
LEMMA OverrunScanned ==
    ASSUME NEW h \in Pasts, NEW W \in Seq(OnLine), NEW i \in Nat, i + 1 <= Len(W),
           NEW from, NEW got, Scanned(h, W, from, i, got), W[i + 1].b # 0,
           h.client = "js", i + 1 - from >= MaxAccumulator
    PROVE  Scanned(h, W, i + 2, i + 1, got)
<1>1. /\ from \in Nat \ {0} /\ from <= i + 1
      /\ (\A j \in from .. i : W[j].b # 0)
      /\ got \in Seq(Packet) /\ Pending(h, W, from, got)
  BY DEF Scanned
<1>2. /\ NoneIsLost(h, W, from, got) /\ InOrder(h, W, from) /\ WasSent(h, W, from)
      /\ Passed(h, W, from, got) /\ Once(h, got) /\ NextBegins(h, W, from)
  BY <1>1 DEF Pending
<1>3. NoneIsLost(h, W, i + 2, got)
  <2>1. ASSUME NEW n \in 1 .. Len(h.sent), CanBeRead(h, n),
               FrameBehind(W, from - 1, n, CobsEncode(h.sent[n]))
        PROVE  FALSE
    <3> DEFINE E == CobsEncode(h.sent[n])
               m == Len(E)
    <3>1. E \in Seq(NonZero) /\ m <= MaxAccumulator
      BY <2>1, PastFacts DEF CanBeRead
    <3> HIDE DEF E
    <3>2. \A j \in from .. i + 1 : W[j].b # 0
      <4>1. \A j \in from .. i + 1 : j \in from .. i \/ j = i + 1
        BY <1>1
      <4> QED
        BY <1>1, <4>1
    <3>3. from <= (i + 1) + 1 /\ i + 1 \in Nat
      BY <1>1
    <3>4. from + m > i + 1
      BY <1>1, <2>1, <3>1, <3>2, <3>3, FrameReaches DEF E
    <3>5. m \in Nat
      BY <3>1
    <3> HIDE DEF m
    <3> QED
      BY <1>1, <3>1, <3>4, <3>5, AccumulatorAssumption
  <2> QED
    BY <1>1, <1>2, <2>1, DealtWith
<1>4. /\ InOrder(h, W, i + 2) /\ WasSent(h, W, i + 2)
      /\ Passed(h, W, i + 2, got) /\ NextBegins(h, W, i + 2)
  <2>1. from <= i + 2 /\ from <= Len(W) /\ i + 2 \in Nat
    BY <1>1
  <2> QED
    BY <1>1, <1>2, <2>1, StillInOrder
<1>5. i + 2 \in 1 .. (i + 1) + 1 /\ \A j \in i + 2 .. i + 1 : W[j].b # 0
  OBVIOUS
<1> QED
  BY <1>1, <1>2, <1>3, <1>4, <1>5 DEF Scanned, Pending

-----------------------------------------------------------------------------
(* What is on the line grows, loses bytes, and changes.                     *)

\* More may have been spoilt since.
Later(h, later) ==
    /\ later.sent = h.sent /\ later.client = h.client
    /\ h.damaged \subseteq later.damaged

LEMMA FrameMoved ==
    ASSUME NEW W, NEW V, NEW p \in Nat, NEW q \in Nat, NEW n, NEW E, Len(E) \in Nat,
           FrameBehind(W, p, n, E), q + Len(E) + 1 <= Len(V),
           \A k \in 1 .. Len(E) + 1 : V[q + k] = W[p + k]
    PROVE  FrameBehind(V, q, n, E)
<1> DEFINE m == Len(E)
<1>1. /\ \A k \in 1 .. m : W[p + k].b = E[k]
      /\ W[p + m + 1].b = 0
      /\ \A k \in 1 .. m + 1 : W[p + k].of = n
  BY DEF FrameBehind
<1>2. m \in Nat /\ q + m + 1 <= Len(V) /\ \A k \in 1 .. m + 1 : V[q + k] = W[p + k]
  OBVIOUS
<1> HIDE DEF m
<1>3. V[q + m + 1] = W[p + m + 1]
  <2>1. m + 1 \in 1 .. m + 1 /\ q + (m + 1) = q + m + 1 /\ p + (m + 1) = p + m + 1
    BY <1>2
  <2> QED
    BY <1>2, <2>1
<1>4. \A k \in 1 .. m : V[q + k].b = E[k]
  <2>1. \A k \in 1 .. m : k \in 1 .. m + 1
    BY <1>2
  <2> QED
    BY <1>1, <1>2, <2>1
<1>5. \A k \in 1 .. m + 1 : V[q + k].of = n
  BY <1>1, <1>2
<1> QED
  BY <1>1, <1>2, <1>3, <1>4, <1>5 DEF FrameBehind, m

\* The bytes of V are, in their order, some of those of W from there on.
Thins(s, V, W, from, damage) ==
    /\ Len(V) \in Nat /\ Len(W) \in Nat /\ s \in [1 .. Len(V) -> from .. Len(W)]
    /\ \A i, j \in 1 .. Len(V) : i < j => s[i] < s[j]
    /\ \A j \in 1 .. Len(V) : V[j].of = W[s[j]].of
    /\ \A j \in 1 .. Len(V) : V[j].b = 0 => W[s[j]].b = 0 \/ V[j].of \in damage

LEMMA Thinned ==
    ASSUME NEW h, NEW later, Later(h, later), NEW W, NEW V, NEW from \in Nat, NEW got,
           NEW s, Thins(s, V, W, from, later.damaged),
           InOrder(h, W, from), WasSent(h, W, from), Passed(h, W, from, got), Once(h, got)
    PROVE  /\ InOrder(later, V, 1) /\ WasSent(later, V, 1)
           /\ Passed(later, V, 1, got) /\ Once(later, got)
<1>1. later.sent = h.sent /\ h.damaged \subseteq later.damaged
  BY DEF Later
<1>2. /\ \A j \in 1 .. Len(V) : s[j] \in from .. Len(W)
      /\ Len(V) \in Nat /\ Len(W) \in Nat
      /\ \A i, j \in 1 .. Len(V) : i < j => s[i] < s[j]
      /\ \A j \in 1 .. Len(V) : V[j].of = W[s[j]].of
      /\ \A j \in 1 .. Len(V) : V[j].b = 0 => W[s[j]].b = 0 \/ V[j].of \in later.damaged
  BY DEF Thins
<1>3. InOrder(later, V, 1)
  BY <1>1, <1>2 DEF InOrder
<1>4. WasSent(later, V, 1)
  BY <1>1, <1>2 DEF WasSent
<1>5. Passed(later, V, 1, got)
  BY <1>1, <1>2 DEF Passed
<1>6. Once(later, got)
  BY <1>1 DEF Once
<1> QED
  BY <1>3, <1>4, <1>5, <1>6

\* Only what has not been dealt with is kept.
LEMMA Dropped ==
    ASSUME NEW h \in Pasts, NEW W \in Seq(OnLine), NEW from \in 1 .. Len(W) + 1, NEW got,
           NEW V \in Seq(OnLine), Len(V) = Len(W) + 1 - from,
           \A k \in 1 .. Len(V) : V[k] = W[from + k - 1],
           Pending(h, W, from, got)
    PROVE  Pending(h, V, 1, got)
<1> DEFINE L == Len(W)
           s == [k \in 1 .. Len(V) |-> from + k - 1]
<1>1. /\ L \in Nat /\ from \in Nat /\ from >= 1 /\ from <= L + 1
      /\ Len(V) \in Nat /\ Len(V) = L + 1 - from
      /\ \A k \in 1 .. Len(V) : V[k] = W[from + k - 1]
  OBVIOUS
<1>2. /\ NoneIsLost(h, W, from, got) /\ InOrder(h, W, from) /\ WasSent(h, W, from)
      /\ Passed(h, W, from, got) /\ Once(h, got) /\ NextBegins(h, W, from)
  BY DEF Pending
<1> HIDE DEF L
<1>3. InOrder(h, V, 1) /\ WasSent(h, V, 1) /\ Passed(h, V, 1, got) /\ Once(h, got)
  <2>1. Later(h, h)
    BY DEF Later
  <2>2. s \in [1 .. Len(V) -> from .. L]
    BY <1>1
  <2>3. /\ \A i, j \in 1 .. Len(V) : i < j => s[i] < s[j]
        /\ \A j \in 1 .. Len(V) : V[j] = W[s[j]]
    BY <1>1
  <2> HIDE DEF s
  <2>4. /\ \A j \in 1 .. Len(V) : V[j].of = W[s[j]].of
        /\ \A j \in 1 .. Len(V) : V[j].b = 0 => W[s[j]].b = 0 \/ V[j].of \in h.damaged
    BY <2>3
  <2>5. from \in Nat /\ Thins(s, V, W, from, h.damaged)
    BY <1>1, <2>2, <2>3, <2>4 DEF Thins, L
  <2> QED
    BY <1>2, <2>1, <2>5, Thinned
<1>4. NoneIsLost(h, V, 1, got)
  <2> SUFFICES ASSUME NEW n \in 1 .. Len(h.sent), CanBeRead(h, n), ~ IsDelivered(h, got, n)
               PROVE  \E p \in 1 - 1 .. Len(V) :
                         /\ BeginsBehind(V, 1, p, n)
                         /\ FrameBehind(V, p, n, CobsEncode(h.sent[n]))
    BY DEF NoneIsLost
  <2> DEFINE E == CobsEncode(h.sent[n])
             m == Len(E)
  <2>1. PICK p \in from - 1 .. L : BeginsBehind(W, from, p, n) /\ FrameBehind(W, p, n, E)
    BY <1>2 DEF NoneIsLost, L
  <2>2. m \in Nat
    BY PastFacts
  <2>3. p + m + 1 <= L
    BY <2>1 DEF FrameBehind, L
  <2> HIDE DEF E
  <2> DEFINE q == p + 1 - from
  <2>4. /\ q \in Nat /\ p \in Nat /\ q \in 0 .. Len(V)
        /\ q = 0 \/ q >= 1
    BY <1>1, <2>1, <2>2, <2>3
  <2>5. \A k \in 1 .. m + 1 : q + k \in 1 .. Len(V) /\ from + (q + k) - 1 = p + k
    BY <1>1, <2>1, <2>2, <2>3
  <2>6. q + m + 1 <= Len(V)
    BY <1>1, <2>1, <2>2, <2>3
  <2>7. q >= 1 => q \in 1 .. Len(V) /\ V[q] = W[p]
    <3>1. q >= 1 => q \in 1 .. Len(V) /\ from + q - 1 = p
      BY <1>1, <2>4
    <3> QED
      BY <1>1, <3>1
  <2> HIDE DEF q, m
  <2>8. FrameBehind(V, q, n, E)
    <3>1. \A k \in 1 .. m + 1 : V[q + k] = W[p + k]
      BY <1>1, <2>5
    <3> QED
      BY <2>1, <2>2, <2>4, <2>6, <3>1, FrameMoved DEF m
  <2>9. BeginsBehind(V, 1, q, n)
    <3>1. CASE q = 0
      BY <3>1 DEF BeginsBehind
    <3>2. CASE q >= 1
      <4>1. p # from - 1
        BY <1>1, <2>1, <3>2 DEF q
      <4> QED
        BY <2>1, <2>7, <3>2, <4>1 DEF BeginsBehind
    <3> QED
      BY <2>4, <3>1, <3>2
  <2> QED
    BY <2>4, <2>8, <2>9 DEF E
<1>5. NextBegins(h, V, 1)
  <2> SUFFICES ASSUME Len(h.sent) + 1 \notin h.damaged, Len(V) # 0
               PROVE  V[Len(V)].b = 0 /\ V[Len(V)].of = Len(h.sent)
    BY <1>1 DEF NextBegins
  <2>1. Len(V) \in 1 .. Len(V) /\ from + Len(V) - 1 = L /\ from # L + 1
    BY <1>1
  <2>2. V[Len(V)] = W[L]
    BY <1>1, <2>1
  <2> QED
    BY <1>2, <2>1, <2>2 DEF NextBegins, L
<1> QED
  BY <1>3, <1>4, <1>5 DEF Pending

\* A fault at byte q does not touch a frame that can still be read, nor the
\* delimiter before it.
LEMMA NotSpoilt ==
    ASSUME NEW W \in Seq(OnLine), NEW q \in 1 .. Len(W), NEW later,
           Spoils(W[q]) \subseteq later.damaged,
           NEW n \in Nat, CanBeRead(later, n), NEW p \in Nat, BeginsBehind(W, 1, p, n),
           NEW E, Len(E) \in Nat, FrameBehind(W, p, n, E)
    PROVE  q < p \/ q > p + Len(E) + 1
<1> DEFINE m == Len(E)
<1>1. n \notin later.damaged
  BY DEF CanBeRead
<1>2. W[q].of \in later.damaged /\ (W[q].b = 0 => W[q].of + 1 \in later.damaged)
  BY DEF Spoils
<1>3. q # p
  <2> SUFFICES ASSUME q = p PROVE FALSE
    OBVIOUS
  <2>1. W[p].b = 0 /\ W[p].of = n - 1
    BY DEF BeginsBehind
  <2>2. (n - 1) + 1 = n
    OBVIOUS
  <2> QED
    BY <1>1, <1>2, <2>1, <2>2
<1>4. \A k \in 1 .. m + 1 : W[p + k].of = n
  BY DEF FrameBehind
<1>5. \A k \in 1 .. m + 1 : q # p + k
  BY <1>1, <1>2, <1>4
<1>6. m \in Nat /\ q \in Nat
  OBVIOUS
<1> HIDE DEF m
<1>7. q < p \/ q > p + m + 1
  <2>1. SUFFICES ASSUME q >= p, q <= p + m + 1 PROVE FALSE
    BY <1>6
  <2>2. q - p \in 1 .. m + 1 /\ q = p + (q - p)
    BY <1>3, <1>6, <2>1
  <2> QED
    BY <1>5, <2>2
<1> QED
  BY <1>7 DEF m

\* A byte is lost.
LEMMA Removed ==
    ASSUME NEW h \in Pasts, NEW later, Later(h, later), NEW got,
           NEW W \in Seq(OnLine), NEW V \in Seq(OnLine), NEW q \in 1 .. Len(W),
           Len(V) = Len(W) - 1, \A j \in 1 .. Len(V) : V[j] = IF j < q THEN W[j] ELSE W[j + 1],
           Spoils(W[q]) \subseteq later.damaged, Pending(h, W, 1, got)
    PROVE  Pending(later, V, 1, got)
<1> DEFINE L == Len(W)
           M == Len(V)
           s == [j \in 1 .. M |-> IF j < q THEN j ELSE j + 1]
<1>1. /\ L \in Nat /\ q \in Nat /\ q >= 1 /\ q <= L /\ M \in Nat /\ M = L - 1
      /\ \A j \in 1 .. M : V[j] = IF j < q THEN W[j] ELSE W[j + 1]
  OBVIOUS
<1>2. /\ NoneIsLost(h, W, 1, got) /\ InOrder(h, W, 1) /\ WasSent(h, W, 1)
      /\ Passed(h, W, 1, got) /\ Once(h, got) /\ NextBegins(h, W, 1)
  BY DEF Pending
<1>3. later.sent = h.sent /\ later.client = h.client /\ h.damaged \subseteq later.damaged
  BY DEF Later
<1> HIDE DEF L, M
<1>4. InOrder(later, V, 1) /\ WasSent(later, V, 1) /\ Passed(later, V, 1, got) /\ Once(later, got)
  <2>1. s \in [1 .. M -> 1 .. L]
    BY <1>1
  <2>2. /\ \A i, j \in 1 .. M : i < j => s[i] < s[j]
        /\ \A j \in 1 .. M : V[j] = W[s[j]]
    BY <1>1
  <2> HIDE DEF s
  <2>3. /\ \A j \in 1 .. M : V[j].of = W[s[j]].of
        /\ \A j \in 1 .. M : V[j].b = 0 => W[s[j]].b = 0 \/ V[j].of \in later.damaged
    BY <2>2
  <2>4. 1 \in Nat /\ Thins(s, V, W, 1, later.damaged)
    BY <1>1, <2>1, <2>2, <2>3 DEF Thins, L, M
  <2> QED
    BY <1>2, <2>4, Thinned
<1>5. NoneIsLost(later, V, 1, got)
  <2> SUFFICES ASSUME NEW n \in 1 .. Len(h.sent), CanBeRead(later, n), ~ IsDelivered(h, got, n)
               PROVE  \E p \in 1 - 1 .. M :
                         /\ BeginsBehind(V, 1, p, n)
                         /\ FrameBehind(V, p, n, CobsEncode(h.sent[n]))
    BY <1>3 DEF NoneIsLost, IsDelivered, M
  <2> DEFINE E == CobsEncode(h.sent[n])
             m == Len(E)
  <2>1. CanBeRead(h, n) /\ n \in Nat
    BY <1>3 DEF CanBeRead
  <2>2. PICK p \in 1 - 1 .. L : BeginsBehind(W, 1, p, n) /\ FrameBehind(W, p, n, E)
    BY <1>2, <2>1 DEF NoneIsLost, L
  <2>3. m \in Nat /\ p \in Nat
    BY PastFacts
  <2>4. p + m + 1 <= L
    BY <2>2 DEF FrameBehind, L
  <2>5. q < p \/ q > p + m + 1
    BY <2>1, <2>2, <2>3, NotSpoilt
  <2> HIDE DEF E
  <2>6. CASE q < p
    <3> DEFINE r == p - 1
    <3>1. r \in 1 - 1 .. M /\ r \in Nat /\ r + m + 1 <= M /\ r >= 1 /\ r + 1 = p
      BY <1>1, <2>2, <2>3, <2>4, <2>6
    <3>2. \A k \in 1 .. m + 1 : r + k \in 1 .. M /\ ~ (r + k < q) /\ (r + k) + 1 = p + k
      BY <1>1, <2>3, <2>4, <2>6
    <3>3. r \in 1 .. M /\ ~ (r < q)
      BY <1>1, <2>2, <2>3, <2>4, <2>6
    <3> HIDE DEF r, m
    <3>4. \A k \in 1 .. m + 1 : V[r + k] = W[p + k]
      BY <1>1, <3>2
    <3>5. V[r] = W[p]
      BY <1>1, <3>1, <3>3
    <3>6. FrameBehind(V, r, n, E)
      BY <2>2, <2>3, <3>1, <3>4, FrameMoved DEF m, M
    <3>7. BeginsBehind(V, 1, r, n)
      <4>1. p # 1 - 1
        BY <2>3, <3>1
      <4> QED
        BY <2>2, <3>1, <3>5, <4>1 DEF BeginsBehind
    <3> QED
      BY <3>1, <3>6, <3>7 DEF E
  <2>7. CASE q > p + m + 1
    <3>1. p \in 1 - 1 .. M /\ p + m + 1 <= M
      BY <1>1, <2>2, <2>3, <2>4, <2>7
    <3>2. \A k \in 1 .. m + 1 : p + k \in 1 .. M /\ p + k < q
      BY <1>1, <2>3, <2>4, <2>7
    <3>3. p >= 1 => p \in 1 .. M /\ p < q
      BY <1>1, <2>3, <2>4, <2>7
    <3> HIDE DEF m
    <3>4. \A k \in 1 .. m + 1 : V[p + k] = W[p + k]
      BY <1>1, <3>2
    <3>5. p >= 1 => V[p] = W[p]
      BY <1>1, <3>3
    <3>6. FrameBehind(V, p, n, E)
      BY <2>2, <2>3, <3>1, <3>4, FrameMoved DEF m, M
    <3>7. BeginsBehind(V, 1, p, n)
      BY <2>2, <3>5 DEF BeginsBehind
    <3> QED
      BY <3>1, <3>6, <3>7 DEF E
  <2> QED
    BY <2>5, <2>6, <2>7
<1>6. NextBegins(later, V, 1)
  <2> SUFFICES ASSUME Len(h.sent) + 1 \notin later.damaged, M # 0
               PROVE  V[M].b = 0 /\ V[M].of = Len(h.sent)
    BY <1>1, <1>3 DEF NextBegins, M
  <2>1. W[L].b = 0 /\ W[L].of = Len(h.sent)
    BY <1>1, <1>2, <1>3 DEF NextBegins, L
  <2>2. q # L
    BY <2>1 DEF Spoils
  <2>3. M \in 1 .. M /\ ~ (M < q) /\ M + 1 = L
    BY <1>1, <2>2
  <2> QED
    BY <1>1, <2>1, <2>3
<1> QED
  BY <1>4, <1>5, <1>6 DEF Pending

\* A byte is changed.
LEMMA Changed ==
    ASSUME NEW h \in Pasts, NEW later, Later(h, later), NEW got,
           NEW W \in Seq(OnLine), NEW V \in Seq(OnLine), NEW q \in 1 .. Len(W),
           Len(V) = Len(W), \A j \in 1 .. Len(W) : j # q => V[j] = W[j], V[q].of = W[q].of,
           Spoils(W[q]) \subseteq later.damaged, Pending(h, W, 1, got)
    PROVE  Pending(later, V, 1, got)
<1> DEFINE L == Len(W)
           s == [j \in 1 .. L |-> j]
<1>1. /\ L \in Nat /\ q \in Nat /\ q >= 1 /\ q <= L /\ Len(V) = L
      /\ \A j \in 1 .. L : j # q => V[j] = W[j]
  OBVIOUS
<1>2. /\ NoneIsLost(h, W, 1, got) /\ InOrder(h, W, 1) /\ WasSent(h, W, 1)
      /\ Passed(h, W, 1, got) /\ Once(h, got) /\ NextBegins(h, W, 1)
  BY DEF Pending
<1>3. /\ later.sent = h.sent /\ later.client = h.client /\ h.damaged \subseteq later.damaged
      /\ W[q].of \in later.damaged
  BY DEF Later, Spoils
<1> HIDE DEF L
<1>4. InOrder(later, V, 1) /\ WasSent(later, V, 1) /\ Passed(later, V, 1, got) /\ Once(later, got)
  <2>1. s \in [1 .. L -> 1 .. L] /\ \A j \in 1 .. L : s[j] = j
    BY <1>1
  <2> HIDE DEF s
  <2>2. /\ \A i, j \in 1 .. L : i < j => s[i] < s[j]
        /\ \A j \in 1 .. L : V[j].of = W[s[j]].of
    BY <1>1, <2>1
  <2>3. \A j \in 1 .. L : V[j].b = 0 => W[s[j]].b = 0 \/ V[j].of \in later.damaged
    BY <1>1, <1>3, <2>1
  <2>4. 1 \in Nat /\ Thins(s, V, W, 1, later.damaged)
    BY <1>1, <2>1, <2>2, <2>3 DEF Thins, L
  <2> QED
    BY <1>2, <2>4, Thinned
<1>5. NoneIsLost(later, V, 1, got)
  <2> SUFFICES ASSUME NEW n \in 1 .. Len(h.sent), CanBeRead(later, n), ~ IsDelivered(h, got, n)
               PROVE  \E p \in 1 - 1 .. L :
                         /\ BeginsBehind(V, 1, p, n)
                         /\ FrameBehind(V, p, n, CobsEncode(h.sent[n]))
    BY <1>1, <1>3 DEF NoneIsLost, IsDelivered
  <2> DEFINE E == CobsEncode(h.sent[n])
             m == Len(E)
  <2>1. CanBeRead(h, n) /\ n \in Nat
    BY <1>3 DEF CanBeRead
  <2>2. PICK p \in 1 - 1 .. L : BeginsBehind(W, 1, p, n) /\ FrameBehind(W, p, n, E)
    BY <1>2, <2>1 DEF NoneIsLost, L
  <2>3. m \in Nat /\ p \in Nat
    BY PastFacts
  <2>4. p + m + 1 <= L
    BY <2>2 DEF FrameBehind, L
  <2>5. q < p \/ q > p + m + 1
    BY <2>1, <2>2, <2>3, NotSpoilt
  <2> HIDE DEF E
  <2>6. \A k \in 1 .. m + 1 : p + k \in 1 .. L /\ p + k # q
    BY <1>1, <2>3, <2>4, <2>5
  <2>7. p >= 1 => p \in 1 .. L /\ p # q
    BY <1>1, <2>3, <2>4, <2>5
  <2> HIDE DEF m
  <2>8. \A k \in 1 .. m + 1 : V[p + k] = W[p + k]
    BY <1>1, <2>6
  <2>9. FrameBehind(V, p, n, E)
    BY <1>1, <2>2, <2>3, <2>4, <2>8, FrameMoved DEF m
  <2>10. BeginsBehind(V, 1, p, n)
    BY <1>1, <2>2, <2>7 DEF BeginsBehind
  <2> QED
    BY <2>2, <2>9, <2>10 DEF E
<1>6. NextBegins(later, V, 1)
  <2> SUFFICES ASSUME Len(h.sent) + 1 \notin later.damaged, L # 0
               PROVE  V[L].b = 0 /\ V[L].of = Len(h.sent)
    BY <1>1, <1>3 DEF NextBegins
  <2>1. W[L].b = 0 /\ W[L].of = Len(h.sent)
    BY <1>1, <1>2, <1>3 DEF NextBegins, L
  <2>2. q # L /\ L \in 1 .. L
    BY <1>1, <2>1 DEF Spoils
  <2> QED
    BY <1>1, <2>1, <2>2
<1> QED
  BY <1>4, <1>5, <1>6 DEF Pending

\* The first m bytes, none of them a delimiter, are thrown away.
LEMMA ThrownAway ==
    ASSUME NEW h \in Pasts, NEW later \in Pasts, Later(h, later), NEW got,
           NEW W \in Seq(OnLine), NEW m \in 1 .. Len(W),
           \A j \in 1 .. m : W[j].b # 0 /\ W[j].of \in later.damaged,
           Pending(h, W, 1, got)
    PROVE  Pending(later, W, m + 1, got)
<1>1. /\ NoneIsLost(h, W, 1, got) /\ InOrder(h, W, 1) /\ WasSent(h, W, 1)
      /\ Passed(h, W, 1, got) /\ Once(h, got) /\ NextBegins(h, W, 1)
  BY DEF Pending
<1>2. later.sent = h.sent /\ later.client = h.client /\ h.damaged \subseteq later.damaged
  BY DEF Later
<1>3. m \in Nat /\ Len(W) \in Nat /\ m >= 1 /\ 1 <= m + 1 /\ 1 <= Len(W) /\ m + 1 \in Nat
  OBVIOUS
<1>4. InOrder(h, W, m + 1) /\ WasSent(h, W, m + 1) /\ Passed(h, W, m + 1, got) /\ NextBegins(h, W, m + 1)
  BY <1>1, <1>3, StillInOrder
<1>5. NoneIsLost(later, W, m + 1, got)
  <2> SUFFICES ASSUME NEW n \in 1 .. Len(h.sent), CanBeRead(later, n), ~ IsDelivered(h, got, n)
               PROVE  \E p \in (m + 1) - 1 .. Len(W) :
                         /\ BeginsBehind(W, m + 1, p, n)
                         /\ FrameBehind(W, p, n, CobsEncode(h.sent[n]))
    BY <1>2 DEF NoneIsLost, IsDelivered
  <2>1. CanBeRead(h, n) /\ n \notin later.damaged
    BY <1>2 DEF CanBeRead
  <2> DEFINE E == CobsEncode(h.sent[n])
  <2>2. PICK p \in 1 - 1 .. Len(W) : BeginsBehind(W, 1, p, n) /\ FrameBehind(W, p, n, E)
    BY <1>1, <2>1 DEF NoneIsLost
  <2>3. Len(E) \in Nat
    BY PastFacts
  <2> HIDE DEF E
  <2>4. p # 0
    <3>1. 1 \in 1 .. Len(E) + 1
      BY <2>3
    <3>2. p = 0 => W[0 + 1].of = n
      BY <2>2, <3>1 DEF FrameBehind
    <3> QED
      BY <1>3, <2>1, <3>2
  <2>5. W[p].b = 0 /\ p >= 1 /\ W[p].of = n - 1
    BY <2>2, <2>4 DEF BeginsBehind
  <2>6. p >= m + 1
    BY <1>3, <2>5
  <2> QED
    BY <1>3, <2>2, <2>5, <2>6 DEF BeginsBehind, E
<1>6. InOrder(later, W, m + 1) /\ WasSent(later, W, m + 1)
  BY <1>2, <1>4 DEF InOrder, WasSent
<1>7. Passed(later, W, m + 1, got) /\ Once(later, got)
  BY <1>1, <1>2, <1>4 DEF Passed, Once
<1>8. NextBegins(later, W, m + 1)
  BY <1>2, <1>4 DEF NextBegins
<1> QED
  BY <1>5, <1>6, <1>7, <1>8 DEF Pending

\* Another frame is sent.
LEMMA Extended ==
    ASSUME NEW h \in Pasts, NEW packet \in Packets, NEW later \in Pasts,
           later.sent = Append(h.sent, packet), later.client = h.client,
           later.damaged = h.damaged, NEW got \in Seq(Packet), NEW W \in Seq(OnLine),
           Pending(h, W, 1, got)
    PROVE  Pending(later, W \o Frame(packet, Len(h.sent) + 1), 1, got)
<1> DEFINE L == Len(W)
           N == Len(h.sent)
           E == CobsEncode(packet)
           m == Len(E)
           F == Frame(packet, N + 1)
           V == W \o F
           sent1 == later.sent
<1>1. /\ L \in Nat /\ N \in Nat /\ N + 1 \in 1 .. MaxSent
      /\ sent1 = Append(h.sent, packet) /\ Len(sent1) = N + 1
      /\ sent1[N + 1] = packet /\ \A n \in 1 .. N : sent1[n] = h.sent[n]
  <2>1. h.sent \in Seq(Packets) /\ Len(sent1) <= MaxSent
    BY DEF Pasts
  <2>2. /\ Len(sent1) = N + 1 /\ sent1[N + 1] = packet
        /\ \A n \in 1 .. N : sent1[n] = h.sent[n]
    BY <2>1, AppendProperties
  <2>3. N \in Nat
    BY <2>1
  <2>4. MaxSent \in Nat
    BY LineAssumption
  <2> HIDE DEF N, sent1
  <2> QED
    BY <2>1, <2>2, <2>3, <2>4 DEF sent1
<1>2. /\ E \in Seq(NonZero) /\ m \in Nat
      /\ F \in Seq(OnLine) /\ Len(F) = m + 1
      /\ \A k \in 1 .. m : F[k].b = E[k]
      /\ F[m + 1].b = 0
      /\ \A k \in 1 .. m + 1 : F[k].of = N + 1
  BY <1>1, FrameFacts
<1>3. \A k \in 1 .. m : E[k] # 0
  <2>1. \A k \in 1 .. m : E[k] \in NonZero
    BY <1>2
  <2>2. \A e \in NonZero : e # 0
    BY FullAssumption DEF NonZero
  <2> QED
    BY <2>1, <2>2
<1> HIDE DEF F
<1>4. /\ V \in Seq(OnLine) /\ Len(V) = L + m + 1
      /\ \A j \in 1 .. L : V[j] = W[j]
      /\ \A k \in 1 .. m + 1 : V[L + k] = F[k]
  <2>1. /\ V \in Seq(OnLine) /\ Len(V) = L + Len(F)
        /\ \A j \in 1 .. L + Len(F) : V[j] = IF j <= L THEN W[j] ELSE F[j - L]
    BY <1>2, ConcatProperties
  <2> HIDE DEF V, L, m
  <2>2. Len(V) = L + m + 1
    BY <1>1, <1>2, <2>1
  <2>3. \A j \in 1 .. L : V[j] = W[j]
    BY <1>1, <1>2, <2>1
  <2>4. \A k \in 1 .. m + 1 : L + k \in 1 .. L + Len(F) /\ ~ (L + k <= L) /\ (L + k) - L = k
    BY <1>1, <1>2
  <2> QED
    BY <2>1, <2>2, <2>3, <2>4
<1>5. /\ NoneIsLost(h, W, 1, got) /\ InOrder(h, W, 1) /\ WasSent(h, W, 1)
      /\ Passed(h, W, 1, got) /\ Once(h, got) /\ NextBegins(h, W, 1)
  BY DEF Pending
<1> HIDE DEF V, L, N, E, m, sent1
<1>6. \A j \in 1 .. L : W[j].of \in Nat /\ W[j].of <= N
  BY <1>5, LineByte DEF WasSent, L, N
<1>7. \A j \in 1 .. L + m + 1 : j \in 1 .. L \/ \E k \in 1 .. m + 1 : j = L + k
  <2> SUFFICES ASSUME NEW j \in 1 .. L + m + 1, j \notin 1 .. L
               PROVE  \E k \in 1 .. m + 1 : j = L + k
    OBVIOUS
  <2>1. j - L \in 1 .. m + 1 /\ j = L + (j - L)
    BY <1>1, <1>2
  <2> QED
    BY <2>1
<1>8. \A j \in 1 .. L + m + 1 : j \notin 1 .. L => V[j].of = N + 1
  <2> SUFFICES ASSUME NEW j \in 1 .. L + m + 1, j \notin 1 .. L PROVE V[j].of = N + 1
    OBVIOUS
  <2>1. PICK k \in 1 .. m + 1 : j = L + k
    BY <1>7
  <2>2. V[j] = F[k]
    BY <1>4, <2>1
  <2> QED
    BY <1>2, <2>2
<1>9. L \in Nat /\ m \in Nat /\ N \in Nat
  BY <1>1, <1>2
<1>10. NoneIsLost(later, V, 1, got)
  <2> SUFFICES ASSUME NEW n \in 1 .. N + 1, CanBeRead(later, n), ~ IsDelivered(later, got, n)
               PROVE  \E p \in 1 - 1 .. L + m + 1 :
                         /\ BeginsBehind(V, 1, p, n)
                         /\ FrameBehind(V, p, n, CobsEncode(sent1[n]))
    BY <1>1, <1>4 DEF NoneIsLost, sent1
  <2>1. CASE n = N + 1
    <3>1. L \in 1 - 1 .. L + m + 1 /\ L + m + 1 <= Len(V)
      BY <1>1, <1>2, <1>4
    <3>2. FrameBehind(V, L, n, E)
      <4>1. \A k \in 1 .. m : k \in 1 .. m + 1
        BY <1>2
      <4>2. m + 1 \in 1 .. m + 1 /\ L + (m + 1) = L + m + 1
        BY <1>1, <1>2
      <4>3. \A k \in 1 .. m : V[L + k].b = E[k]
        BY <1>2, <1>4, <4>1
      <4>4. V[L + m + 1].b = 0
        BY <1>2, <1>4, <4>2
      <4>5. \A k \in 1 .. m + 1 : V[L + k].of = n
        BY <1>2, <1>4, <2>1
      <4> QED
        BY <3>1, <4>3, <4>4, <4>5 DEF FrameBehind, m
    <3>3. BeginsBehind(V, 1, L, n)
      <4>1. CASE L = 0
        BY <4>1 DEF BeginsBehind
      <4>2. CASE L # 0
        <5>1. N + 1 \notin h.damaged
          BY <2>1 DEF CanBeRead
        <5>2. W[L].b = 0 /\ W[L].of = N
          BY <1>1, <1>5, <4>2, <5>1 DEF NextBegins, L, N
        <5>3. L \in 1 .. L /\ L >= 1 /\ N = n - 1
          BY <1>1, <2>1, <4>2
        <5> QED
          BY <1>4, <5>2, <5>3 DEF BeginsBehind
      <4> QED
        BY <4>1, <4>2
    <3> QED
      BY <1>1, <2>1, <3>1, <3>2, <3>3 DEF E
  <2>2. CASE n # N + 1
    <3>1. n \in 1 .. N /\ sent1[n] = h.sent[n]
      BY <1>1, <2>2
    <3>2. CanBeRead(h, n) /\ ~ IsDelivered(h, got, n)
      BY <3>1 DEF CanBeRead, IsDelivered, sent1
    <3> DEFINE e == CobsEncode(h.sent[n])
    <3>3. PICK p \in 1 - 1 .. L : BeginsBehind(W, 1, p, n) /\ FrameBehind(W, p, n, e)
      BY <1>5, <3>1, <3>2 DEF NoneIsLost, L, N
    <3>4. Len(e) \in Nat /\ p \in Nat
      BY <3>1, PastFacts DEF N
    <3>5. p + Len(e) + 1 <= L
      BY <3>3 DEF FrameBehind, L
    <3> HIDE DEF e
    <3>6. p + Len(e) + 1 <= Len(V) /\ p \in 1 - 1 .. L + m + 1
      BY <1>1, <1>2, <1>4, <3>3, <3>4, <3>5
    <3>7. \A k \in 1 .. Len(e) + 1 : p + k \in 1 .. L
      BY <1>1, <3>4, <3>5
    <3>8. FrameBehind(V, p, n, e)
      BY <1>4, <3>3, <3>4, <3>6, <3>7, FrameMoved
    <3>9. BeginsBehind(V, 1, p, n)
      <4>1. p >= 1 => p \in 1 .. L
        BY <3>4
      <4> QED
        BY <1>4, <3>3, <4>1 DEF BeginsBehind
    <3> QED
      BY <3>1, <3>6, <3>8, <3>9 DEF e
  <2> QED
    BY <2>1, <2>2
<1>11. InOrder(later, V, 1)
  <2> SUFFICES ASSUME NEW i \in 1 .. L + m + 1, NEW j \in 1 .. L + m + 1, i < j
               PROVE  /\ V[i].of <= V[j].of
                      /\ (V[i].b = 0 /\ V[i].of = V[j].of) => V[i].of \in h.damaged
    BY <1>4 DEF InOrder
  <2>1. CASE i \in 1 .. L /\ j \in 1 .. L
    BY <1>4, <1>5, <2>1 DEF InOrder, L
  <2>2. CASE i \in 1 .. L /\ j \notin 1 .. L
    <3>1. V[j].of = N + 1
      BY <1>8, <2>2
    <3> QED
      BY <1>1, <1>4, <1>6, <2>2, <3>1
  <2>3. CASE i \notin 1 .. L
    <3>1. PICK k \in 1 .. m + 1 : i = L + k
      BY <1>7, <2>3
    <3>2. j \notin 1 .. L /\ k \in 1 .. m
      BY <1>9, <3>1
    <3>3. V[i].of = N + 1 /\ V[j].of = N + 1
      BY <1>8, <2>3, <3>2
    <3>4. V[i].b # 0
      BY <1>2, <1>3, <1>4, <3>1, <3>2
    <3> QED
      BY <1>1, <3>3, <3>4
  <2> QED
    BY <2>1, <2>2, <2>3
<1>12. WasSent(later, V, 1)
  <2> SUFFICES ASSUME NEW j \in 1 .. L + m + 1 PROVE V[j].of <= N + 1
    BY <1>1, <1>4 DEF WasSent, sent1
  <2>1. CASE j \in 1 .. L
    <3>1. V[j].of = W[j].of
      BY <1>4, <2>1
    <3>2. W[j].of \in Nat /\ W[j].of <= N
      BY <1>6, <2>1
    <3> QED
      BY <1>9, <3>1, <3>2
  <2>2. CASE j \notin 1 .. L
    BY <1>8, <1>9, <2>2
  <2> QED
    BY <2>1, <2>2
<1>13. Passed(later, V, 1, got)
  <2> SUFFICES ASSUME NEW k \in 1 .. Len(got)
               PROVE  /\ got[k].of <= N + 1
                      /\ \A j \in 1 .. L + m + 1 :
                            got[k].of < V[j].of \/ (got[k].of = V[j].of /\ got[k].of \in h.damaged)
    BY <1>1, <1>4 DEF Passed, sent1
  <2>1. got[k].of \in Nat /\ got[k].of <= N
    <3>1. got[k] \in Packet
      OBVIOUS
    <3> QED
      BY <1>5, <3>1, LineAssumption DEF Packet, Passed, N
  <2>2. ASSUME NEW j \in 1 .. L + m + 1
        PROVE  got[k].of < V[j].of \/ (got[k].of = V[j].of /\ got[k].of \in h.damaged)
    <3>1. CASE j \in 1 .. L
      BY <1>4, <1>5, <3>1 DEF Passed, L
    <3>2. CASE j \notin 1 .. L
      <4>1. V[j].of = N + 1
        BY <1>8, <3>2
      <4> QED
        BY <1>1, <2>1, <4>1
    <3> QED
      BY <3>1, <3>2
  <2> QED
    BY <1>1, <2>1, <2>2
<1>14. Once(later, got)
  BY <1>5 DEF Once
<1>15. NextBegins(later, V, 1)
  <2>1. m + 1 \in 1 .. m + 1 /\ L + (m + 1) = L + m + 1
    BY <1>9
  <2>2. V[L + m + 1].b = 0 /\ V[L + m + 1].of = N + 1
    BY <1>2, <1>4, <2>1
  <2> QED
    BY <1>1, <1>4, <2>2 DEF NextBegins, sent1
<1>16. Pending(later, V, 1, got)
  BY <1>10, <1>11, <1>12, <1>13, <1>14, <1>15 DEF Pending
<1> QED
  BY <1>16 DEF V, F, N

-----------------------------------------------------------------------------
(* The receivers.                                                           *)

LEMMA Joined ==
    ASSUME NEW a \in Seq(OnLine), NEW b \in Seq(OnLine)
    PROVE  /\ a \o b \in Seq(OnLine) /\ Len(a \o b) = Len(a) + Len(b)
           /\ \A j \in 1 .. Len(a) : (a \o b)[j] = a[j]
           /\ \A j \in 1 .. Len(b) : (a \o b)[Len(a) + j] = b[j]
<1> DEFINE c == a \o b
           m == Len(a)
           n == Len(b)
<1>1. m \in Nat /\ n \in Nat
  OBVIOUS
<1>2. /\ c \in Seq(OnLine) /\ Len(c) = m + n
      /\ \A j \in 1 .. m + n : c[j] = IF j <= m THEN a[j] ELSE b[j - m]
  BY ConcatProperties
<1> HIDE DEF c, m, n
<1>3. \A j \in 1 .. m : j \in 1 .. m + n /\ j <= m
  BY <1>1
<1>4. \A j \in 1 .. n : m + j \in 1 .. m + n /\ ~ (m + j <= m) /\ (m + j) - m = j
  BY <1>1
<1>5. (\A j \in 1 .. m : c[j] = a[j]) /\ \A j \in 1 .. n : c[m + j] = b[j]
  BY <1>2, <1>3, <1>4
<1> QED
  BY <1>2, <1>5 DEF c, m, n

\* Nothing that was delivered is taken back.
GrowsTo(first, got) ==
    Len(first) <= Len(got) /\ \A k \in 1 .. Len(first) : got[k] = first[k]

LEMMA GrowsByOne ==
    ASSUME NEW first \in Seq(Packet), NEW got \in Seq(Packet), GrowsTo(first, got),
           NEW packet \in Packet
    PROVE  GrowsTo(first, Append(got, packet))
<1>1. Len(first) \in Nat /\ Len(got) \in Nat
  OBVIOUS
<1>2. /\ Len(Append(got, packet)) = Len(got) + 1
      /\ \A k \in 1 .. Len(got) : Append(got, packet)[k] = got[k]
  BY AppendProperties
<1>3. Len(first) <= Len(got) /\ \A k \in 1 .. Len(first) : k \in 1 .. Len(got) /\ got[k] = first[k]
  BY <1>1 DEF GrowsTo
<1> QED
  BY <1>1, <1>2, <1>3 DEF GrowsTo

LEMMA DeliversMore ==
    ASSUME NEW W \in Seq(OnLine), NEW from \in Nat \ {0}, NEW i \in Nat, from <= i + 1,
           i + 1 <= Len(W), \A j \in from .. i : W[j].b # 0,
           NEW first \in Seq(Packet), NEW got \in Seq(Packet), GrowsTo(first, got)
    PROVE  GrowsTo(first, Delivers(W, from, i, got))
<1> DEFINE decoded == PyDecode(Bytes(SubSeq(W, from, i)))
           packet == [data |-> decoded, of |-> W[i + 1].of]
<1>1. i <= Len(W) /\ i + 1 \in 1 .. Len(W)
  OBVIOUS
<1>2. decoded \in Seq(Byte)
  <2>1. Bytes(SubSeq(W, from, i)) \in Seq(NonZero)
    BY <1>1, Cut
  <2> QED
    BY <2>1, SameDecoding
<1>3. packet \in Packet
  BY <1>1, <1>2, LineByte DEF Packet
<1>4. Delivers(W, from, i, got) = got \/ Delivers(W, from, i, got) = Append(got, packet)
  BY DEF Delivers
<1> HIDE DEF packet
<1> QED
  BY <1>3, <1>4, GrowsByOne

\* What receiveBytes() holds when it has read the bytes up to i; `first' had
\* been delivered before the chunk.
JsAt(first, h, W, i) ==
    {r \in [acc : Seq(OnLine), got : Seq(Packet)] :
        \E from \in 1 .. i + 1 :
            /\ r.acc = SubSeq(W, from, i) /\ i + 1 - from <= MaxAccumulator
            /\ Scanned(h, W, from, i, r.got)
            /\ GrowsTo(first, r.got)}

JsStep(r, t) == IF t.b = 0 THEN JsDelimiter(r, t.of) ELSE JsData(r, t)

LEMMA InJsAt ==
    ASSUME NEW h, NEW W, NEW i \in Nat, NEW from \in 1 .. i + 1,
           NEW acc \in Seq(OnLine), NEW got \in Seq(Packet),
           acc = SubSeq(W, from, i), i + 1 - from <= MaxAccumulator, Scanned(h, W, from, i, got),
           NEW first, GrowsTo(first, got)
    PROVE  [acc |-> acc, got |-> got] \in JsAt(first, h, W, i)
BY DEF JsAt

LEMMA EmptyAt ==
    ASSUME NEW h, NEW W, NEW i \in Nat, NEW got \in Seq(Packet), Scanned(h, W, i + 2, i + 1, got),
           NEW first, GrowsTo(first, got)
    PROVE  [acc |-> <<>>, got |-> got] \in JsAt(first, h, W, i + 1)
<1> DEFINE k == i + 1
           from == i + 2
<1>1. k \in Nat /\ from \in 1 .. k + 1 /\ k + 1 - from = 0 /\ from \in Int /\ k \in Int /\ k < from
  OBVIOUS
<1>2. Scanned(h, W, from, k, got)
  OBVIOUS
<1> HIDE DEF k, from
<1>3. <<>> = SubSeq(W, from, k) /\ <<>> \in Seq(OnLine)
  BY <1>1, SubSeqEmpty
<1>4. k + 1 - from <= MaxAccumulator
  BY <1>1, AccumulatorAssumption
<1>5. [acc |-> <<>>, got |-> got] \in JsAt(first, h, W, k)
  BY <1>1, <1>2, <1>3, <1>4, InJsAt
<1> QED
  BY <1>5 DEF k

LEMMA JsByte ==
    ASSUME NEW h \in Pasts, h.client = "js", NEW W \in Seq(OnLine), NEW i \in Nat, i + 1 <= Len(W),
           NEW first \in Seq(Packet), NEW r \in JsAt(first, h, W, i)
    PROVE  JsStep(r, W[i + 1]) \in JsAt(first, h, W, i + 1)
<1> DEFINE t == W[i + 1]
<1>1. PICK from \in 1 .. i + 1 : /\ r.acc = SubSeq(W, from, i) /\ i + 1 - from <= MaxAccumulator
                                /\ Scanned(h, W, from, i, r.got) /\ GrowsTo(first, r.got)
  BY DEF JsAt
<1>2. /\ r \in [acc : Seq(OnLine), got : Seq(Packet)] /\ r.acc \in Seq(OnLine) /\ r.got \in Seq(Packet)
  BY DEF JsAt
<1>3. /\ from \in Nat \ {0} /\ from <= i + 1 /\ i <= Len(W) /\ i + 1 \in Nat
      /\ i + 1 \in 1 .. Len(W) /\ from \in 1 .. (i + 1) + 1
  BY <1>1
<1>4. /\ \A j \in from .. i : W[j].b # 0
      /\ t \in OnLine
  BY <1>1, <1>3 DEF Scanned
<1>5. /\ Len(r.acc) = i + 1 - from
      /\ Bytes(r.acc) \in Seq(NonZero)
  <2>1. /\ Len(SubSeq(W, from, i)) = i + 1 - from
        /\ Bytes(SubSeq(W, from, i)) \in Seq(NonZero)
    BY <1>3, <1>4, Cut
  <2> QED
    BY <1>1, <2>1
<1>6. CASE t.b = 0
  <2>1. JsDelimiter(r, t.of) = [acc |-> <<>>, got |-> Delivers(W, from, i, r.got)]
    <3>1. JsDecode(Bytes(r.acc)) = PyDecode(Bytes(SubSeq(W, from, i)))
      BY <1>1, <1>5, SameDecoding
    <3> QED
      BY <3>1 DEF JsDelimiter, Delivers
  <2>2. Scanned(h, W, i + 2, i + 1, Delivers(W, from, i, r.got))
    BY <1>1, <1>6, ZeroScanned
  <2>3. Delivers(W, from, i, r.got) \in Seq(Packet)
    BY <2>2 DEF Scanned
  <2>4. GrowsTo(first, Delivers(W, from, i, r.got))
    BY <1>1, <1>2, <1>3, <1>4, DeliversMore
  <2>5. [acc |-> <<>>, got |-> Delivers(W, from, i, r.got)] \in JsAt(first, h, W, i + 1)
    BY <2>2, <2>3, <2>4, EmptyAt
  <2> QED
    BY <1>6, <2>1, <2>5 DEF JsStep
<1>7. CASE t.b # 0 /\ Len(r.acc) < MaxAccumulator
  <2>1. JsData(r, t) = [acc |-> Append(r.acc, t), got |-> r.got]
    <3>1. \A a : [r EXCEPT !.acc = a] = [acc |-> a, got |-> r.got]
      BY <1>2
    <3>2. JsData(r, t) = [r EXCEPT !.acc = Append(r.acc, t)]
      BY <1>7, Zenon DEF JsData
    <3> QED
      BY <3>1, <3>2, Zenon
  <2>2. Append(r.acc, t) = SubSeq(W, from, i + 1) /\ Append(r.acc, t) \in Seq(OnLine)
    <3>1. SubSeq(W, from, i + 1) = SubSeq(W, from, i) \o <<t>>
      BY <1>3, LongerPiece
    <3>2. Append(r.acc, t) = r.acc \o <<t>>
      BY <1>2, <1>4, AppendIsConcat
    <3>3. Append(r.acc, t) \in Seq(OnLine)
      BY <1>2, <1>4, AppendProperties
    <3> QED
      BY <1>1, <3>1, <3>2, <3>3
  <2>3. Scanned(h, W, from, i + 1, r.got)
    BY <1>1, <1>7, OtherScanned
  <2>4. (i + 1) + 1 - from <= MaxAccumulator
    BY <1>3, <1>5, <1>7, AccumulatorAssumption
  <2> QED
    <3>1. [acc |-> Append(r.acc, t), got |-> r.got] \in JsAt(first, h, W, i + 1)
      BY <1>1, <1>2, <1>3, <2>2, <2>3, <2>4, InJsAt
    <3> QED
      BY <1>7, <2>1, <3>1 DEF JsStep
<1>8. CASE t.b # 0 /\ ~ (Len(r.acc) < MaxAccumulator)
  <2>1. JsData(r, t) = [acc |-> <<>>, got |-> r.got]
    BY <1>2, <1>8 DEF JsData
  <2>2. i + 1 - from >= MaxAccumulator
    BY <1>3, <1>5, <1>8, AccumulatorAssumption
  <2>3. Scanned(h, W, i + 2, i + 1, r.got)
    BY <1>1, <1>8, <2>2, OverrunScanned
  <2> QED
    <3>1. [acc |-> <<>>, got |-> r.got] \in JsAt(first, h, W, i + 1)
      BY <1>1, <1>2, <2>3, EmptyAt
    <3> QED
      BY <1>8, <2>1, <3>1 DEF JsStep
<1> QED
  BY <1>6, <1>7, <1>8

\* What receive_bytes() holds when it has looked at the bytes up to i.
PyAt(first, h, W, i) ==
    {r \in [from : Nat, got : Seq(Packet)] :
        Scanned(h, W, r.from, i, r.got) /\ GrowsTo(first, r.got)}

PyStep(r, buffer, i) == IF buffer[i].b = 0 THEN PyDelimiter(r, buffer, i) ELSE r

LEMMA PyByte ==
    ASSUME NEW h \in Pasts, NEW W \in Seq(OnLine), NEW i \in Nat, i + 1 <= Len(W),
           NEW buffer \in Seq(OnLine), i + 1 <= Len(buffer),
           \A j \in 1 .. i + 1 : buffer[j] = W[j],
           NEW first \in Seq(Packet), NEW r \in PyAt(first, h, W, i)
    PROVE  PyStep(r, buffer, i + 1) \in PyAt(first, h, W, i + 1)
<1>1. /\ Scanned(h, W, r.from, i, r.got) /\ r.from \in Nat
      /\ r.got \in Seq(Packet) /\ GrowsTo(first, r.got)
  BY DEF PyAt
<1>2. /\ r.from \in Nat \ {0} /\ r.from <= i + 1 /\ i <= Len(W) /\ i <= Len(buffer)
      /\ i + 1 \in 1 .. i + 1 /\ (i + 1) - 1 = i /\ (i + 1) + 1 = i + 2 /\ i + 2 \in Nat
  BY <1>1 DEF Scanned
<1>3. buffer[i + 1] = W[i + 1]
  BY <1>2
<1>4. CASE W[i + 1].b = 0
  <2>1. SubSeq(buffer, r.from, i) = SubSeq(W, r.from, i)
    <3>1. \A j \in r.from .. i : buffer[j] = W[j]
      BY <1>2
    <3> DEFINE from == r.from
    <3>2. from \in Nat \ {0} /\ from <= i + 1 /\ i <= Len(W) /\ i <= Len(buffer)
      BY <1>2
    <3>3. \A j \in from .. i : buffer[j] = W[j]
      BY <3>1
    <3> HIDE DEF from
    <3>4. SubSeq(buffer, from, i) = SubSeq(W, from, i)
      BY <3>2, <3>3, SamePiece
    <3> QED
      BY <3>4 DEF from
  <2>2. PyDelimiter(r, buffer, i + 1) = [from |-> i + 2, got |-> Delivers(W, r.from, i, r.got)]
    <3>1. buffer[i + 1] = W[i + 1] /\ (i + 1) - 1 = i /\ (i + 1) + 1 = i + 2
      BY <1>2, <1>3
    <3> QED
      BY <2>1, <3>1 DEF PyDelimiter, Delivers
  <2>3. Scanned(h, W, i + 2, i + 1, Delivers(W, r.from, i, r.got))
    BY <1>1, <1>4, ZeroScanned
  <2>4. Delivers(W, r.from, i, r.got) \in Seq(Packet)
    BY <2>3 DEF Scanned
  <2>5. GrowsTo(first, Delivers(W, r.from, i, r.got))
    <3>1. \A j \in r.from .. i : W[j].b # 0
      BY <1>1 DEF Scanned
    <3> QED
      BY <1>1, <1>2, <3>1, DeliversMore
  <2> QED
    BY <1>2, <1>3, <1>4, <2>2, <2>3, <2>4, <2>5 DEF PyAt, PyStep
<1>5. CASE W[i + 1].b # 0
  <2>1. Scanned(h, W, r.from, i + 1, r.got)
    BY <1>1, <1>5, OtherScanned
  <2> QED
    BY <1>1, <1>3, <1>5, <2>1 DEF PyAt, PyStep
<1> QED
  BY <1>4, <1>5

\* receiveBytes() comes to the end of a chunk.
LEMMA JsReceived ==
    ASSUME NEW h \in Pasts, h.client = "js", NEW W \in Seq(OnLine), NEW R \in Nat, NEW n \in Nat,
           R + n <= Len(W), NEW chunk, \A i \in 1 .. n : chunk[i] = W[R + i],
           NEW first \in Seq(Packet), NEW base \in JsAt(first, h, W, R)
    PROVE  LET received[i \in 0 .. n] ==
                  IF i = 0 THEN base
                  ELSE IF chunk[i].b = 0 THEN JsDelimiter(received[i - 1], chunk[i].of)
                  ELSE JsData(received[i - 1], chunk[i])
           IN received[n] \in JsAt(first, h, W, R + n)
<1> DEFINE S == [acc : Seq(OnLine), got : Seq(Packet)]
           Good == [i \in 0 .. n |-> JsAt(first, h, W, R + i)]
           Step == [i \in 1 .. n |-> [r \in S |-> JsStep(r, chunk[i])]]
           Def(g) == [i \in 0 .. n |->
                         IF i = 0 THEN base
                         ELSE IF chunk[i].b = 0 THEN JsDelimiter(g[i - 1], chunk[i].of)
                         ELSE JsData(g[i - 1], chunk[i])]
           received == CHOOSE g : g = Def(g)
<1>1. ASSUME NEW i \in 1 .. n, NEW r \in JsAt(first, h, W, R + (i - 1))
      PROVE  JsStep(r, chunk[i]) \in JsAt(first, h, W, R + i)
  <2> DEFINE k == R + (i - 1)
  <2>1. k \in Nat /\ k + 1 <= Len(W) /\ R + i = k + 1
    OBVIOUS
  <2>2. chunk[i] = W[k + 1]
    BY <2>1
  <2> HIDE DEF k
  <2>3. r \in JsAt(first, h, W, k)
    BY <1>1 DEF k
  <2> QED
    BY <2>1, <2>2, <2>3, JsByte
<1>2. \A i : JsAt(first, h, W, i) \subseteq S
  BY DEF JsAt
<1>3. /\ Good \in [0 .. n -> SUBSET S] /\ base \in Good[0]
      /\ \A i \in 1 .. n : \A x \in Good[i - 1] : Step[i][x] \in Good[i]
  <2>1. Good \in [0 .. n -> SUBSET S]
    BY <1>2
  <2>2. base \in Good[0]
    <3>1. R + 0 = R /\ 0 \in 0 .. n
      OBVIOUS
    <3> QED
      BY <3>1
  <2>3. ASSUME NEW i \in 1 .. n, NEW x \in Good[i - 1] PROVE Step[i][x] \in Good[i]
    <3>1. i - 1 \in 0 .. n /\ i \in 0 .. n
      OBVIOUS
    <3>2. x \in JsAt(first, h, W, R + (i - 1)) /\ Good[i] = JsAt(first, h, W, R + i)
      BY <2>3, <3>1
    <3>3. Step[i][x] = JsStep(x, chunk[i])
      BY <1>2, <3>2
    <3> HIDE DEF Good, Step
    <3> QED
      BY <1>1, <3>2, <3>3
  <2> QED
    BY <2>1, <2>2, <2>3
<1>4. PICK f : IsRecursion(f, n, S, base, Step) /\ \A i \in 0 .. n : f[i] \in Good[i]
  <2> HIDE DEF S, Good, Step
  <2> QED
    BY <1>3, RecursionKeeps
<1>5. ASSUME NEW i \in 1 .. n PROVE f[i] = JsStep(f[i - 1], chunk[i])
  <2>1. f[i] = Step[i][f[i - 1]]
    BY <1>4, Zenon DEF IsRecursion
  <2>2. i - 1 \in 0 .. n
    OBVIOUS
  <2>3. f[i - 1] \in S
    BY <1>2, <1>4, <2>2
  <2>4. Step[i] = [r \in S |-> JsStep(r, chunk[i])]
    OBVIOUS
  <2> HIDE DEF Step, S
  <2> QED
    BY <2>1, <2>3, <2>4
<1>6. f = Def(f)
  <2>1. f = [i \in 0 .. n |-> f[i]] /\ f[0] = base
    BY <1>4, Zenon DEF IsRecursion
  <2>2. ASSUME NEW i \in 0 .. n PROVE f[i] = Def(f)[i]
    <3>1. CASE i = 0
      BY <2>1, <3>1
    <3>2. CASE i \in 1 .. n
      BY <1>5, <3>2 DEF JsStep
    <3> QED
      BY <3>1, <3>2
  <2> QED
    BY <2>1, <2>2
<1>7. received = Def(received)
  <2> HIDE DEF Def
  <2> QED
    BY <1>6, Zenon
<1> HIDE DEF received
<1>8. received[0] = base /\ \A i \in 1 .. n : received[i] = JsStep(received[i - 1], chunk[i])
  <2>1. \A i : received[i] = Def(received)[i]
    <3> HIDE DEF Def
    <3> QED
      BY <1>7
  <2>2. Def(received)[0] = base
    OBVIOUS
  <2>3. \A i \in 1 .. n : Def(received)[i] = JsStep(received[i - 1], chunk[i])
    BY DEF JsStep
  <2> HIDE DEF Def
  <2> QED
    BY <2>1, <2>2, <2>3
<1> HIDE DEF S, Good, Step, Def
<1> DEFINE T == {i \in Nat : i <= n => received[i] \in JsAt(first, h, W, R + i)}
<1>9. 0 \in T
  <2>1. R + 0 = R
    OBVIOUS
  <2> QED
    BY <1>8, <2>1
<1>10. ASSUME NEW i \in Nat, i \in T PROVE i + 1 \in T
  <2> SUFFICES ASSUME i + 1 <= n PROVE received[i + 1] \in JsAt(first, h, W, R + (i + 1))
    OBVIOUS
  <2>1. i + 1 \in 1 .. n /\ (i + 1) - 1 = i /\ i <= n
    OBVIOUS
  <2>2. received[i] \in JsAt(first, h, W, R + ((i + 1) - 1))
    BY <1>10, <2>1
  <2>3. JsStep(received[i], chunk[i + 1]) \in JsAt(first, h, W, R + (i + 1))
    BY <1>1, <2>1, <2>2
  <2> QED
    BY <1>8, <2>1, <2>3
<1>11. n \in T
  <2> HIDE DEF T
  <2> QED
    BY <1>9, <1>10, NatSetInduction
<1>12. received[n] \in JsAt(first, h, W, R + n)
  BY <1>11
<1> QED
  BY <1>12, Zenon DEF received, Def

\* receive_bytes() comes to the end of its buffer.
LEMMA PyReceived ==
    ASSUME NEW h \in Pasts, NEW W \in Seq(OnLine), NEW buffer \in Seq(OnLine),
           Len(buffer) <= Len(W), \A j \in 1 .. Len(buffer) : buffer[j] = W[j],
           NEW first \in Seq(Packet), NEW base \in PyAt(first, h, W, 0)
    PROVE  LET received[i \in 0 .. Len(buffer)] ==
                  IF i = 0 THEN base
                  ELSE IF buffer[i].b = 0 THEN PyDelimiter(received[i - 1], buffer, i)
                  ELSE received[i - 1]
           IN received[Len(buffer)] \in PyAt(first, h, W, Len(buffer))
<1> DEFINE n == Len(buffer)
           S == [from : Nat, got : Seq(Packet)]
           Good == [i \in 0 .. n |-> PyAt(first, h, W, i)]
           Step == [i \in 1 .. n |-> [r \in S |-> PyStep(r, buffer, i)]]
           Def(g) == [i \in 0 .. n |->
                         IF i = 0 THEN base
                         ELSE IF buffer[i].b = 0 THEN PyDelimiter(g[i - 1], buffer, i)
                         ELSE g[i - 1]]
           received == CHOOSE g : g = Def(g)
<1>1. n \in Nat /\ Len(W) \in Nat
  OBVIOUS
<1>2. ASSUME NEW i \in 1 .. n, NEW r \in PyAt(first, h, W, i - 1)
      PROVE  PyStep(r, buffer, i) \in PyAt(first, h, W, i)
  <2> DEFINE k == i - 1
  <2>1. k \in Nat /\ k + 1 <= Len(W) /\ k + 1 <= n /\ i = k + 1
    BY <1>1
  <2>2. \A j \in 1 .. k + 1 : buffer[j] = W[j]
    BY <1>1, <2>1
  <2> HIDE DEF k
  <2>3. r \in PyAt(first, h, W, k)
    BY <1>2 DEF k
  <2> QED
    BY <2>1, <2>2, <2>3, PyByte
<1> HIDE DEF n
<1>3. \A i : PyAt(first, h, W, i) \subseteq S
  BY DEF PyAt
<1>4. /\ Good \in [0 .. n -> SUBSET S] /\ base \in Good[0]
      /\ \A i \in 1 .. n : \A x \in Good[i - 1] : Step[i][x] \in Good[i]
  <2>1. Good \in [0 .. n -> SUBSET S]
    BY <1>3
  <2>2. base \in Good[0]
    BY <1>1
  <2>3. ASSUME NEW i \in 1 .. n, NEW x \in Good[i - 1] PROVE Step[i][x] \in Good[i]
    <3>1. i - 1 \in 0 .. n /\ i \in 0 .. n
      BY <1>1
    <3>2. x \in PyAt(first, h, W, i - 1) /\ Good[i] = PyAt(first, h, W, i)
      BY <2>3, <3>1
    <3>3. Step[i][x] = PyStep(x, buffer, i)
      BY <1>3, <3>2
    <3> HIDE DEF Good, Step
    <3> QED
      BY <1>2, <3>2, <3>3
  <2> QED
    BY <2>1, <2>2, <2>3
<1>5. PICK f : IsRecursion(f, n, S, base, Step) /\ \A i \in 0 .. n : f[i] \in Good[i]
  <2> HIDE DEF S, Good, Step
  <2> QED
    BY <1>1, <1>4, RecursionKeeps
<1>6. ASSUME NEW i \in 1 .. n PROVE f[i] = PyStep(f[i - 1], buffer, i)
  <2>1. f[i] = Step[i][f[i - 1]]
    BY <1>5, Zenon DEF IsRecursion
  <2>2. i - 1 \in 0 .. n
    BY <1>1
  <2>3. f[i - 1] \in S
    BY <1>3, <1>5, <2>2
  <2> QED
    BY <2>1, <2>3
<1>7. f = Def(f)
  <2>1. f = [i \in 0 .. n |-> f[i]] /\ f[0] = base
    BY <1>5, Zenon DEF IsRecursion
  <2>2. ASSUME NEW i \in 0 .. n PROVE f[i] = Def(f)[i]
    <3>1. CASE i = 0
      BY <2>1, <3>1
    <3>2. CASE i \in 1 .. n
      BY <1>6, <3>2 DEF PyStep
    <3> QED
      BY <1>1, <3>1, <3>2
  <2> QED
    BY <2>1, <2>2
<1>8. received = Def(received)
  <2> HIDE DEF Def
  <2> QED
    BY <1>7, Zenon
<1> HIDE DEF received
<1>9. received[0] = base /\ \A i \in 1 .. n : received[i] = PyStep(received[i - 1], buffer, i)
  <2>1. \A i : received[i] = Def(received)[i]
    <3> HIDE DEF Def
    <3> QED
      BY <1>8
  <2>2. Def(received)[0] = base
    BY <1>1
  <2>3. \A i \in 1 .. n : Def(received)[i] = PyStep(received[i - 1], buffer, i)
    BY <1>1 DEF PyStep
  <2> HIDE DEF Def
  <2> QED
    BY <2>1, <2>2, <2>3
<1> HIDE DEF S, Good, Step, Def
<1> DEFINE T == {i \in Nat : i <= n => received[i] \in PyAt(first, h, W, i)}
<1>10. 0 \in T
  BY <1>9
<1>11. ASSUME NEW i \in Nat, i \in T PROVE i + 1 \in T
  <2> SUFFICES ASSUME i + 1 <= n PROVE received[i + 1] \in PyAt(first, h, W, i + 1)
    OBVIOUS
  <2>1. i + 1 \in 1 .. n /\ (i + 1) - 1 = i /\ i <= n
    BY <1>1
  <2>2. received[i] \in PyAt(first, h, W, (i + 1) - 1)
    BY <1>11, <2>1
  <2>3. PyStep(received[i], buffer, i + 1) \in PyAt(first, h, W, i + 1)
    BY <1>2, <2>1, <2>2
  <2> QED
    BY <1>9, <2>1, <2>3
<1>12. n \in T
  <2> HIDE DEF T
  <2> QED
    BY <1>1, <1>10, <1>11, NatSetInduction
<1>13. received[n] \in PyAt(first, h, W, n)
  BY <1>1, <1>12
<1> QED
  BY <1>13, Zenon DEF received, Def, n

-----------------------------------------------------------------------------
(* The invariant and its steps.                                             *)

ZeroFree(t) == \A i \in 1 .. Len(t) : t[i].b # 0

StreamInv ==
    /\ TypeOK /\ ZeroFree(rx)
    /\ Pending(Past, rx \o line, 1, delivered)

LEMMA PastType ==
    ASSUME TypeOK
    PROVE  /\ Past \in Pasts
           /\ Past.client = client /\ Past.sent = sent /\ Past.damaged = damaged
           /\ rx \in Seq(OnLine) /\ line \in Seq(OnLine) /\ delivered \in Seq(Packet)
BY DEF TypeOK, LineTypeOK, Past, Pasts, Packet

\* Pending is what is left of the line.
LEMMA Rebased ==
    ASSUME NEW h \in Pasts, NEW W \in Seq(OnLine), NEW i \in Nat, i <= Len(W),
           NEW from, NEW got, Scanned(h, W, from, i, got),
           NEW left \in Seq(OnLine), NEW rest \in Seq(OnLine),
           left = SubSeq(W, from, i), rest = SubSeq(W, i + 1, Len(W))
    PROVE  ZeroFree(left) /\ Pending(h, left \o rest, 1, got)
<1>1. /\ from \in Nat \ {0} /\ from <= i + 1 /\ from \in 1 .. Len(W) + 1 /\ Len(W) \in Nat
      /\ (\A j \in from .. i : W[j].b # 0)
      /\ Pending(h, W, from, got)
  BY DEF Scanned
<1> DEFINE m == i + 1 - from
           n == Len(W) - i
           V == left \o rest
<1>2. /\ Len(left) = m /\ \A k \in 1 .. m : left[k] = W[from + k - 1]
      /\ Len(rest) = n /\ \A k \in 1 .. n : rest[k] = W[i + k]
  <2>1. /\ Len(left) = m /\ \A k \in 1 .. m : left[k] = W[from + k - 1]
    BY <1>1, SubSeqProperties
  <2>2. /\ Len(rest) = n /\ \A k \in 1 .. n : rest[k] = W[(i + 1) + k - 1]
    BY <1>1, SubSeqProperties
  <2>3. \A k \in 1 .. n : (i + 1) + k - 1 = i + k
    OBVIOUS
  <2> QED
    BY <2>1, <2>2, <2>3
<1>3. m \in Nat /\ n \in Nat /\ m + n = Len(W) + 1 - from
  BY <1>1
<1>4. \A k \in 1 .. m : from + k - 1 \in from .. i
  BY <1>1
<1>5. \A k \in 1 .. m + n : k \in 1 .. m \/ (k - m \in 1 .. n /\ m + (k - m) = k /\ i + (k - m) = from + k - 1)
  BY <1>1, <1>3
<1>6. /\ V \in Seq(OnLine) /\ Len(V) = m + n
      /\ \A k \in 1 .. m : V[k] = left[k]
      /\ \A k \in 1 .. n : V[m + k] = rest[k]
  <2>1. /\ V \in Seq(OnLine) /\ Len(V) = Len(left) + Len(rest)
        /\ \A k \in 1 .. Len(left) : V[k] = left[k]
        /\ \A k \in 1 .. Len(rest) : V[Len(left) + k] = rest[k]
    BY Joined
  <2>2. Len(left) = m /\ Len(rest) = n
    BY <1>2
  <2> HIDE DEF m, n, V
  <2> QED
    BY <2>1, <2>2
<1> HIDE DEF m, n, V
<1>7. ZeroFree(left)
  BY <1>1, <1>2, <1>4 DEF ZeroFree
<1>8. \A k \in 1 .. Len(V) : V[k] = W[from + k - 1]
  <2> SUFFICES ASSUME NEW k \in 1 .. m + n PROVE V[k] = W[from + k - 1]
    BY <1>6
  <2>1. CASE k \in 1 .. m
    BY <1>2, <1>6, <2>1
  <2>2. CASE k \notin 1 .. m
    <3> DEFINE j == k - m
    <3>1. j \in 1 .. n /\ m + j = k /\ i + j = from + k - 1
      BY <1>5, <2>2
    <3> HIDE DEF j
    <3>2. V[k] = rest[j]
      BY <1>6, <3>1
    <3> QED
      BY <1>2, <3>1, <3>2
  <2> QED
    BY <2>1, <2>2
<1>9. Len(V) = Len(W) + 1 - from
  BY <1>3, <1>6
<1>10. Pending(h, V, 1, got)
  BY <1>1, <1>6, <1>8, <1>9, Dropped
<1> QED
  BY <1>7, <1>10 DEF V

LEMMA StreamInit == Init => StreamInv
<1> SUFFICES ASSUME Init PROVE StreamInv
  OBVIOUS
<1>1. /\ line = <<>> /\ sent = <<>> /\ faults = 0 /\ damaged = {} /\ rx = <<>> /\ delivered = <<>>
      /\ client \in {"js", "py"}
  BY DEF Init, LineInit
<1>2. TypeOK
  BY <1>1, LineAssumption, AccumulatorAssumption DEF TypeOK, LineTypeOK
<1>3. rx \o line = <<>>
  BY <1>1
<1>4. Past.sent = <<>>
  BY <1>1 DEF Past
<1>5. Pending(Past, <<>>, 1, <<>>)
  BY <1>4 DEF Pending, NoneIsLost, InOrder, WasSent, Passed, Once, NextBegins
<1> QED
  BY <1>1, <1>2, <1>3, <1>5 DEF StreamInv, ZeroFree

\* The sender: a frame joins the end of the line.
LEMMA SendKeeps ==
    ASSUME StreamInv, SendPacket, UNCHANGED client
    PROVE  StreamInv'
<1> DEFINE N == Len(sent)
<1>1. PICK p \in Packets : sent' = Append(sent, p) /\ line' = line \o Frame(p, N + 1)
  BY DEF SendPacket
<1>2. N < MaxSent /\ UNCHANGED <<faults, damaged, rx, delivered, client>>
  BY DEF SendPacket
<1>3. TypeOK /\ sent \in Seq(Packets) /\ N \in Nat /\ MaxSent \in Nat
  BY LineAssumption DEF StreamInv, TypeOK, LineTypeOK
<1>4. N + 1 \in 1 .. MaxSent
  BY <1>2, <1>3
<1>5. Frame(p, N + 1) \in Seq(OnLine)
  BY <1>4, FrameFacts
<1>6. sent' \in Seq(Packets) /\ Len(sent') = N + 1
  BY <1>1, <1>3, AppendProperties
<1>7. rx \in Seq(OnLine) /\ line \in Seq(OnLine) /\ line' \in Seq(OnLine)
  BY <1>1, <1>3, <1>5, PastType, ConcatProperties
<1>8. TypeOK'
  <2>1. Len(sent') <= MaxSent
    BY <1>4, <1>6
  <2> QED
    BY <1>2, <1>3, <1>6, <1>7, <2>1 DEF TypeOK, LineTypeOK
<1>9. Pending(Past', rx' \o line', 1, delivered')
  <2>1. Past \in Pasts /\ Past.sent = sent /\ delivered \in Seq(Packet)
    BY <1>3, PastType
  <2>2. /\ Past' \in Pasts /\ Past'.sent = Append(Past.sent, p)
        /\ Past'.client = Past.client /\ Past'.damaged = Past.damaged
    BY <1>1, <1>2, <1>8 DEF Past, Pasts, TypeOK, LineTypeOK
  <2>3. rx \o line \in Seq(OnLine) /\ Pending(Past, rx \o line, 1, delivered)
    BY <1>7, ConcatProperties DEF StreamInv
  <2>4. (rx \o line) \o Frame(p, N + 1) = rx' \o line'
    BY <1>1, <1>2, <1>5, <1>7, ConcatAssociative
  <2> DEFINE W == rx \o line
             later == Past'
             h == Past
  <2> HIDE DEF W, later, h
  <2>5. Pending(later, W \o Frame(p, Len(h.sent) + 1), 1, delivered)
    BY <2>1, <2>2, <2>3, Extended DEF W, later, h
  <2> QED
    BY <1>2, <2>1, <2>4, <2>5 DEF W, later, h
<1> QED
  BY <1>2, <1>8, <1>9 DEF StreamInv, ZeroFree

\* The sequence without its element i.
LEMMA RemovedAt ==
    ASSUME NEW s \in Seq(OnLine), NEW i \in 1 .. Len(s)
    PROVE  /\ RemoveAt(s, i) \in Seq(OnLine) /\ Len(RemoveAt(s, i)) = Len(s) - 1
           /\ \A j \in 1 .. Len(s) - 1 : RemoveAt(s, i)[j] = IF j < i THEN s[j] ELSE s[j + 1]
<1> DEFINE L == Len(s)
           a == SubSeq(s, 1, i - 1)
           b == SubSeq(s, i + 1, L)
<1>1. L \in Nat /\ i \in Nat /\ i >= 1 /\ i <= L
  OBVIOUS
<1>2. a \in Seq(OnLine) /\ Len(a) = i - 1 /\ \A j \in 1 .. i - 1 : a[j] = s[j]
  <2>1. /\ a \in Seq(OnLine) /\ Len(a) = i - 1
        /\ \A j \in 1 .. (i - 1) - 1 + 1 : a[j] = s[1 + j - 1]
    BY <1>1, SubSeqProperties
  <2>2. \A j \in 1 .. i - 1 : j \in 1 .. (i - 1) - 1 + 1 /\ 1 + j - 1 = j
    BY <1>1
  <2> HIDE DEF a
  <2> QED
    BY <2>1, <2>2
<1>3. b \in Seq(OnLine) /\ Len(b) = L - i /\ \A j \in 1 .. L - i : b[j] = s[i + j]
  <2>1. /\ b \in Seq(OnLine) /\ Len(b) = L - i
        /\ \A j \in 1 .. L - (i + 1) + 1 : b[j] = s[(i + 1) + j - 1]
    BY <1>1, SubSeqProperties
  <2>2. \A j \in 1 .. L - i : j \in 1 .. L - (i + 1) + 1 /\ (i + 1) + j - 1 = i + j
    BY <1>1
  <2> HIDE DEF b
  <2> QED
    BY <2>1, <2>2
<1>4. RemoveAt(s, i) = a \o b
  BY DEF RemoveAt
<1> HIDE DEF a, b, L
<1> DEFINE c == a \o b
<1>5. /\ c \in Seq(OnLine) /\ Len(c) = Len(a) + Len(b)
      /\ \A j \in 1 .. Len(a) : c[j] = a[j]
      /\ \A j \in 1 .. Len(b) : c[Len(a) + j] = b[j]
  BY <1>2, <1>3, Joined
<1> HIDE DEF c
<1>6. Len(c) = L - 1
  BY <1>1, <1>2, <1>3, <1>5
<1>7. ASSUME NEW j \in 1 .. L - 1 PROVE c[j] = IF j < i THEN s[j] ELSE s[j + 1]
  <2>1. CASE j < i
    <3>1. j \in 1 .. i - 1
      BY <1>1, <2>1
    <3> QED
      BY <1>2, <1>5, <2>1, <3>1
  <2>2. CASE ~ (j < i)
    <3> DEFINE k == j - (i - 1)
    <3>1. k \in 1 .. L - i /\ (i - 1) + k = j /\ i + k = j + 1
      BY <1>1, <2>2
    <3> HIDE DEF k
    <3>2. c[j] = b[k]
      BY <1>2, <1>3, <1>5, <3>1
    <3>3. b[k] = s[j + 1]
      BY <1>3, <3>1
    <3> QED
      BY <2>2, <3>2, <3>3
  <2> QED
    BY <2>1, <2>2
<1> QED
  BY <1>4, <1>5, <1>6, <1>7 DEF c, L

\* A fault: it spoils the frames it reaches, and no other is touched.
LEMMA FaultKeeps ==
    ASSUME StreamInv, LineFault, UNCHANGED client
    PROVE  StreamInv'
<1>1. PICK i \in 1 .. Len(line) :
         /\ damaged' = damaged \cup Spoils(line[i])
         /\ \/ line' = RemoveAt(line, i)
            \/ \E b \in Byte \ {line[i].b} : line' = [line EXCEPT ![i].b = b]
  BY DEF LineFault
<1>2. /\ faults' = faults + 1 /\ faults < MaxFaults
      /\ UNCHANGED <<sent, rx, delivered, client>>
  BY DEF LineFault
<1>3. TypeOK /\ MaxSent \in Nat /\ MaxFaults \in Nat
  BY LineAssumption DEF StreamInv
<1>4. /\ Past \in Pasts /\ rx \in Seq(OnLine) /\ line \in Seq(OnLine)
  BY <1>3, PastType
<1>5. line[i].b \in Byte /\ line[i].of \in 1 .. MaxSent /\ line[i].of \in Nat
  BY <1>4, LineByte
<1>6. damaged' \subseteq 1 .. MaxSent + 1
  <2>1. Spoils(line[i]) \subseteq 1 .. MaxSent + 1
    BY <1>3, <1>5 DEF Spoils
  <2> QED
    BY <1>1, <1>3, <2>1 DEF TypeOK, LineTypeOK
<1>7. faults' \in 0 .. MaxFaults
  BY <1>2, <1>3 DEF TypeOK, LineTypeOK
<1>8. Later(Past, Past') /\ Spoils(line[i]) \subseteq Past'.damaged
  BY <1>1, <1>2 DEF Later, Past
<1> DEFINE R == Len(rx)
           L == Len(line)
           W == rx \o line
           q == R + i
           V == rx \o line'
<1>9. /\ R \in Nat /\ L \in Nat /\ i \in Nat /\ i >= 1 /\ i <= L
      /\ W \in Seq(OnLine) /\ Len(W) = R + L
      /\ \A j \in 1 .. R : W[j] = rx[j]
      /\ \A j \in 1 .. L : W[R + j] = line[j]
  BY <1>4, Joined
<1>10. Pending(Past, W, 1, delivered)
  BY DEF StreamInv
<1>11. ASSUME line' = RemoveAt(line, i)
       PROVE  line' \in Seq(OnLine) /\ Pending(Past', V, 1, delivered')
  <2>1. /\ line' \in Seq(OnLine) /\ Len(line') = L - 1
        /\ \A j \in 1 .. L - 1 : line'[j] = IF j < i THEN line[j] ELSE line[j + 1]
    BY <1>4, <1>11, RemovedAt
  <2>2. /\ V \in Seq(OnLine) /\ Len(V) = R + Len(line')
        /\ \A j \in 1 .. R : V[j] = rx[j]
        /\ \A j \in 1 .. Len(line') : V[R + j] = line'[j]
    BY <1>4, <2>1, Joined
  <2> HIDE DEF V, W, R, L
  <2>3. q \in 1 .. Len(W) /\ Len(V) = Len(W) - 1 /\ W[q] = line[i] /\ q \in Nat
    BY <1>9, <2>1, <2>2
  <2>4. ASSUME NEW j \in 1 .. Len(V) PROVE V[j] = IF j < q THEN W[j] ELSE W[j + 1]
    <3>1. CASE j <= R
      <4>1. j \in 1 .. R /\ j < q
        BY <1>9, <3>1
      <4> QED
        BY <1>9, <2>2, <4>1
    <3>2. CASE j > R
      <4> DEFINE k == j - R
      <4>1. /\ k \in 1 .. L - 1 /\ j = R + k /\ k \in 1 .. L /\ k + 1 \in 1 .. L
            /\ (R + k < q <=> k < i) /\ R + (k + 1) = (R + k) + 1
        <5>1. j \in Nat /\ j <= R + (L - 1)
          BY <1>9, <2>1, <2>2
        <5> QED
          BY <1>9, <3>2, <5>1
      <4> HIDE DEF k, q
      <4>2. V[j] = IF k < i THEN line[k] ELSE line[k + 1]
        <5>1. V[R + k] = line'[k]
          BY <2>1, <2>2, <4>1
        <5> QED
          BY <2>1, <4>1, <5>1
      <4>3. W[R + k] = line[k] /\ W[(R + k) + 1] = line[k + 1]
        <5>1. \A x \in 1 .. L : W[R + x] = line[x]
          BY <1>9
        <5>2. W[R + k] = line[k]
          BY <4>1, <5>1
        <5>3. W[R + (k + 1)] = line[k + 1]
          BY <4>1, <5>1
        <5> QED
          BY <4>1, <5>2, <5>3
      <4>4. (j < q <=> k < i) /\ W[j] = line[k] /\ W[j + 1] = line[k + 1]
        BY <4>1, <4>3
      <4> QED
        BY <4>2, <4>4
    <3> QED
      BY <1>9, <3>1, <3>2
  <2> HIDE DEF q
  <2> DEFINE h == Past
             later == Past'
             got == delivered
  <2>5. h \in Pasts /\ Later(h, later) /\ Spoils(W[q]) \subseteq later.damaged /\ Pending(h, W, 1, got)
    BY <1>4, <1>8, <1>10, <2>3
  <2> HIDE DEF h, later, got
  <2>6. Pending(later, V, 1, got)
    BY <1>9, <2>2, <2>3, <2>4, <2>5, Removed
  <2> QED
    BY <1>2, <2>1, <2>6 DEF later, got, V
<1>12. ASSUME \E b \in Byte \ {line[i].b} : line' = [line EXCEPT ![i].b = b]
       PROVE  line' \in Seq(OnLine) /\ Pending(Past', V, 1, delivered')
  <2>1. PICK b \in Byte : line' = [line EXCEPT ![i].b = b]
    BY <1>12
  <2>2. /\ line' \in Seq(OnLine) /\ Len(line') = L /\ line'[i].of = line[i].of
        /\ \A j \in 1 .. L : j # i => line'[j] = line[j]
    <3> DEFINE t == [line[i] EXCEPT !.b = b]
    <3>1. line[i] \in OnLine
      BY <1>4
    <3>2. t \in OnLine /\ t.of = line[i].of
      BY <3>1 DEF OnLine
    <3>3. line' = [line EXCEPT ![i] = t]
      BY <2>1
    <3> HIDE DEF t
    <3> QED
      BY <1>4, <3>2, <3>3, Replaced
  <2>3. /\ V \in Seq(OnLine) /\ Len(V) = R + Len(line')
        /\ \A j \in 1 .. R : V[j] = rx[j]
        /\ \A j \in 1 .. Len(line') : V[R + j] = line'[j]
    BY <1>4, <2>2, Joined
  <2> HIDE DEF V, W, R, L
  <2>4. q \in 1 .. Len(W) /\ Len(V) = Len(W) /\ W[q] = line[i] /\ V[q].of = W[q].of
    BY <1>9, <2>2, <2>3
  <2>5. ASSUME NEW j \in 1 .. Len(W), j # q PROVE V[j] = W[j]
    <3>1. CASE j <= R
      <4>1. j \in 1 .. R
        BY <1>9, <3>1
      <4> QED
        BY <1>9, <2>3, <4>1
    <3>2. CASE j > R
      <4> DEFINE k == j - R
      <4>1. k \in 1 .. L /\ j = R + k /\ k # i
        BY <1>9, <2>5, <3>2
      <4> HIDE DEF k, q
      <4> QED
        BY <1>9, <2>2, <2>3, <4>1
    <3> QED
      BY <1>9, <3>1, <3>2
  <2> HIDE DEF q
  <2> DEFINE h == Past
             later == Past'
             got == delivered
  <2>6. h \in Pasts /\ Later(h, later) /\ Spoils(W[q]) \subseteq later.damaged /\ Pending(h, W, 1, got)
    BY <1>4, <1>8, <1>10, <2>4
  <2> HIDE DEF h, later, got
  <2>7. Pending(later, V, 1, got)
    BY <1>9, <2>3, <2>4, <2>5, <2>6, Changed
  <2> QED
    BY <1>2, <2>2, <2>7 DEF later, got, V
<1>13. line' \in Seq(OnLine) /\ Pending(Past', rx' \o line', 1, delivered')
  <2>1. Pending(Past', V, 1, delivered') /\ line' \in Seq(OnLine)
    BY <1>1, <1>11, <1>12
  <2> QED
    BY <1>2, <2>1
<1>14. TypeOK'
  BY <1>2, <1>3, <1>6, <1>7, <1>13 DEF TypeOK, LineTypeOK
<1> QED
  BY <1>2, <1>13, <1>14 DEF StreamInv, ZeroFree

\* Before a chunk is read nothing of it has been looked at.
LEMMA BeforeChunk ==
    ASSUME StreamInv
    PROVE  LET W == rx \o line IN
           /\ Past \in Pasts /\ W \in Seq(OnLine)
           /\ Len(rx) \in Nat /\ Len(line) \in Nat /\ Len(W) = Len(rx) + Len(line)
           /\ \A j \in 1 .. Len(rx) : W[j] = rx[j]
           /\ \A j \in 1 .. Len(line) : W[Len(rx) + j] = line[j]
           /\ rx = SubSeq(W, 1, Len(rx))
           /\ Scanned(Past, W, 1, 0, delivered) /\ Scanned(Past, W, 1, Len(rx), delivered)
           /\ \A n \in 1 .. Len(line) :
                /\ SubSeq(line, n + 1, Len(line)) \in Seq(OnLine)
                /\ SubSeq(line, n + 1, Len(line)) = SubSeq(W, (Len(rx) + n) + 1, Len(W))
<1> DEFINE R == Len(rx)
           W == rx \o line
<1>1. /\ Past \in Pasts /\ rx \in Seq(OnLine) /\ line \in Seq(OnLine) /\ delivered \in Seq(Packet)
      /\ Pending(Past, W, 1, delivered)
  BY PastType DEF StreamInv
<1>2. /\ W \in Seq(OnLine) /\ R \in Nat /\ Len(line) \in Nat /\ Len(W) = R + Len(line)
      /\ \A j \in 1 .. R : W[j] = rx[j]
      /\ \A j \in 1 .. Len(line) : W[R + j] = line[j]
  BY <1>1, Joined
<1> HIDE DEF W
<1>3. rx = SubSeq(W, 1, R)
  <2>1. SubSeq(rx, 1, R) = rx
    BY <1>1, SubSeqFull
  <2>2. SubSeq(rx, 1, R) = SubSeq(W, 1, R)
    <3>1. R <= Len(rx) /\ R <= Len(W) /\ 1 \in Nat \ {0} /\ 1 <= R + 1
      BY <1>2
    <3>2. \A j \in 1 .. R : rx[j] = W[j]
      BY <1>2
    <3> HIDE DEF R
    <3> QED
      BY <1>1, <1>2, <3>1, <3>2, SamePiece
  <2> QED
    BY <2>1, <2>2
<1>4. \A j \in 1 .. R : W[j].b # 0
  BY <1>2 DEF StreamInv, ZeroFree
<1>5. Scanned(Past, W, 1, 0, delivered)
  BY <1>1 DEF Scanned
<1>6. Scanned(Past, W, 1, R, delivered)
  BY <1>1, <1>2, <1>4 DEF Scanned
<1>7. \A n \in 1 .. Len(line) :
         /\ SubSeq(line, n + 1, Len(line)) \in Seq(OnLine)
         /\ SubSeq(line, n + 1, Len(line)) = SubSeq(W, (R + n) + 1, Len(W))
  <2>1. EndsWith(W, R, line)
    BY <1>2 DEF EndsWith
  <2> HIDE DEF R
  <2> QED
    BY <1>1, <1>2, <2>1, SameEnd
<1> QED
  BY <1>1, <1>2, <1>3, <1>5, <1>6, <1>7 DEF W

\* When it has been read, what was not dealt with is kept.
LEMMA AfterChunk ==
    ASSUME StreamInv, NEW n \in 1 .. Len(line), Arrive(n), NEW from, NEW got,
           Scanned(Past, rx \o line, from, Len(rx) + n, got),
           rx' \in Seq(OnLine), rx' = SubSeq(rx \o line, from, Len(rx) + n),
           delivered' = got, client = "js" => Len(rx') <= MaxAccumulator,
           UNCHANGED <<sent, faults, damaged, client>>
    PROVE  StreamInv'
<1> DEFINE R == Len(rx)
           L == Len(line)
           W == rx \o line
           i == R + n
           rest == SubSeq(line, n + 1, L)
<1>1. /\ Past \in Pasts /\ W \in Seq(OnLine) /\ R \in Nat /\ L \in Nat /\ Len(W) = R + L
      /\ \A j \in 1 .. L : W[R + j] = line[j]
      /\ n \in Nat /\ n >= 1 /\ n <= L
  BY BeforeChunk
<1>2. TypeOK /\ line \in Seq(OnLine)
  BY PastType DEF StreamInv
<1>3. i \in Nat /\ i <= Len(W)
  BY <1>1
<1>4. line' = rest
  BY DEF Arrive
<1> HIDE DEF W, R, L
<1>5. rest \in Seq(OnLine) /\ rest = SubSeq(W, i + 1, Len(W))
  BY BeforeChunk DEF W, R, L
<1>6. ZeroFree(rx') /\ Pending(Past, rx' \o line', 1, delivered')
  <2> DEFINE h == Past
             left == rx'
  <2>1. /\ h \in Pasts /\ Scanned(h, W, from, i, got) /\ left \in Seq(OnLine)
        /\ left = SubSeq(W, from, i)
    BY <1>1 DEF W, R
  <2> HIDE DEF h, left, rest, i
  <2>2. ZeroFree(left) /\ Pending(h, left \o rest, 1, got)
    BY <1>1, <1>3, <1>5, <2>1, Rebased
  <2> QED
    BY <1>4, <2>2 DEF h, left
<1>7. ZeroFree(rx') /\ Pending(Past', rx' \o line', 1, delivered')
  BY <1>6 DEF Past
<1>8. TypeOK'
  <2>1. delivered' \in Seq(Packet) /\ line' \in Seq(OnLine)
    BY <1>4, <1>5 DEF Scanned
  <2>2. client = "js" => Len(rx') <= MaxAccumulator /\ \A j \in 1 .. Len(rx') : rx'[j].b # 0
    BY <1>7 DEF ZeroFree
  <2> QED
    BY <1>2, <2>1, <2>2 DEF TypeOK, LineTypeOK, Packet
<1> QED
  BY <1>7, <1>8 DEF StreamInv, ZeroFree

\* receiveBytes(): byte by byte.
LEMMA JsKeeps ==
    ASSUME StreamInv, client = "js", JsReceiveBytes, UNCHANGED client
    PROVE  StreamInv' /\ GrowsTo(delivered, delivered')
<1> DEFINE R == Len(rx)
           W == rx \o line
           first == delivered
           h == Past
           base == [acc |-> rx, got |-> delivered]
           Received(n) ==
               LET received[i \in 0 .. n] ==
                       IF i = 0 THEN base
                       ELSE IF line[i].b = 0 THEN JsDelimiter(received[i - 1], line[i].of)
                       ELSE JsData(received[i - 1], line[i])
               IN received[n]
<1>1. PICK n \in 1 .. Len(line) :
         /\ Arrive(n) /\ rx' = Received(n).acc /\ delivered' = Received(n).got
         /\ UNCHANGED <<sent, faults, damaged>>
  BY Zenon DEF JsReceiveBytes
<1>2. /\ h \in Pasts /\ W \in Seq(OnLine) /\ R \in Nat /\ Len(line) \in Nat /\ Len(W) = R + Len(line)
      /\ \A j \in 1 .. Len(line) : W[R + j] = line[j]
      /\ rx = SubSeq(W, 1, R) /\ Scanned(h, W, 1, R, delivered)
  BY BeforeChunk
<1>3. /\ rx \in Seq(OnLine) /\ delivered \in Seq(Packet) /\ h.client = "js"
      /\ R <= MaxAccumulator
  BY PastType DEF StreamInv, TypeOK
<1>4. GrowsTo(first, delivered) /\ first \in Seq(Packet)
  BY <1>3 DEF GrowsTo
<1> HIDE DEF W, R, h, first
<1>5. base \in JsAt(first, h, W, R)
  <2>1. 1 \in 1 .. R + 1 /\ R + 1 - 1 = R
    BY <1>2
  <2> QED
    BY <1>2, <1>3, <1>4, <2>1, InJsAt
<1>6. n \in Nat /\ R + n <= Len(W) /\ \A i \in 1 .. n : line[i] = W[R + i]
  BY <1>2
<1> HIDE DEF base
<1>7. Received(n) \in JsAt(first, h, W, R + n)
  <2>1. \A chunk : (\A i \in 1 .. n : chunk[i] = W[R + i]) =>
          LET received[i \in 0 .. n] ==
                  IF i = 0 THEN base
                  ELSE IF chunk[i].b = 0 THEN JsDelimiter(received[i - 1], chunk[i].of)
                  ELSE JsData(received[i - 1], chunk[i])
          IN received[n] \in JsAt(first, h, W, R + n)
    <3>1. /\ h \in Pasts /\ h.client = "js" /\ W \in Seq(OnLine) /\ R \in Nat /\ n \in Nat
          /\ R + n <= Len(W) /\ first \in Seq(Packet) /\ base \in JsAt(first, h, W, R)
      BY <1>2, <1>3, <1>5, <1>6, <1>4
    <3> QED
      BY <3>1, JsReceived, ZenonT(40)
  <2> QED
    BY <1>6, <2>1, Zenon
<1> HIDE DEF Received
<1>8. PICK from \in 1 .. R + n + 1 :
         /\ rx' = SubSeq(W, from, R + n) /\ R + n + 1 - from <= MaxAccumulator
         /\ Scanned(h, W, from, R + n, delivered') /\ GrowsTo(first, delivered')
  BY <1>1, <1>7 DEF JsAt
<1>9. rx' \in Seq(OnLine)
  BY <1>1, <1>7 DEF JsAt
<1>10. Len(rx') <= MaxAccumulator
  <2> DEFINE i == R + n
  <2>1. /\ from \in Nat \ {0} /\ i \in Nat /\ from <= i + 1 /\ i <= Len(W)
        /\ \A j \in from .. i : W[j].b # 0
    <3>1. R \in Nat /\ n \in Nat /\ R + n <= Len(W) /\ from \in 1 .. R + n + 1
      BY <1>2, <1>6
    <3>2. \A j \in from .. R + n : W[j].b # 0
      BY <1>8 DEF Scanned
    <3> QED
      BY <3>1, <3>2
  <2> HIDE DEF i
  <2>2. Len(SubSeq(W, from, i)) = i + 1 - from
    BY <1>2, <2>1, Cut
  <2> QED
    BY <1>8, <2>2 DEF i
<1> QED
  BY <1>1, <1>8, <1>9, <1>10, AfterChunk DEF W, R, h, first

\* receive_bytes(): from delimiter to delimiter.
LEMMA PyKeeps ==
    ASSUME StreamInv, client = "py", PyReceiveBytes, UNCHANGED client
    PROVE  StreamInv' /\ GrowsTo(delivered, delivered')
<1> DEFINE R == Len(rx)
           W == rx \o line
           first == delivered
           h == Past
           base == [from |-> 1, got |-> delivered]
           Received(buffer) ==
               LET received[i \in 0 .. Len(buffer)] ==
                       IF i = 0 THEN base
                       ELSE IF buffer[i].b = 0 THEN PyDelimiter(received[i - 1], buffer, i)
                       ELSE received[i - 1]
               IN received[Len(buffer)]
<1>1. PICK n \in 1 .. Len(line) :
         LET buffer == Complete(rx, Chunk(n)) IN
         /\ Arrive(n) /\ rx' = Rest(buffer, Received(buffer).from)
         /\ delivered' = Received(buffer).got
         /\ UNCHANGED <<sent, faults, damaged>>
  BY Zenon DEF PyReceiveBytes
<1> DEFINE buffer == Complete(rx, Chunk(n))
<1>2. /\ h \in Pasts /\ W \in Seq(OnLine) /\ R \in Nat /\ Len(line) \in Nat /\ Len(W) = R + Len(line)
      /\ \A j \in 1 .. R : W[j] = rx[j]
      /\ \A j \in 1 .. Len(line) : W[R + j] = line[j]
      /\ Scanned(h, W, 1, 0, delivered)
      /\ n \in Nat /\ n >= 1 /\ n <= Len(line)
  BY BeforeChunk
<1>3. rx \in Seq(OnLine) /\ line \in Seq(OnLine) /\ delivered \in Seq(Packet)
  BY PastType DEF StreamInv
<1>4. /\ Chunk(n) \in Seq(OnLine) /\ Len(Chunk(n)) = n
      /\ \A j \in 1 .. n : Chunk(n)[j] = line[j]
  <2> DEFINE c == SubSeq(line, 1, n)
  <2>1. c \in Seq(OnLine) /\ Len(c) = n /\ \A j \in 1 .. n - 1 + 1 : c[j] = line[1 + j - 1]
    <3>1. 1 \in Int /\ n \in Int /\ \A j \in 1 .. n : line[j] \in OnLine
      BY <1>2, <1>3
    <3> QED
      BY <1>2, <3>1, SubSeqProperties
  <2>2. \A j \in 1 .. n : j \in 1 .. n - 1 + 1 /\ 1 + j - 1 = j
    BY <1>2
  <2> HIDE DEF c
  <2> QED
    BY <2>1, <2>2 DEF Chunk, c
<1>5. /\ buffer \in Seq(OnLine) /\ Len(buffer) = R + n
      /\ \A j \in 1 .. Len(buffer) : buffer[j] = W[j]
  <2>1. /\ buffer \in Seq(OnLine) /\ Len(buffer) = R + Len(Chunk(n))
        /\ \A j \in 1 .. R : buffer[j] = rx[j]
        /\ \A j \in 1 .. Len(Chunk(n)) : buffer[R + j] = Chunk(n)[j]
    BY <1>3, <1>4, Joined DEF Complete
  <2> HIDE DEF buffer, W, R
  <2>2. ASSUME NEW j \in 1 .. R + n PROVE buffer[j] = W[j]
    <3>1. CASE j <= R
      <4>1. j \in 1 .. R
        BY <1>2, <3>1
      <4> QED
        BY <1>2, <2>1, <4>1
    <3>2. CASE j > R
      <4> DEFINE k == j - R
      <4>1. k \in 1 .. n /\ k \in 1 .. Len(line) /\ j = R + k
        BY <1>2, <3>2
      <4> HIDE DEF k
      <4> QED
        BY <1>2, <1>4, <2>1, <4>1
    <3> QED
      BY <1>2, <3>1, <3>2
  <2> QED
    BY <1>4, <2>1, <2>2
<1>6. GrowsTo(first, delivered) /\ first \in Seq(Packet)
  BY <1>3 DEF GrowsTo
<1> HIDE DEF W, R, h, buffer, first
<1>7. Len(buffer) <= Len(W)
  BY <1>2, <1>5
<1>8. base \in PyAt(first, h, W, 0)
  BY <1>2, <1>3, <1>6 DEF PyAt
<1> HIDE DEF base
<1>9. Received(buffer) \in PyAt(first, h, W, Len(buffer))
  BY <1>2, <1>5, <1>7, <1>8, <1>6, PyReceived
<1> HIDE DEF Received
<1> DEFINE from == Received(buffer).from
<1>10. /\ from \in Nat /\ Received(buffer).got \in Seq(Packet)
       /\ Scanned(h, W, from, R + n, Received(buffer).got)
       /\ GrowsTo(first, Received(buffer).got)
  BY <1>5, <1>9 DEF PyAt
<1>11. rx' = SubSeq(buffer, from, R + n) /\ delivered' = Received(buffer).got
  BY <1>1, <1>5 DEF Rest, buffer
<1>12. SubSeq(buffer, from, R + n) = SubSeq(W, from, R + n) /\ rx' \in Seq(OnLine)
  <2> DEFINE i == R + n
  <2>1. /\ from \in Nat \ {0} /\ i \in Nat /\ from <= i + 1 /\ i <= Len(W) /\ i <= Len(buffer)
    BY <1>2, <1>5, <1>10 DEF Scanned
  <2>2. \A j \in from .. i : buffer[j] = W[j]
    BY <1>5, <2>1
  <2> HIDE DEF i, from
  <2>3. SubSeq(buffer, from, i) = SubSeq(W, from, i) /\ SubSeq(buffer, from, i) \in Seq(OnLine)
    BY <1>2, <1>5, <2>1, <2>2, SamePiece
  <2> QED
    BY <1>11, <2>3 DEF i
<1> HIDE DEF from
<1>13. /\ Arrive(n) /\ UNCHANGED <<sent, faults, damaged, client>>
       /\ rx' = SubSeq(W, from, R + n)
       /\ Scanned(h, W, from, R + n, delivered') /\ GrowsTo(first, delivered')
  BY <1>1, <1>10, <1>11, <1>12
<1> QED
  BY <1>12, <1>13, AfterChunk DEF W, R, h, first

\* resetAccumulator(): the frame it cuts off is among the damaged.
LEMMA ResetKeeps ==
    ASSUME StreamInv, ResetAccumulator, UNCHANGED client
    PROVE  StreamInv'
<1> DEFINE m == Len(rx)
           W == rx \o line
           h == Past
           later == Past'
           got == delivered
<1>1. /\ rx # <<>> /\ rx' = <<>>
      /\ damaged' = damaged \cup {rx[i].of : i \in 1 .. Len(rx)}
      /\ UNCHANGED <<line, sent, faults, delivered, client>>
  BY DEF ResetAccumulator
<1>2. TypeOK /\ rx \in Seq(OnLine) /\ line \in Seq(OnLine) /\ MaxSent \in Nat
  BY PastType, LineAssumption DEF StreamInv
<1>3. /\ h \in Pasts /\ W \in Seq(OnLine) /\ m \in Nat /\ Len(line) \in Nat /\ Len(W) = m + Len(line)
      /\ \A j \in 1 .. m : W[j] = rx[j]
      /\ \A j \in 1 .. Len(line) : W[m + j] = line[j]
      /\ Pending(h, W, 1, got)
  BY BeforeChunk DEF StreamInv
<1>4. \A j \in 1 .. m : rx[j].b # 0 /\ rx[j].of \in damaged' /\ rx[j].of \in 1 .. MaxSent
  BY <1>1, <1>2, LineByte DEF StreamInv, ZeroFree
<1>5. TypeOK'
  <2>1. damaged' \subseteq 1 .. MaxSent + 1
    <3> SUFFICES ASSUME NEW d \in damaged' PROVE d \in 1 .. MaxSent + 1
      OBVIOUS
    <3>1. CASE d \in damaged
      BY <1>2, <3>1 DEF TypeOK, LineTypeOK
    <3>2. CASE d \in {rx[i].of : i \in 1 .. m}
      <4>1. d \in 1 .. MaxSent
        BY <1>4, <3>2
      <4> QED
        BY <1>2, <4>1
    <3> QED
      BY <1>1, <3>1, <3>2
  <2>2. Len(rx') = 0 /\ rx' \in Seq(OnLine)
    BY <1>1
  <2> QED
    BY <1>1, <1>2, <2>1, <2>2, AccumulatorAssumption DEF TypeOK, LineTypeOK
<1>6. later \in Pasts /\ later.damaged = damaged' /\ Later(h, later)
  BY <1>1, <1>5 DEF Past, Pasts, TypeOK, LineTypeOK, Later
<1>7. m >= 1
  BY <1>1, <1>2
<1> HIDE DEF m, W, h, later, got
<1>8. /\ m \in 1 .. Len(W) /\ \A j \in 1 .. m : W[j].b # 0 /\ W[j].of \in later.damaged
      /\ m + 1 \in 1 .. Len(W) + 1 /\ Len(line) = Len(W) + 1 - (m + 1)
  <2>1. /\ m \in 1 .. Len(W) /\ m + 1 \in 1 .. Len(W) + 1
        /\ Len(line) = Len(W) + 1 - (m + 1)
    BY <1>3, <1>7
  <2>2. \A j \in 1 .. m : W[j] = rx[j]
    BY <1>3
  <2> QED
    BY <1>4, <1>6, <2>1, <2>2
<1>9. Pending(later, W, m + 1, got)
  BY <1>3, <1>6, <1>8, ThrownAway
<1>10. \A k \in 1 .. Len(line) : line[k] = W[(m + 1) + k - 1]
  <2>1. \A k \in 1 .. Len(line) : (m + 1) + k - 1 = m + k
    BY <1>3
  <2> QED
    BY <1>3, <2>1
<1>11. Pending(later, line, 1, got)
  <2> DEFINE from == m + 1
  <2>1. /\ from \in 1 .. Len(W) + 1 /\ Len(line) = Len(W) + 1 - from
        /\ (\A k \in 1 .. Len(line) : line[k] = W[from + k - 1])
        /\ Pending(later, W, from, got)
    BY <1>8, <1>9, <1>10
  <2> HIDE DEF from
  <2> QED
    BY <1>2, <1>3, <1>6, <2>1, Dropped
<1>12. rx' \o line' = line /\ ZeroFree(rx')
  BY <1>1, <1>2 DEF ZeroFree
<1> QED
  BY <1>1, <1>5, <1>11, <1>12 DEF StreamInv, later, got, ZeroFree

\* Every step keeps the invariant; the buffer of the COBS functions is apart.
LEMMA StreamNext == StreamInv /\ [Next]_vars => StreamInv'
<1> SUFFICES ASSUME StreamInv, [Next]_vars PROVE StreamInv'
  OBVIOUS
<1>1. ASSUME UNCHANGED <<lineVars, client>> PROVE StreamInv'
  <2>1. UNCHANGED <<line, sent, faults, damaged, rx, delivered, client>>
    BY <1>1 DEF lineVars
  <2>2. TypeOK' /\ ZeroFree(rx') /\ Past' = Past
    BY <2>1 DEF StreamInv, TypeOK, LineTypeOK, ZeroFree, Past
  <2>3. Pending(Past', rx' \o line', 1, delivered')
    BY <2>1, <2>2 DEF StreamInv
  <2> QED
    BY <2>2, <2>3 DEF StreamInv, ZeroFree
<1>2. CASE FillBuffer
  BY <1>1, <1>2 DEF FillBuffer
<1>3. CASE Stream
  <2>1. UNCHANGED client /\ (Line \/ Js \/ Py)
    BY <1>3 DEF Stream
  <2>2. CASE SendPacket
    BY <2>1, <2>2, SendKeeps
  <2>3. CASE LineFault
    BY <2>1, <2>3, FaultKeeps
  <2>4. CASE client = "js" /\ JsReceiveBytes
    BY <2>1, <2>4, JsKeeps
  <2>5. CASE ResetAccumulator
    BY <2>1, <2>5, ResetKeeps
  <2>6. CASE client = "py" /\ PyReceiveBytes
    BY <2>1, <2>6, PyKeeps
  <2> QED
    BY <2>1, <2>2, <2>3, <2>4, <2>5, <2>6 DEF Line, Js, Py
<1>4. CASE UNCHANGED vars
  BY <1>1, <1>4 DEF vars
<1> QED
  BY <1>2, <1>3, <1>4 DEF Next

LEMMA StreamInvariant == Spec => []StreamInv
BY StreamInit, StreamNext, PTL DEF Spec

\* What is on the line, kept in the accumulator and delivered has its type;
\* receiveBytes() never keeps more than its 4096 bytes, and no delimiter.
THEOREM StreamTypeCorrect == Spec => []TypeOK
<1>1. StreamInv => TypeOK
  BY DEF StreamInv
<1> QED
  BY <1>1, StreamInvariant, PTL

\* Each frame that can be read has been delivered, as it was sent, when its
\* last byte has left the line: whatever was lost, changed or too long around
\* it, and in whatever chunks receiveBytes() and receive_bytes() got it.
THEOREM ReadableFramesArrive == Spec => []FramesArrive
<1>1. StreamInv => FramesArrive
  <2> SUFFICES ASSUME StreamInv, NEW n \in 1 .. Len(sent), Readable(n),
                      \A i \in 1 .. Len(line) : line[i].of # n
               PROVE  [data |-> sent[n], of |-> n] \in ToSet(delivered)
    BY DEF FramesArrive
  <2> DEFINE h == Past
             R == Len(rx)
             W == rx \o line
             encoded == CobsEncode(sent[n])
             q == Len(encoded) + 1
  <2>1. /\ h \in Pasts /\ h.sent = sent /\ CanBeRead(h, n) /\ NoneIsLost(h, W, 1, delivered)
    <3>1. TypeOK /\ Pending(h, W, 1, delivered)
      BY DEF StreamInv
    <3>2. h \in Pasts /\ h.sent = sent /\ h.client = client /\ h.damaged = damaged
      BY <3>1, PastType
    <3>3. CanBeRead(h, n)
      BY <3>2 DEF CanBeRead, Readable
    <3> HIDE DEF h, W
    <3> QED
      BY <3>1, <3>2, <3>3 DEF Pending
  <2>2. /\ R \in Nat /\ Len(line) \in Nat /\ Len(W) = R + Len(line)
        /\ \A j \in 1 .. R : W[j] = rx[j]
        /\ \A j \in 1 .. Len(line) : W[R + j] = line[j]
    BY BeforeChunk
  <2>3. \A j \in 1 .. R : rx[j].b # 0
    BY DEF StreamInv, ZeroFree
  <2> HIDE DEF W, R, h
  <2>4. ASSUME NEW p \in 0 .. Len(W), FrameBehind(W, p, n, encoded) PROVE FALSE
    <3>1. Len(encoded) \in Nat
      <4>1. encoded \in Seq(NonZero)
        BY <2>1, PastFacts
      <4> HIDE DEF encoded
      <4> QED
        BY <4>1
    <3> HIDE DEF encoded
    <3>2. /\ p + q <= Len(W) /\ p + q \in Nat /\ p + q >= 1 /\ q \in 1 .. Len(encoded) + 1
          /\ W[p + q].b = 0 /\ W[p + q].of = n
      <4>1. q \in 1 .. Len(encoded) + 1 /\ p + q = p + Len(encoded) + 1 /\ p + q \in Nat /\ p + q >= 1
        BY <3>1
      <4> QED
        BY <2>4, <4>1 DEF FrameBehind
    <3> HIDE DEF q
    <3>3. CASE p + q <= R
      <4>1. p + q \in 1 .. R
        BY <2>2, <3>2, <3>3
      <4> QED
        BY <2>2, <2>3, <3>2, <4>1
    <3>4. CASE p + q > R
      <4> DEFINE j == p + q - R
      <4>1. j \in 1 .. Len(line) /\ p + q = R + j
        BY <2>2, <3>2, <3>4
      <4> HIDE DEF j
      <4> QED
        BY <2>2, <3>2, <4>1
    <3> QED
      BY <2>2, <3>2, <3>3, <3>4
  <2>5. IsDelivered(h, delivered, n)
    <3>1. 1 - 1 = 0
      OBVIOUS
    <3> QED
      BY <2>1, <2>4, <3>1 DEF NoneIsLost
  <2>6. PICK k \in 1 .. Len(delivered) : delivered[k] = [data |-> sent[n], of |-> n]
    BY <2>1, <2>5 DEF IsDelivered
  <2> QED
    BY <2>6 DEF ToSet
<1> QED
  BY <1>1, StreamInvariant, PTL

\* Packets are delivered in the order of their frames, and none of them twice
\* unless a fault has made two of one.
THEOREM PacketsDeliveredOnce == Spec => []DeliveredOnce
<1>1. StreamInv => DeliveredOnce
  <2> SUFFICES ASSUME StreamInv PROVE DeliveredOnce
    OBVIOUS
  <2>1. Once(Past, delivered) /\ Past.damaged = damaged
    BY DEF StreamInv, Pending, Past
  <2>2. Len(delivered) \in Nat
    BY PastType DEF StreamInv
  <2>3. \A i \in 1 .. Len(delivered) - 1 :
           i \in 1 .. Len(delivered) /\ i + 1 \in 1 .. Len(delivered) /\ i < i + 1
    BY <2>2
  <2> QED
    BY <2>1, <2>3 DEF Once, DeliveredOnce
<1> QED
  BY <1>1, StreamInvariant, PTL

-----------------------------------------------------------------------------
(* The line and its receiver implement FrameChannel: each step is one of    *)
(* that module's, or leaves what it speaks of alone.                        *)

LEMMA StandsOnLine ==
    ASSUME NEW W, NEW p \in Nat, NEW n, NEW E, Len(E) \in Nat, Len(W) \in Nat,
           FrameBehind(W, p, n, E)
    PROVE  \E j \in 1 .. Len(W) : W[j].of = n
<1> DEFINE m == Len(E)
           L == Len(W)
<1>1. p + m + 1 <= L /\ \A k \in 1 .. m + 1 : W[p + k].of = n
  BY DEF FrameBehind
<1>2. m \in Nat /\ L \in Nat
  OBVIOUS
<1> HIDE DEF m, L
<1>3. 1 \in 1 .. m + 1 /\ p + 1 \in 1 .. L
  BY <1>1, <1>2
<1>4. W[p + 1].of = n
  BY <1>1, <1>3
<1> QED
  BY <1>3, <1>4 DEF L

\* A frame that can be read and is behind one that came out has come out.
LEMMA CameOut ==
    ASSUME NEW h \in Pasts, NEW W \in Seq(OnLine), NEW got \in Seq(Packet),
           Pending(h, W, 1, got), NEW k \in 1 .. Len(got),
           NEW m \in 1 .. Len(h.sent), m <= got[k].of, CanBeRead(h, m)
    PROVE  \E j \in 1 .. k : got[j] = [data |-> h.sent[m], of |-> m]
<1>1. NoneIsLost(h, W, 1, got) /\ Passed(h, W, 1, got) /\ Once(h, got)
  BY DEF Pending
<1>2. Len(got) \in Nat /\ m \in Nat /\ m \notin h.damaged
  <2>1. m \in Nat
    BY PastFacts
  <2> QED
    BY <2>1 DEF CanBeRead
<1>3. \A j \in 1 .. Len(got) : got[j].of \in Nat
  <2>1. \A j \in 1 .. Len(got) : got[j] \in Packet
    OBVIOUS
  <2>2. \A packet \in Packet : packet.of \in Nat
    BY LineAssumption DEF Packet
  <2> QED
    BY <2>1, <2>2
<1>4. ASSUME NEW p \in 1 - 1 .. Len(W), FrameBehind(W, p, m, CobsEncode(h.sent[m])) PROVE FALSE
  <2> DEFINE E == CobsEncode(h.sent[m])
  <2>1. E \in Seq(NonZero) /\ p \in Nat /\ Len(W) \in Nat
    BY PastFacts
  <2>2. FrameBehind(W, p, m, E)
    BY <1>4
  <2> HIDE DEF E
  <2>3. Len(E) \in Nat
    BY <2>1
  <2>4. PICK j \in 1 .. Len(W) : W[j].of = m
    BY <2>1, <2>2, <2>3, StandsOnLine
  <2>5. got[k].of < m \/ (got[k].of = m /\ got[k].of \in h.damaged)
    BY <1>1, <2>4 DEF Passed
  <2> QED
    BY <1>2, <1>3, <2>5
<1>5. IsDelivered(h, got, m)
  BY <1>1, <1>4 DEF NoneIsLost
<1>6. PICK j \in 1 .. Len(got) : got[j] = [data |-> h.sent[m], of |-> m]
  BY <1>5 DEF IsDelivered
<1>7. got[j].of = m
  BY <1>6
<1>8. ~ (k < j)
  <2> SUFFICES ASSUME k < j PROVE FALSE
    OBVIOUS
  <2>1. got[k].of < got[j].of \/ (got[k].of = got[j].of /\ got[k].of \in h.damaged)
    BY <1>1 DEF Once
  <2> QED
    BY <1>2, <1>3, <1>7, <2>1
<1>9. j \in 1 .. k
  BY <1>2, <1>8
<1> QED
  BY <1>6, <1>9

\* So each packet that came out is one that may follow those before it.
LEMMA InTheirOrder ==
    ASSUME NEW h \in Pasts, NEW W \in Seq(OnLine), NEW got \in Seq(Packet),
           Pending(h, W, 1, got), NEW k \in 1 .. Len(got)
    PROVE  /\ got[k].of \in 1 .. Len(h.sent)
           /\ CanBeRead(h, got[k].of) => got[k].data = h.sent[got[k].of]
           /\ \A j \in 1 .. k - 1 :
                got[j].of < got[k].of \/ (got[j].of = got[k].of /\ got[k].of \in h.damaged)
           /\ \A m \in 1 .. got[k].of - 1 :
                CanBeRead(h, m) => \E j \in 1 .. k - 1 : got[j].of = m
<1> DEFINE n == got[k].of
<1>1. Passed(h, W, 1, got) /\ Once(h, got)
  BY DEF Pending
<1>2. Len(got) \in Nat /\ Len(h.sent) \in Nat
  BY DEF Pasts
<1>3. n \in 1 .. Len(h.sent)
  <2>1. got[k] \in Packet
    OBVIOUS
  <2>2. n \in Nat /\ n >= 1
    BY <2>1, LineAssumption DEF Packet
  <2>3. n <= Len(h.sent)
    BY <1>1 DEF Passed
  <2> QED
    BY <1>2, <2>2, <2>3
<1>4. \A j \in 1 .. k - 1 : got[j].of < n \/ (got[j].of = n /\ n \in h.damaged)
  <2>1. \A j \in 1 .. k - 1 : j \in 1 .. Len(got) /\ j < k
    BY <1>2
  <2> QED
    BY <1>1, <2>1 DEF Once
<1> HIDE DEF n
<1>5. ASSUME CanBeRead(h, n) PROVE got[k].data = h.sent[n]
  <2>1. n <= n /\ n \in Nat
    BY <1>2, <1>3
  <2>2. PICK j \in 1 .. k : got[j] = [data |-> h.sent[n], of |-> n]
    BY <1>3, <1>5, <2>1, CameOut DEF n
  <2>3. n \notin h.damaged /\ got[j].of = n /\ got[j].data = h.sent[n]
    BY <1>5, <2>2 DEF CanBeRead
  <2>4. j \in 1 .. k - 1 \/ j = k
    BY <1>2
  <2> QED
    BY <1>4, <2>1, <2>3, <2>4
<1>6. ASSUME NEW m \in 1 .. n - 1, CanBeRead(h, m) PROVE \E j \in 1 .. k - 1 : got[j].of = m
  <2>1. m \in 1 .. Len(h.sent) /\ m <= n /\ m # n
    BY <1>2, <1>3
  <2>2. PICK j \in 1 .. k : got[j] = [data |-> h.sent[m], of |-> m]
    BY <1>6, <2>1, CameOut DEF n
  <2>3. got[j].of = m
    BY <2>2
  <2>4. j # k
    BY <2>1, <2>3 DEF n
  <2>5. j \in 1 .. k - 1
    BY <1>2, <2>4
  <2> QED
    BY <2>3, <2>5
<1> QED
  BY <1>3, <1>4, <1>5, <1>6 DEF n

LEMMA UnreadableAre ==
    ASSUME TypeOK, NEW n \in 1 .. Len(sent)
    PROVE  n \in Unreadable <=> ~ CanBeRead(Past, n)
BY PastType DEF Unreadable, Readable, CanBeRead

\* The sender: all that may be new among the unreadable is the frame itself.
LEMMA SendSends ==
    ASSUME StreamInv, SendPacket, UNCHANGED client
    PROVE  Channel!Send
<1> DEFINE N == Len(sent)
<1>1. PICK p \in Packets : sent' = Append(sent, p)
  BY DEF SendPacket
<1>2. UNCHANGED <<damaged, delivered, client>>
  BY DEF SendPacket
<1>3. sent \in Seq(Packets) /\ N \in Nat
  BY DEF StreamInv, TypeOK, LineTypeOK
<1>4. Len(sent') = N + 1 /\ \A n \in 1 .. N : sent'[n] = sent[n]
  BY <1>1, <1>3, AppendProperties
<1>5. 1 .. N + 1 = (1 .. N) \cup {N + 1}
  BY <1>3
<1> HIDE DEF N
<1>6. \A n \in 1 .. N : Readable(n)' <=> Readable(n)
  BY <1>2, <1>4 DEF Readable
<1>7. Unreadable = damaged \cup {n \in 1 .. N : ~ Readable(n)}
  BY DEF Unreadable, N
<1>8. Unreadable' = damaged \cup {n \in 1 .. N + 1 : ~ Readable(n)'}
  BY <1>2, <1>4 DEF Unreadable
<1>9. Unreadable' = Unreadable \/ Unreadable' = Unreadable \cup {N + 1}
  <2>1. CASE Readable(N + 1)'
    BY <1>5, <1>6, <1>7, <1>8, <2>1
  <2>2. CASE ~ Readable(N + 1)'
    BY <1>5, <1>6, <1>7, <1>8, <2>2
  <2> QED
    BY <2>1, <2>2
<1> QED
  BY <1>1, <1>2, <1>9 DEF Channel!Send, N

\* Neither the frame nor one behind it has come out.
NotOut(d) ==
    /\ d \in 1 .. Len(sent) + 1
    /\ \A k \in 1 .. Len(delivered) : delivered[k].of < d

\* What can spoil a frame leaves those alone that came out, or stand before one.
LEMMA DamageSpoils ==
    ASSUME StreamInv, UNCHANGED <<sent, delivered, client>>, NEW D, damaged' = damaged \cup D,
           \A d \in D : d \in damaged \/ NotOut(d)
    PROVE  Channel!Spoil
<1>1. \A n : Readable(n)' <=> Readable(n) /\ n \notin D
  BY DEF Readable
<1>2. Unreadable' = damaged \cup D \cup {n \in 1 .. Len(sent) : ~ Readable(n)'}
  BY DEF Unreadable
<1>3. Unreadable = damaged \cup {n \in 1 .. Len(sent) : ~ Readable(n)}
  BY DEF Unreadable
<1>4. Unreadable' = Unreadable \cup (D \ damaged)
  BY <1>1, <1>2, <1>3
<1>5. /\ D \ damaged \in SUBSET (1 .. Len(sent) + 1)
      /\ \A n \in D \ damaged, k \in 1 .. Len(delivered) : delivered[k].of < n
  BY DEF NotOut
<1> QED
  BY <1>4, <1>5 DEF Channel!Spoil

\* A frame of which a byte is still to come, and the one behind it.
LEMMA StillToCome ==
    ASSUME StreamInv, NEW j \in 1 .. Len(rx \o line),
           NEW d, d = (rx \o line)[j].of \/ d = (rx \o line)[j].of + 1
    PROVE  d \in damaged \/ NotOut(d)
<1> DEFINE W == rx \o line
           n == W[j].of
           h == Past
<1>1. TypeOK /\ Pending(h, W, 1, delivered)
  BY DEF StreamInv
<1>2. /\ h.sent = sent /\ h.damaged = damaged /\ Len(sent) \in Nat
      /\ delivered \in Seq(Packet) /\ W \in Seq(OnLine)
  BY <1>1, PastType, ConcatProperties DEF TypeOK, LineTypeOK
<1> HIDE DEF W, h
<1>3. n \in Nat /\ n >= 1
  <2>1. W[j].of \in 1 .. MaxSent
    BY <1>2, LineByte DEF W
  <2> QED
    BY <2>1, LineAssumption
<1>4. n <= Len(sent)
  BY <1>1, <1>2 DEF Pending, WasSent, W
<1>5. \A k \in 1 .. Len(delivered) :
         delivered[k].of < n \/ (delivered[k].of = n /\ n \in damaged)
  BY <1>1, <1>2 DEF Pending, Passed, W
<1>6. \A k \in 1 .. Len(delivered) : delivered[k].of \in Nat
  <2>1. \A k \in 1 .. Len(delivered) : delivered[k] \in Packet
    BY <1>2
  <2>2. \A packet \in Packet : packet.of \in Nat
    BY LineAssumption DEF Packet
  <2> QED
    BY <2>1, <2>2
<1>7. d = n \/ d = n + 1
  BY DEF W
<1> HIDE DEF n
<1>8. d \in 1 .. Len(sent) + 1
  BY <1>2, <1>3, <1>4, <1>7
<1>9. CASE d = n
  BY <1>5, <1>8, <1>9 DEF NotOut
<1>10. CASE d = n + 1
  <2>1. \A k \in 1 .. Len(delivered) : delivered[k].of < d
    BY <1>3, <1>5, <1>6, <1>10
  <2> QED
    BY <1>8, <2>1 DEF NotOut
<1> QED
  BY <1>7, <1>9, <1>10

LEMMA FaultSpoils ==
    ASSUME StreamInv, LineFault, UNCHANGED client
    PROVE  Channel!Spoil
<1>1. PICK i \in 1 .. Len(line) : damaged' = damaged \cup Spoils(line[i])
  BY DEF LineFault
<1>2. UNCHANGED <<sent, delivered, client>>
  BY DEF LineFault
<1> DEFINE R == Len(rx)
           W == rx \o line
<1>3. /\ R \in Nat /\ Len(line) \in Nat /\ Len(W) = R + Len(line)
      /\ \A j \in 1 .. Len(line) : W[R + j] = line[j]
  BY BeforeChunk
<1> HIDE DEF R, W
<1>4. R + i \in 1 .. Len(W) /\ W[R + i] = line[i]
  BY <1>3
<1>5. \A d \in Spoils(line[i]) : d = W[R + i].of \/ d = W[R + i].of + 1
  BY <1>4 DEF Spoils
<1>6. \A d \in Spoils(line[i]) : d \in damaged \/ NotOut(d)
  BY <1>4, <1>5, StillToCome DEF W
<1> QED
  BY <1>1, <1>2, <1>6, DamageSpoils

LEMMA ResetSpoils ==
    ASSUME StreamInv, ResetAccumulator, UNCHANGED client
    PROVE  Channel!Spoil
<1> DEFINE R == Len(rx)
           W == rx \o line
           D == {rx[i].of : i \in 1 .. R}
<1>1. damaged' = damaged \cup D /\ UNCHANGED <<sent, delivered, client>>
  BY DEF ResetAccumulator
<1>2. /\ R \in Nat /\ Len(line) \in Nat /\ Len(W) = R + Len(line)
      /\ \A j \in 1 .. R : W[j] = rx[j]
  BY BeforeChunk
<1> HIDE DEF W
<1>3. ASSUME NEW d \in D
      PROVE  d \in damaged \/ NotOut(d)
  <2>1. PICK i \in 1 .. R : d = rx[i].of
    OBVIOUS
  <2> HIDE DEF R, D
  <2>2. i \in 1 .. Len(W) /\ d = W[i].of
    BY <1>2, <2>1
  <2> QED
    BY <2>2, StillToCome DEF W
<1> HIDE DEF D
<1> QED
  BY <1>1, <1>3, DamageSpoils

\* The receiver has read a chunk.
LEMMA ChunkDelivers ==
    ASSUME StreamInv, StreamInv', GrowsTo(delivered, delivered'), UNCHANGED <<sent, damaged, client>>
    PROVE  Channel!Deliver \/ UNCHANGED Channel!vars
<1> DEFINE h == Past
           out == delivered'
           W == (rx \o line)'
<1>1. /\ UNCHANGED Unreadable /\ Past' = h
  BY DEF Unreadable, Readable, Past
<1>2. /\ TypeOK /\ TypeOK' /\ Pending(h, W, 1, out)
  BY <1>1 DEF StreamInv
<1>3. /\ h \in Pasts /\ h.sent = sent /\ h.damaged = damaged /\ W \in Seq(OnLine)
      /\ delivered \in Seq(Packet) /\ out \in Seq(Packet)
  <2>1. h \in Pasts /\ h.sent = sent /\ h.damaged = damaged /\ delivered \in Seq(Packet)
    BY <1>2, PastType
  <2>2. rx' \in Seq(OnLine) /\ line' \in Seq(OnLine) /\ delivered' \in Seq(Packet)
    BY <1>2 DEF TypeOK, LineTypeOK, Packet
  <2>3. W \in Seq(OnLine)
    BY <2>2, ConcatProperties
  <2> QED
    BY <2>1, <2>2, <2>3
<1>4. /\ Len(delivered) \in Nat /\ Len(out) \in Nat /\ Len(delivered) <= Len(out)
      /\ \A k \in 1 .. Len(delivered) : out[k] = delivered[k]
  BY <1>3 DEF GrowsTo
<1>5. \A n \in 1 .. Len(sent) : n \in Unreadable <=> ~ CanBeRead(h, n)
  BY <1>2, UnreadableAre
<1>6. damaged \subseteq Unreadable
  BY DEF Unreadable
<1> HIDE DEF h, W
<1>7. ASSUME NEW k \in 1 .. Len(out) PROVE Channel!Follows(out, k)
  <2> DEFINE n == out[k].of
  <2>1. /\ n \in 1 .. Len(sent)
        /\ CanBeRead(h, n) => out[k].data = sent[n]
        /\ \A j \in 1 .. k - 1 : out[j].of < n \/ (out[j].of = n /\ n \in damaged)
        /\ \A m \in 1 .. n - 1 : CanBeRead(h, m) => \E j \in 1 .. k - 1 : out[j].of = m
    <3> HIDE DEF out
    <3> QED
      BY <1>2, <1>3, InTheirOrder
  <2> HIDE DEF out
  <2>2. \A m \in 1 .. n - 1 : m \in 1 .. Len(sent)
    <3>1. Len(sent) \in Nat
      BY <1>2 DEF TypeOK, LineTypeOK
    <3> QED
      BY <2>1, <3>1
  <2>3. n \notin Unreadable => out[k].data = sent[n]
    BY <1>5, <2>1
  <2>4. \A j \in 1 .. k - 1 : out[j].of < n \/ (out[j].of = n /\ n \in Unreadable)
    BY <1>6, <2>1
  <2>5. \A m \in 1 .. n - 1 : m \in Unreadable \/ \E j \in 1 .. k - 1 : out[j].of = m
    BY <1>5, <2>1, <2>2
  <2> QED
    BY <2>1, <2>3, <2>4, <2>5 DEF Channel!Follows
<1>8. CASE Len(delivered) < Len(out)
  <2>1. \A k \in Len(delivered) + 1 .. Len(out) : k \in 1 .. Len(out)
    BY <1>4
  <2> QED
    BY <1>1, <1>4, <1>7, <1>8, <2>1 DEF Channel!Deliver
<1>9. CASE ~ (Len(delivered) < Len(out))
  <2>1. Len(out) = Len(delivered)
    BY <1>4, <1>9
  <2> HIDE DEF out
  <2>2. out = delivered
    BY <1>3, <1>4, <2>1, SeqEqual
  <2> QED
    BY <1>1, <2>2 DEF Channel!vars, out
<1> QED
  BY <1>8, <1>9

LEMMA InitIsChannel == Init => Channel!Init
BY DEF Init, LineInit, Channel!Init, Unreadable

LEMMA StepIsChannel == StreamInv /\ StreamInv' /\ [Next]_vars => [Channel!Next]_(Channel!vars)
<1> SUFFICES ASSUME StreamInv, StreamInv', [Next]_vars
             PROVE  Channel!Next \/ UNCHANGED Channel!vars
  BY DEF Channel!vars
<1>1. ASSUME UNCHANGED <<lineVars, client>> PROVE UNCHANGED Channel!vars
  BY <1>1 DEF lineVars, Channel!vars, Unreadable, Readable
<1>2. CASE FillBuffer
  BY <1>1, <1>2 DEF FillBuffer
<1>3. CASE Stream
  <2>1. UNCHANGED client /\ (Line \/ Js \/ Py)
    BY <1>3 DEF Stream
  <2>2. CASE SendPacket
    BY <2>1, <2>2, SendSends DEF Channel!Next
  <2>3. CASE LineFault
    BY <2>1, <2>3, FaultSpoils DEF Channel!Next
  <2>4. CASE client = "js" /\ JsReceiveBytes
    <3>1. GrowsTo(delivered, delivered')
      BY <2>1, <2>4, JsKeeps
    <3>2. UNCHANGED <<sent, damaged, client>>
      BY <2>1, <2>4 DEF JsReceiveBytes
    <3> QED
      BY <3>1, <3>2, ChunkDelivers DEF Channel!Next
  <2>5. CASE ResetAccumulator
    BY <2>1, <2>5, ResetSpoils DEF Channel!Next
  <2>6. CASE client = "py" /\ PyReceiveBytes
    <3>1. GrowsTo(delivered, delivered')
      BY <2>1, <2>6, PyKeeps
    <3>2. UNCHANGED <<sent, damaged, client>>
      BY <2>1, <2>6 DEF PyReceiveBytes
    <3> QED
      BY <3>1, <3>2, ChunkDelivers DEF Channel!Next
  <2> QED
    BY <2>1, <2>2, <2>3, <2>4, <2>5, <2>6 DEF Line, Js, Py
<1>4. CASE UNCHANGED vars
  BY <1>1, <1>4 DEF vars
<1> QED
  BY <1>2, <1>3, <1>4 DEF Next

\* Line and receiver together are a channel of frames, for every bound on
\* packets, faults and the accumulator: receiveBytes() and receive_bytes() take
\* back nothing they handed on, skip no frame that can be read, give them in
\* order and as they were sent; and no fault, overrun or resetAccumulator()
\* reaches a frame that came out or stands before one that did.
THEOREM StreamIsChannel == Spec => ImplementsChannel
BY StreamInvariant, InitIsChannel, StepIsChannel, PTL DEF Spec, ImplementsChannel, Channel!Spec
=============================================================================
