--------------------------- MODULE CobsLinkProofs ---------------------------
(***************************************************************************)
(* Proofs about the serial link, for packets of any length over any byte.  *)
(*                                                                         *)
(* The codecs first.  The Tether's encoder (tether/cobs) and the           *)
(* firmware's decoder (cobs.h) go byte by byte: after i bytes, what the    *)
(* decoder makes of the encoder's output, with the open block, is the      *)
(* first i bytes.  The other direction goes by blocks, from the end of the *)
(* frame back: what is decoded from a block on is what was encoded from it *)
(* on, unless a zero comes behind a full block, and then it is shorter.    *)
(*                                                                         *)
(* Then the line.  The invariant looks at the bytes under way together     *)
(* with those of the frame being read: every packet that was sent is among *)
(* those received, or is a frame behind a zero there, and the order of     *)
(* both is the order of sending.  A torn frame, ended by a zero, only adds *)
(* to the bytes.                                                           *)
(***************************************************************************)
EXTENDS CobsLink, SequenceTheorems, NaturalsInduction, WellFoundedInduction, TLAPS

-----------------------------------------------------------------------------
(* Induction.  The theorem that a well-founded relation has minimal        *)
(* elements takes no operator, and that is all an induction needs.         *)

LEMMA Least ==
  ASSUME NEW T \in SUBSET Nat, T # {}
  PROVE  \E m \in T : \A k \in T : m <= k
<1> DEFINE R == {p \in Nat \X Nat : p[1] < p[2]}
<1>1. IsWellFoundedOn(R, Nat)
  BY NatLessThanWellFounded DEF OpToRel
<1>2. PICK m \in T : \A k \in T : <<k, m>> \notin R
  BY <1>1, WFMin
<1>3. ASSUME NEW k \in T PROVE m <= k
  <2>1. <<k, m>> \notin R
    BY <1>2
  <2> QED BY <2>1
<1> QED BY <1>3

\* Upwards, to n.
LEMMA Ascend ==
  ASSUME NEW n \in Nat, NEW T, 0 \in T, \A k \in 0 .. n - 1 : k \in T => k + 1 \in T
  PROVE  \A k \in 0 .. n : k \in T
<1> SUFFICES ASSUME NEW k \in 0 .. n, k \notin T PROVE FALSE
  OBVIOUS
<1> DEFINE U == {i \in 0 .. n : i \notin T}
<1>1. U # {} /\ U \in SUBSET Nat
  OBVIOUS
<1>2. PICK m \in U : \A i \in U : m <= i
  BY <1>1, Least
<1>3. m \in 0 .. n /\ m # 0 /\ m - 1 \in 0 .. n - 1 /\ m - 1 \notin U
  BY <1>2
<1> QED BY <1>2, <1>3

\* Downwards, from n + 1; what holds above p may be used for p.
LEMMA Descend ==
  ASSUME NEW n \in Nat, NEW T, n + 1 \in T,
         \A p \in 1 .. n : (\A q \in p + 1 .. n + 1 : q \in T) => p \in T
  PROVE  \A p \in 1 .. n + 1 : p \in T
<1> SUFFICES ASSUME NEW p \in 1 .. n + 1, p \notin T PROVE FALSE
  OBVIOUS
<1> DEFINE U == {i \in 0 .. n : n + 1 - i \notin T}
<1>1. U # {} /\ U \in SUBSET Nat
  <2>1. n + 1 - p \in 0 .. n /\ n + 1 - (n + 1 - p) = p
    OBVIOUS
  <2>2. n + 1 - p \in U
    BY <2>1
  <2>3. U \subseteq Nat
    OBVIOUS
  <2> HIDE DEF U
  <2> QED BY <2>2, <2>3
<1>2. PICK m \in U : \A i \in U : m <= i
  BY <1>1, Least
<1> DEFINE q == n + 1 - m
<1>3. q \in 1 .. n /\ q \notin T
  BY <1>2
<1>4. ASSUME NEW r \in q + 1 .. n + 1, r \notin T PROVE FALSE
  <2>1. n + 1 - r \in U /\ n + 1 - r < m
    BY <1>2, <1>4
  <2> QED BY <2>1, <1>2
<1> QED BY <1>3, <1>4

-----------------------------------------------------------------------------
(* Recursive functions.  A function that is defined by recursion satisfies *)
(* its definition if some function does: there is one when every step      *)
(* stays in a set, from element to element or by jumps.                    *)

Stepwise(n, S, a, G) ==
  {f \in [0 .. n -> S] : f[0] = a /\ \A i \in 1 .. n : f[i] = G[i][f[i - 1]]}

Jumping(n, S, a, G, J) ==
  {f \in [1 .. n + 1 -> S] : f[n + 1] = a /\ \A p \in 1 .. n : f[p] = G[p][f[J[p]]]}

LEMMA Steps ==
  ASSUME NEW n \in Nat, NEW S, NEW a \in S, NEW G \in [1 .. n -> [S -> S]]
  PROVE  Stepwise(n, S, a, G) # {}
<1> DEFINE Is(f, k) == /\ f \in [0 .. k -> S]
                       /\ f[0] = a
                       /\ \A i \in 1 .. k : f[i] = G[i][f[i - 1]]
           T == {k \in 0 .. n : \E f : Is(f, k)}
<1>1. 0 \in T
  <2>1. Is([i \in 0 .. 0 |-> a], 0)
    OBVIOUS
  <2> HIDE DEF Is
  <2> QED BY <2>1
<1>2. ASSUME NEW k \in 0 .. n - 1, k \in T PROVE k + 1 \in T
  <2>1. PICK f : Is(f, k)
    BY <1>2
  <2> DEFINE g == [i \in 0 .. k + 1 |-> IF i = k + 1 THEN G[k + 1][f[k]] ELSE f[i]]
  <2>2. G[k + 1][f[k]] \in S
    BY <2>1
  <2>3. g \in [0 .. k + 1 -> S] /\ g[0] = a
    BY <2>1, <2>2
  <2>4. \A i \in 1 .. k + 1 : g[i] = G[i][g[i - 1]]
    BY <2>1
  <2>5. Is(g, k + 1)
    BY <2>3, <2>4
  <2> HIDE DEF Is
  <2> QED BY <2>5
<1>3. \A k \in 0 .. n : k \in T
  <2> HIDE DEF T
  <2> QED BY <1>1, <1>2, Ascend
<1>4. PICK f : Is(f, n)
  BY <1>3
<1> QED BY <1>4 DEF Stepwise

LEMMA Jumps ==
  ASSUME NEW n \in Nat, NEW S, NEW a \in S, NEW G \in [1 .. n -> [S -> S]],
         NEW J \in [1 .. n -> 1 .. n + 1], \A p \in 1 .. n : J[p] > p
  PROVE  Jumping(n, S, a, G, J) # {}
<1> DEFINE Is(f, k) == /\ f \in [k .. n + 1 -> S]
                       /\ f[n + 1] = a
                       /\ \A p \in k .. n : f[p] = G[p][f[J[p]]]
           T == {k \in 1 .. n + 1 : \E f : Is(f, k)}
<1>1. n + 1 \in T
  <2>1. Is([i \in n + 1 .. n + 1 |-> a], n + 1)
    OBVIOUS
  <2> HIDE DEF Is
  <2> QED BY <2>1
<1>2. ASSUME NEW k \in 1 .. n, \A q \in k + 1 .. n + 1 : q \in T PROVE k \in T
  <2>0. k + 1 \in T
    <3>1. k + 1 \in k + 1 .. n + 1
      OBVIOUS
    <3> HIDE DEF T
    <3> QED BY <3>1, <1>2
  <2>1. PICK f : Is(f, k + 1)
    BY <2>0
  <2> DEFINE g == [i \in k .. n + 1 |-> IF i = k THEN G[k][f[J[k]]] ELSE f[i]]
  <2>2. J[k] \in k + 1 .. n + 1
    OBVIOUS
  <2>3. G[k][f[J[k]]] \in S
    BY <2>1, <2>2
  <2>4. g \in [k .. n + 1 -> S] /\ g[n + 1] = a
    BY <2>1, <2>3
  <2>5. \A p \in k .. n : g[p] = G[p][g[J[p]]]
    <3> TAKE p \in k .. n
    <3>1. J[p] \in k + 1 .. n + 1
      OBVIOUS
    <3>2. g[J[p]] = f[J[p]]
      BY <3>1
    <3>3. CASE p = k
      BY <3>2, <3>3
    <3>4. CASE p # k
      <4>1. p \in k + 1 .. n
        BY <3>4
      <4>2. g[p] = f[p] /\ f[p] = G[p][f[J[p]]]
        BY <4>1, <2>1
      <4> QED BY <4>2, <3>2
    <3> QED BY <3>3, <3>4
  <2>6. Is(g, k)
    BY <2>4, <2>5
  <2> HIDE DEF Is
  <2> QED BY <2>6
<1>3. \A k \in 1 .. n + 1 : k \in T
  <2> HIDE DEF T
  <2> QED BY <1>1, <1>2, Descend
<1>4. PICK f : Is(f, 1)
  BY <1>3
<1> QED BY <1>4 DEF Jumping

\* Two such functions agree as far as their steps do.
LEMMA Agree ==
  ASSUME NEW n \in Nat, NEW S, NEW f \in [0 .. n -> S], NEW g \in [0 .. n -> S],
         f[0] = g[0] /\ \A i \in 1 .. n : f[i - 1] = g[i - 1] => f[i] = g[i]
  PROVE  f = g
<1> DEFINE T == {i \in 0 .. n : f[i] = g[i]}
<1>1. 0 \in T
  OBVIOUS
<1>2. ASSUME NEW k \in 0 .. n - 1, k \in T PROVE k + 1 \in T
  <2>1. k + 1 \in 1 .. n /\ (k + 1) - 1 = k /\ f[k] = g[k]
    BY <1>2
  <2>2. f[k + 1] = g[k + 1]
    BY <2>1
  <2> QED BY <2>1, <2>2
<1>3. \A k \in 0 .. n : k \in T
  <2> HIDE DEF T
  <2> QED BY <1>1, <1>2, Ascend
<1> QED BY <1>3

-----------------------------------------------------------------------------
(* Bytes, sums, and the checksum.                                          *)

NZ == Byte \ {0}

LEMMA Sizes ==
  /\ Base \in Nat /\ Base >= 3
  /\ MaxCode \in Nat /\ MaxRun \in Nat /\ MaxRun >= 1
  /\ MaxCode = MaxRun + 1 /\ Base = MaxCode + 1
  /\ Byte = 0 .. MaxCode /\ NZ = 1 .. MaxCode
BY CobsAssumption DEF MaxCode, MaxRun, Byte, NZ

LEMMA Remainder ==
  ASSUME NEW a \in Nat
  PROVE  /\ a % Base \in Byte
         /\ a < Base => a % Base = a
BY Sizes, CobsAssumption DEF Byte

\* What Sums computes.
LEMMA SumsIs ==
  ASSUME NEW data \in Seq(Byte)
  PROVE  /\ Sums(data) \in [0 .. Len(data) -> Byte]
         /\ Sums(data)[0] = 0
         /\ \A i \in 1 .. Len(data) :
              Sums(data)[i] = (Sums(data)[i - 1] + data[i]) % Base
<1> DEFINE n == Len(data)
           G == [i \in 1 .. n |-> [s \in Byte |-> (s + data[i]) % Base]]
<1>1. n \in Nat /\ 0 \in Byte
  BY Sizes
<1>2. ASSUME NEW i \in 1 .. n, NEW s \in Byte
      PROVE  (s + data[i]) % Base \in Byte
  <2>1. data[i] \in Byte
    OBVIOUS
  <2>2. s + data[i] \in Nat
    BY <2>1, Sizes
  <2> QED BY <2>2, Remainder
<1>3. G \in [1 .. n -> [Byte -> Byte]]
  BY <1>2
<1>4. Stepwise(n, Byte, 0, G) # {}
  <2> HIDE DEF n, G
  <2> QED BY <1>1, <1>3, Steps
<1>5. PICK f \in [0 .. n -> Byte] :
        f[0] = 0 /\ \A i \in 1 .. n : f[i] = (f[i - 1] + data[i]) % Base
  <2>1. PICK f \in [0 .. n -> Byte] :
          f[0] = 0 /\ \A i \in 1 .. n : f[i] = G[i][f[i - 1]]
    BY <1>4 DEF Stepwise
  <2>2. \A i \in 1 .. n : f[i - 1] \in Byte
    BY <2>1, <1>1
  <2> QED BY <2>1, <2>2
<1>6. f = [i \in 0 .. Len(data) |-> IF i = 0 THEN 0 ELSE (f[i - 1] + data[i]) % Base]
  BY <1>5, <1>1
<1>7. Sums(data) = [i \in 0 .. Len(data) |-> IF i = 0 THEN 0 ELSE (Sums(data)[i - 1] + data[i]) % Base]
  BY <1>6 DEF Sums
<1> DEFINE g == Sums(data)
           T == {i \in 0 .. n : g[i] \in Byte}
<1>8. g[0] = 0 /\ \A i \in 1 .. n : g[i] = (g[i - 1] + data[i]) % Base
  BY <1>7, <1>1
<1>9. \A i \in 0 .. n : i \in T
  <2>1. 0 \in T
    BY <1>8, <1>1
  <2>2. ASSUME NEW k \in 0 .. n - 1, k \in T PROVE k + 1 \in T
    <3>1. k + 1 \in 1 .. n /\ (k + 1) - 1 = k /\ g[k] \in Byte
      BY <2>2, <1>1
    <3>2. g[k + 1] = (g[k] + data[k + 1]) % Base
      BY <3>1, <1>8
    <3>3. g[k + 1] \in Byte
      BY <3>1, <3>2, <1>2
    <3> QED BY <3>1, <3>3
  <2> HIDE DEF T, n
  <2> QED BY <2>1, <2>2, <1>1, Ascend
<1>10. g \in [0 .. n -> Byte]
  BY <1>7, <1>9
<1> QED BY <1>8, <1>10

LEMMA ByteSumIs ==
  ASSUME NEW data \in Seq(Byte)
  PROVE  /\ ByteSum(data) \in Byte
         /\ \A b \in Byte : ByteSum(Append(data, b)) = (ByteSum(data) + b) % Base
<1>1. ByteSum(data) \in Byte
  BY SumsIs DEF ByteSum
<1>2. ASSUME NEW b \in Byte
      PROVE  ByteSum(Append(data, b)) = (ByteSum(data) + b) % Base
  <2> DEFINE n == Len(data)
             f == Sums(data)
             g == Sums(Append(data, b))
  <2>1. /\ Append(data, b) \in Seq(Byte) /\ Len(Append(data, b)) = n + 1 /\ n \in Nat
        /\ Append(data, b)[n + 1] = b
        /\ \A i \in 1 .. n : Append(data, b)[i] = data[i]
    OBVIOUS
  <2>2. f[0] = 0 /\ \A i \in 1 .. n : f[i] = (f[i - 1] + data[i]) % Base
    BY SumsIs
  <2>3. g[0] = 0 /\ \A i \in 1 .. n + 1 : g[i] = (g[i - 1] + Append(data, b)[i]) % Base
    BY <2>1, SumsIs
  <2> DEFINE h == [i \in 0 .. n |-> g[i]]
  <2>4. f = h
    <3>1. h \in [0 .. n -> Byte] /\ f \in [0 .. n -> Byte]
      <4>1. g \in [0 .. n + 1 -> Byte]
        BY <2>1, SumsIs
      <4>2. f \in [0 .. n -> Byte]
        BY SumsIs
      <4> QED BY <4>1, <4>2, <2>1
    <3>2. f[0] = h[0] /\ \A i \in 1 .. n : f[i - 1] = h[i - 1] => f[i] = h[i]
      BY <2>1, <2>2, <2>3
    <3> HIDE DEF f, h, n
    <3> QED BY <3>1, <3>2, <2>1, Agree
  <2>5. g[n] = f[n]
    BY <2>1, <2>4
  <2>6. g[n + 1] = (f[n] + b) % Base
    BY <2>1, <2>3, <2>5
  <2> QED BY <2>1, <2>6 DEF ByteSum
<1> QED BY <1>1, <1>2

\* A packet is sealed with its checksum, and unsealed by taking it off.
LEMMA Sealing ==
  ASSUME NEW packet \in Seq(Byte), packet # << >>
  PROVE  /\ Sealed(packet) \in Seq(Byte) /\ Len(Sealed(packet)) = Len(packet) + 1
         /\ IsSealed(Sealed(packet)) /\ Unsealed(Sealed(packet)) = packet
<1> DEFINE b == Base - 1 - ByteSum(packet)
<1>1. ByteSum(packet) \in Byte
  BY ByteSumIs
<1>2. b \in Byte
  BY <1>1, Sizes
<1>3. ByteSum(Sealed(packet)) = (ByteSum(packet) + b) % Base
  BY <1>2, ByteSumIs DEF Sealed
<1>4. ByteSum(packet) + b = Base - 1 /\ Base - 1 \in Nat
  BY <1>1, Sizes
<1>5. (Base - 1) % Base = Base - 1
  BY <1>4, Remainder, Sizes
<1>6. /\ Sealed(packet) \in Seq(Byte) /\ Len(Sealed(packet)) = Len(packet) + 1
      /\ Len(packet) \in Nat \ {0}
  BY <1>2, EmptySeq DEF Sealed
<1>7. IsSealed(Sealed(packet))
  BY <1>3, <1>4, <1>5, <1>6 DEF IsSealed
<1>8. Unsealed(Sealed(packet)) = packet
  <2>1. Front(Sealed(packet)) = SubSeq(Append(packet, b), 1, Len(packet))
    BY <1>2, <1>6 DEF Front, Sealed
  <2>2. SubSeq(Append(packet, b), 1, Len(packet)) = packet
    BY <1>2
  <2> QED BY <2>1, <2>2 DEF Unsealed
<1> QED BY <1>6, <1>7, <1>8

\* What is unsealed is made of bytes.
LEMMA Unsealing ==
  ASSUME NEW data \in Seq(Byte), IsSealed(data)
  PROVE  Unsealed(data) \in Seq(Byte) /\ Unsealed(data) # << >>
<1>1. Len(data) \in Nat /\ Len(data) >= 2
  BY DEF IsSealed
<1>2. Unsealed(data) = SubSeq(data, 1, Len(data) - 1)
  BY DEF Unsealed, Front
<1>3. SubSeq(data, 1, Len(data) - 1) \in Seq(Byte)
  BY <1>1
<1>4. Len(SubSeq(data, 1, Len(data) - 1)) = Len(data) - 1
  BY <1>1
<1>5. Unsealed(data) # << >>
  <2>1. Len(Unsealed(data)) >= 1
    BY <1>1, <1>2, <1>4
  <2>2. Len(<< >>) = 0
    OBVIOUS
  <2> QED BY <2>1, <2>2
<1> QED BY <1>2, <1>3, <1>5

-----------------------------------------------------------------------------
(* The firmware's decoder, after any bytes that are not zero.              *)

DecoderState ==
  {d \in [packet : Seq(Byte), code : Byte, copy : 0 .. MaxRun, awaiting : BOOLEAN] :
     d.awaiting <=> d.copy = 0}

LEMMA DecoderInitial == Decoder \in DecoderState
BY Sizes DEF Decoder, DecoderState

LEMMA DecodeCode ==
  ASSUME NEW d \in DecoderState, d.awaiting, NEW b \in NZ
  PROVE  /\ DecodeByte(d, b) \in DecoderState
         /\ DecodeByte(d, b) =
              [packet |-> IF b = 1 THEN Append(d.packet, 0) ELSE d.packet,
               code |-> b, copy |-> b - 1, awaiting |-> b = 1]
<1>1. d \in [packet : Seq(Byte), code : Byte, copy : 0 .. MaxRun, awaiting : BOOLEAN]
  BY DEF DecoderState
<1>2. b \in Byte /\ b - 1 \in 0 .. MaxRun /\ 0 \in Byte /\ 0 \in Byte /\ 1 < MaxCode /\ (b - 1 = 0 <=> b = 1)
  BY Sizes
<1>3. Append(d.packet, 0) \in Seq(Byte)
  BY <1>1, <1>2
<1> DEFINE e == [packet |-> IF b = 1 THEN Append(d.packet, 0) ELSE d.packet,
                 code |-> b, copy |-> b - 1, awaiting |-> b = 1]
<1>4. DecodeByte(d, b) = e
  BY <1>1, <1>2 DEF DecodeByte
<1>5. e \in DecoderState
  BY <1>1, <1>2, <1>3 DEF DecoderState
<1> QED BY <1>4, <1>5

LEMMA DecodeData ==
  ASSUME NEW d \in DecoderState, ~d.awaiting, NEW b \in NZ
  PROVE  /\ DecodeByte(d, b) \in DecoderState
         /\ DecodeByte(d, b) =
              [packet |-> IF d.copy = 1 /\ d.code < MaxCode
                          THEN Append(Append(d.packet, b), 0) ELSE Append(d.packet, b),
               code |-> d.code, copy |-> d.copy - 1, awaiting |-> d.copy = 1]
<1>1. /\ d \in [packet : Seq(Byte), code : Byte, copy : 0 .. MaxRun, awaiting : BOOLEAN]
      /\ d.copy # 0
  BY DEF DecoderState
<1>2. b \in Byte /\ 0 \in Byte /\ d.copy - 1 \in 0 .. MaxRun /\ (d.copy - 1 = 0 <=> d.copy = 1)
  BY <1>1, Sizes
<1>3. Append(d.packet, b) \in Seq(Byte) /\ Append(Append(d.packet, b), 0) \in Seq(Byte)
  BY <1>1, <1>2
<1> DEFINE e == [packet |-> IF d.copy = 1 /\ d.code < MaxCode
                            THEN Append(Append(d.packet, b), 0) ELSE Append(d.packet, b),
                 code |-> d.code, copy |-> d.copy - 1, awaiting |-> d.copy = 1]
<1>4. DecodeByte(d, b) = e
  BY <1>1, <1>2 DEF DecodeByte
<1>5. e \in DecoderState
  BY <1>1, <1>2, <1>3 DEF DecoderState
<1> QED BY <1>4, <1>5

LEMMA DecodeByteType ==
  ASSUME NEW d \in DecoderState, NEW b \in NZ
  PROVE  DecodeByte(d, b) \in DecoderState
BY DecodeCode, DecodeData

Decoding(s) ==
  LET d[i \in 0 .. Len(s)] == IF i = 0 THEN Decoder ELSE DecodeByte(d[i - 1], s[i])
  IN d

After(s) == Decoding(s)[Len(s)]

LEMMA DecodingIs ==
  ASSUME NEW s \in Seq(NZ)
  PROVE  /\ Decoding(s) \in [0 .. Len(s) -> DecoderState]
         /\ Decoding(s)[0] = Decoder
         /\ \A i \in 1 .. Len(s) : Decoding(s)[i] = DecodeByte(Decoding(s)[i - 1], s[i])
<1> DEFINE n == Len(s)
           G == [i \in 1 .. n |-> [d \in DecoderState |-> DecodeByte(d, s[i])]]
<1>1. n \in Nat /\ Decoder \in DecoderState
  BY DecoderInitial
<1>2. ASSUME NEW i \in 1 .. n, NEW d \in DecoderState
      PROVE  DecodeByte(d, s[i]) \in DecoderState
  BY DecodeByteType
<1>3. G \in [1 .. n -> [DecoderState -> DecoderState]]
  BY <1>2
<1>4. Stepwise(n, DecoderState, Decoder, G) # {}
  <2> HIDE DEF n, G
  <2> QED BY <1>1, <1>3, Steps
<1>5. PICK f \in [0 .. n -> DecoderState] :
        f[0] = Decoder /\ \A i \in 1 .. n : f[i] = DecodeByte(f[i - 1], s[i])
  <2>1. PICK f \in [0 .. n -> DecoderState] :
          f[0] = Decoder /\ \A i \in 1 .. n : f[i] = G[i][f[i - 1]]
    BY <1>4 DEF Stepwise
  <2>2. \A i \in 1 .. n : f[i - 1] \in DecoderState
    BY <2>1, <1>1
  <2> QED BY <2>1, <2>2
<1>6. f = [i \in 0 .. Len(s) |-> IF i = 0 THEN Decoder ELSE DecodeByte(f[i - 1], s[i])]
  BY <1>5, <1>1
<1>7. Decoding(s) = [i \in 0 .. Len(s) |-> IF i = 0 THEN Decoder ELSE DecodeByte(Decoding(s)[i - 1], s[i])]
  BY <1>6 DEF Decoding
<1> DEFINE g == Decoding(s)
           T == {i \in 0 .. n : g[i] \in DecoderState}
<1>8. g[0] = Decoder /\ \A i \in 1 .. n : g[i] = DecodeByte(g[i - 1], s[i])
  BY <1>7, <1>1
<1>9. \A i \in 0 .. n : i \in T
  <2>1. 0 \in T
    BY <1>8, <1>1
  <2>2. ASSUME NEW k \in 0 .. n - 1, k \in T PROVE k + 1 \in T
    <3>1. k + 1 \in 1 .. n /\ (k + 1) - 1 = k /\ g[k] \in DecoderState
      BY <2>2, <1>1
    <3>2. g[k + 1] = DecodeByte(g[k], s[k + 1])
      BY <3>1, <1>8
    <3>3. g[k + 1] \in DecoderState
      BY <3>1, <3>2, <1>2
    <3> QED BY <3>1, <3>3
  <2> HIDE DEF T, n
  <2> QED BY <2>1, <2>2, <1>1, Ascend
<1>10. g \in [0 .. n -> DecoderState]
  BY <1>7, <1>9
<1> QED BY <1>8, <1>10

LEMMA AfterIs ==
  /\ After(<< >>) = Decoder
  /\ \A s \in Seq(NZ) : After(s) \in DecoderState
  /\ \A s \in Seq(NZ), b \in NZ : After(Append(s, b)) = DecodeByte(After(s), b)
<1>1. After(<< >>) = Decoder
  <2>1. << >> \in Seq(NZ) /\ Len(<< >>) = 0
    OBVIOUS
  <2> QED BY <2>1, DecodingIs DEF After
<1>2. ASSUME NEW s \in Seq(NZ) PROVE After(s) \in DecoderState
  BY DecodingIs DEF After
<1>3. ASSUME NEW s \in Seq(NZ), NEW b \in NZ
      PROVE  After(Append(s, b)) = DecodeByte(After(s), b)
  <2> DEFINE n == Len(s)
             f == Decoding(s)
             g == Decoding(Append(s, b))
             h == [i \in 0 .. n |-> g[i]]
  <2>1. /\ Append(s, b) \in Seq(NZ) /\ Len(Append(s, b)) = n + 1 /\ n \in Nat
        /\ Append(s, b)[n + 1] = b
        /\ \A i \in 1 .. n : Append(s, b)[i] = s[i]
    OBVIOUS
  <2>2. f[0] = Decoder /\ \A i \in 1 .. n : f[i] = DecodeByte(f[i - 1], s[i])
    BY DecodingIs
  <2>3. g[0] = Decoder /\ \A i \in 1 .. n + 1 : g[i] = DecodeByte(g[i - 1], Append(s, b)[i])
    BY <2>1, DecodingIs
  <2>4. f = h
    <3>1. h \in [0 .. n -> DecoderState] /\ f \in [0 .. n -> DecoderState]
      <4>1. g \in [0 .. n + 1 -> DecoderState]
        BY <2>1, DecodingIs
      <4>2. f \in [0 .. n -> DecoderState]
        BY DecodingIs
      <4> QED BY <4>1, <4>2, <2>1
    <3>2. f[0] = h[0] /\ \A i \in 1 .. n : f[i - 1] = h[i - 1] => f[i] = h[i]
      BY <2>1, <2>2, <2>3
    <3> HIDE DEF f, h, n
    <3> QED BY <3>1, <3>2, <2>1, Agree
  <2>5. g[n] = f[n]
    BY <2>1, <2>4
  <2>6. g[n + 1] = DecodeByte(f[n], b)
    BY <2>1, <2>3, <2>5
  <2> QED BY <2>1, <2>6 DEF After
<1> QED BY <1>1, <1>2, <1>3

-----------------------------------------------------------------------------
(* What the Tether encodes, the firmware decodes.                          *)

LEMMA Prefixing ==
  ASSUME NEW S, NEW s \in Seq(S)
  PROVE  /\ SubSeq(s, 1, 0) = << >>
         /\ SubSeq(s, 1, Len(s)) = s
         /\ \A j \in 0 .. Len(s) : SubSeq(s, 1, j) \in Seq(S) /\ Len(SubSeq(s, 1, j)) = j
         /\ \A j \in 0 .. Len(s) - 1 :
              SubSeq(s, 1, j + 1) = Append(SubSeq(s, 1, j), s[j + 1])
<1>1. ASSUME NEW j \in 0 .. Len(s) - 1
      PROVE  SubSeq(s, 1, j + 1) = Append(SubSeq(s, 1, j), s[j + 1])
  OBVIOUS
<1>2. ASSUME NEW j \in 0 .. Len(s)
      PROVE  SubSeq(s, 1, j) \in Seq(S) /\ Len(SubSeq(s, 1, j)) = j
  OBVIOUS
<1>3. SubSeq(s, 1, 0) = << >> /\ SubSeq(s, 1, Len(s)) = s
  OBVIOUS
<1> QED BY <1>1, <1>2, <1>3

LEMMA AppendAfter ==
  ASSUME NEW S, NEW s \in Seq(S), NEW t \in Seq(S), NEW e \in S
  PROVE  /\ s \o Append(t, e) = Append(s \o t, e)
         /\ s \o <<e>> = Append(s, e)
         /\ s \o << >> = s /\ << >> \o s = s
         /\ s \o t \in Seq(S) /\ Append(s, e) \in Seq(S)
OBVIOUS

\* A block: its code, then its bytes.
LEMMA DecodeBlock ==
  ASSUME NEW o \in Seq(NZ), After(o).awaiting,
         NEW b \in Seq(NZ), Len(b) <= MaxRun
  PROVE  LET e == After(Append(o, Len(b) + 1) \o b)
         IN /\ e.awaiting /\ e.code = Len(b) + 1
            /\ e.packet = IF Len(b) + 1 < MaxCode THEN Append(After(o).packet \o b, 0)
                          ELSE After(o).packet \o b
<1> DEFINE c == Len(b) + 1
           d == After(o)
           n == Len(b)
           A(j) == After(Append(o, c) \o SubSeq(b, 1, j))
           I(j) == [packet |-> d.packet \o SubSeq(b, 1, j), code |-> c,
                    copy |-> n - j, awaiting |-> FALSE]
           T == {j \in 0 .. n - 1 : A(j) = I(j)}
<1>1. c \in NZ /\ n \in 0 .. MaxRun
  BY Sizes
<1>2. d \in DecoderState /\ d.packet \in Seq(Byte) /\ d.awaiting
  BY AfterIs DEF DecoderState
<1>3. NZ \subseteq Byte /\ b \in Seq(Byte)
  BY DEF NZ
<1>4. Append(o, c) \in Seq(NZ)
  BY <1>1
<1>5. After(Append(o, c)) =
        [packet |-> IF c = 1 THEN Append(d.packet, 0) ELSE d.packet,
         code |-> c, copy |-> c - 1, awaiting |-> c = 1]
  <2>1. After(Append(o, c)) = DecodeByte(d, c)
    BY <1>1, AfterIs
  <2> HIDE DEF d, c
  <2> QED BY <2>1, <1>1, <1>2, DecodeCode
<1>6. CASE n = 0
  <2>1. b = << >>
    BY <1>6
  <2>2. Append(o, c) \o b = Append(o, c) /\ d.packet \o b = d.packet
    BY <2>1, <1>2, <1>4
  <2>3. c = 1 /\ c < MaxCode
    BY <1>6, Sizes
  <2>4. After(Append(o, c) \o b) =
          [packet |-> Append(d.packet, 0), code |-> c, copy |-> c - 1, awaiting |-> TRUE]
    BY <1>5, <2>2, <2>3
  <2> HIDE DEF d, c
  <2>5. /\ After(Append(o, c) \o b).awaiting /\ After(Append(o, c) \o b).code = c
        /\ After(Append(o, c) \o b).packet = Append(d.packet, 0)
    BY <2>4
  <2> QED BY <2>2, <2>3, <2>5 DEF c, d
<1>7. CASE n > 0
  <2>1. 0 \in T
    <3>1. SubSeq(b, 1, 0) = << >>
      BY Prefixing
    <3>2. Append(o, c) \o SubSeq(b, 1, 0) = Append(o, c) /\ d.packet \o SubSeq(b, 1, 0) = d.packet
      BY <3>1, <1>2, <1>4
    <3>3. A(0) = [packet |-> d.packet, code |-> c, copy |-> n, awaiting |-> FALSE]
      <4>1. c # 1 /\ c - 1 = n
        BY <1>1, <1>7
      <4> HIDE DEF c, d, n
      <4> QED BY <4>1, <1>5, <3>2
    <3>4. I(0) = [packet |-> d.packet, code |-> c, copy |-> n, awaiting |-> FALSE]
      <4>1. n - 0 = n
        BY <1>1
      <4> HIDE DEF c, d, n
      <4> QED BY <4>1, <3>2
    <3> QED BY <1>1, <1>7, <3>3, <3>4
  <2>2. ASSUME NEW j \in 0 .. n - 1, j \in T
        PROVE  LET x == d.packet \o SubSeq(b, 1, j + 1)
               IN A(j + 1) = [packet |-> IF n - j = 1 /\ c < MaxCode THEN Append(x, 0) ELSE x,
                              code |-> c, copy |-> n - (j + 1), awaiting |-> n - j = 1]
    <3> DEFINE p == SubSeq(b, 1, j)
    <3>1. j \in 0 .. Len(b) - 1 /\ j + 1 \in 1 .. Len(b) /\ b[j + 1] \in NZ
      BY <1>1, <2>2
    <3>2. SubSeq(b, 1, j + 1) = Append(p, b[j + 1]) /\ p \in Seq(NZ)
      BY <3>1, Prefixing
    <3>3. Append(o, c) \o SubSeq(b, 1, j + 1) = Append(Append(o, c) \o p, b[j + 1])
      <4> DEFINE q == Append(o, c)
                 e == b[j + 1]
      <4>1. q \in Seq(NZ) /\ p \in Seq(NZ) /\ e \in NZ
        BY <3>1, <3>2, <1>4
      <4> HIDE DEF p, q, e
      <4>2. q \o Append(p, e) = Append(q \o p, e)
        BY <4>1
      <4> QED BY <4>2, <3>2 DEF q, e
    <3>4. d.packet \o SubSeq(b, 1, j + 1) = Append(d.packet \o p, b[j + 1])
      <4>1. p \in Seq(Byte) /\ b[j + 1] \in Byte
        BY <3>1, <3>2, <1>3
      <4> DEFINE q == d.packet
                 e == b[j + 1]
      <4>2. q \in Seq(Byte) /\ e \in Byte
        BY <1>2, <4>1
      <4> HIDE DEF p, q, e
      <4>3. q \o Append(p, e) = Append(q \o p, e)
        BY <4>1, <4>2
      <4> QED BY <4>3, <3>2 DEF q, e
    <3>5. Append(o, c) \o p \in Seq(NZ)
      BY <3>2, <1>4
    <3>6. A(j + 1) = DecodeByte(A(j), b[j + 1])
      BY <3>1, <3>3, <3>5, AfterIs
    <3>7. A(j) = I(j) /\ A(j) \in DecoderState
      BY <2>2, <3>5, AfterIs
    <3>8. /\ I(j).awaiting = FALSE /\ I(j).packet = d.packet \o p
          /\ I(j).code = c /\ I(j).copy = n - j
      OBVIOUS
    <3> HIDE DEF A, I, p
    <3>9. DecodeByte(A(j), b[j + 1]) =
            [packet |-> IF A(j).copy = 1 /\ A(j).code < MaxCode
                        THEN Append(Append(A(j).packet, b[j + 1]), 0) ELSE Append(A(j).packet, b[j + 1]),
             code |-> A(j).code, copy |-> A(j).copy - 1, awaiting |-> A(j).copy = 1]
      BY <3>1, <3>7, <3>8, DecodeData
    <3>10. (n - j) - 1 = n - (j + 1)
      BY <1>1
    <3> QED BY <3>4, <3>6, <3>7, <3>8, <3>9, <3>10
  <2>3. ASSUME NEW j \in 0 .. (n - 1) - 1, j \in T PROVE j + 1 \in T
    <3>1. j \in 0 .. n - 1 /\ j + 1 \in 0 .. n - 1 /\ n - j # 1
      BY <1>1, <2>3
    <3>2. A(j + 1) = I(j + 1)
      <4> HIDE DEF A, T
      <4> QED BY <2>2, <2>3, <3>1
    <3> QED BY <3>1, <3>2
  <2>4. n - 1 \in T
    <3>1. \A j \in 0 .. n - 1 : j \in T
      <4>1. n - 1 \in Nat
        BY <1>1, <1>7
      <4> HIDE DEF T, n
      <4> QED BY <4>1, <2>1, <2>3, Ascend
    <3> HIDE DEF T
    <3> QED BY <1>1, <1>7, <3>1
  <2>5. SubSeq(b, 1, n) = b
    BY Prefixing
  <2>6. /\ A(n).awaiting /\ A(n).code = c
        /\ A(n).packet = IF c < MaxCode THEN Append(d.packet \o b, 0) ELSE d.packet \o b
    <3>1. n - 1 \in 0 .. n - 1 /\ (n - 1) + 1 = n /\ n - (n - 1) = 1
      BY <1>1, <1>7
    <3>2. A(n) = [packet |-> IF c < MaxCode THEN Append(d.packet \o b, 0) ELSE d.packet \o b,
                  code |-> c, copy |-> n - n, awaiting |-> TRUE]
      <4> HIDE DEF A, T, d, c
      <4> QED BY <2>2, <2>4, <2>5, <3>1
    <3> HIDE DEF A, d
    <3> QED BY <3>2
  <2> QED BY <2>5, <2>6
<1> QED BY <1>1, <1>6, <1>7

Closable     == {a \in [out : Seq(NZ), block : Seq(NZ)] : Len(a.block) <= MaxRun}
EncoderState == {a \in Closable : Len(a.block) < MaxRun}

LEMMA ClosableIs ==
  /\ EncoderState \subseteq Closable
  /\ \A a \in Closable :
       /\ a.out \in Seq(NZ) /\ a.block \in Seq(NZ)
       /\ Len(a.block) \in 0 .. MaxRun
       /\ a = [out |-> a.out, block |-> a.block]
  /\ \A o \in Seq(NZ), b \in Seq(NZ) :
       Len(b) <= MaxRun => [out |-> o, block |-> b] \in Closable
  /\ \A a \in Closable : Len(a.block) < MaxRun => a \in EncoderState
  /\ \A a \in EncoderState : Len(a.block) < MaxRun
BY Sizes DEF Closable, EncoderState

\* What is closed is the block behind what was out, and it decodes.
LEMMA Closing ==
  ASSUME NEW a \in Closable
  PROVE  /\ CloseBlock(a) = [out |-> Append(a.out, Len(a.block) + 1) \o a.block, block |-> << >>]
         /\ CloseBlock(a) \in EncoderState
<1> DEFINE c == Len(a.block) + 1
           o == a.out
           b == a.block
<1>1. o \in Seq(NZ) /\ b \in Seq(NZ) /\ Len(b) \in 0 .. MaxRun
  BY ClosableIs
<1>2. c \in NZ /\ c \in Nat /\ c < Base
  BY <1>1, Sizes
<1>3. c % Base = c
  BY <1>2, Remainder
<1>4. o \o <<c>> \o b = Append(o, c) \o b /\ Append(o, c) \o b \in Seq(NZ)
  <2> HIDE DEF o, b, c
  <2> QED BY <1>1, <1>2
<1>5. CloseBlock(a) = [out |-> Append(o, c) \o b, block |-> << >>]
  BY <1>3, <1>4 DEF CloseBlock
<1>6. << >> \in Seq(NZ) /\ Len(<< >>) = 0 /\ 0 < MaxRun
  BY Sizes
<1> HIDE DEF o, b, c
<1> DEFINE e == [out |-> Append(o, c) \o b, block |-> << >>]
<1>7. e \in EncoderState
  <2>1. e \in Closable
    BY <1>4, <1>6, Sizes DEF Closable
  <2>2. Len(e.block) < MaxRun
    BY <1>6
  <2> HIDE DEF e
  <2> QED BY <2>1, <2>2, ClosableIs
<1> QED BY <1>5, <1>7 DEF o, b, c

LEMMA EncodeByteType ==
  ASSUME NEW a \in EncoderState, NEW b \in Byte
  PROVE  /\ EncodeByte(a, b) \in EncoderState
         /\ b = 0 => EncodeByte(a, b) = CloseBlock(a)
         /\ b # 0 /\ Len(a.block) + 1 = MaxRun =>
              EncodeByte(a, b) = CloseBlock([out |-> a.out, block |-> Append(a.block, b)])
         /\ b # 0 /\ Len(a.block) + 1 # MaxRun =>
              EncodeByte(a, b) = [out |-> a.out, block |-> Append(a.block, b)]
<1> DEFINE g == [out |-> a.out, block |-> Append(a.block, b)]
<1>1. /\ a \in Closable /\ a.out \in Seq(NZ) /\ a.block \in Seq(NZ)
      /\ Len(a.block) < MaxRun /\ Len(a.block) \in Nat /\ MaxRun \in Nat
      /\ a = [out |-> a.out, block |-> a.block]
  BY Sizes, ClosableIs
<1>2. [a EXCEPT !.block = Append(@, b)] = g
  <2>1. a = [out |-> a.out, block |-> a.block]
    BY <1>1
  <2> QED BY <2>1
<1>3. Len(g.block) = Len(a.block) + 1
  BY <1>1
<1>4. EncodeByte(a, b) = IF b = 0 THEN CloseBlock(a)
                         ELSE IF Len(g.block) = MaxRun THEN CloseBlock(g) ELSE g
  BY <1>2 DEF EncodeByte
<1>5. ASSUME b # 0 PROVE g \in Closable
  <2>1. b \in NZ
    BY <1>5 DEF NZ
  <2>2. Append(a.block, b) \in Seq(NZ) /\ Len(Append(a.block, b)) <= MaxRun
    BY <1>1, <2>1
  <2> QED BY <1>1, <2>2, ClosableIs
<1>6. EncodeByte(a, b) \in EncoderState
  <2>1. CASE b = 0
    <3>1. CloseBlock(a) \in EncoderState
      BY <1>1, Closing
    <3> QED BY <3>1, <1>4, <2>1
  <2>2. CASE b # 0 /\ Len(g.block) = MaxRun
    <3> HIDE DEF g
    <3>1. CloseBlock(g) \in EncoderState
      BY <1>5, <2>2, Closing
    <3> QED BY <3>1, <1>4, <2>2
  <2>3. CASE b # 0 /\ Len(g.block) # MaxRun
    <3>1. Len(g.block) < MaxRun
      BY <1>1, <1>3, <2>3
    <3> HIDE DEF g
    <3>2. g \in EncoderState
      BY <1>5, <2>3, <3>1, ClosableIs
    <3> QED BY <3>2, <1>4, <2>3
  <2> QED BY <2>1, <2>2, <2>3
<1> QED BY <1>3, <1>4, <1>6

LEMMA EncodingIs ==
  ASSUME NEW data \in Seq(Byte)
  PROVE  /\ Encoding(data) \in [0 .. Len(data) -> EncoderState]
         /\ Encoding(data)[0] = NoBytes
         /\ \A i \in 1 .. Len(data) :
              Encoding(data)[i] = EncodeByte(Encoding(data)[i - 1], data[i])
<1> DEFINE n == Len(data)
           G == [i \in 1 .. n |-> [a \in EncoderState |-> EncodeByte(a, data[i])]]
<1>1. n \in Nat /\ NoBytes \in EncoderState
  <2>1. << >> \in Seq(NZ) /\ Len(<< >>) = 0 /\ 0 < MaxRun
    BY Sizes
  <2>2. NoBytes \in Closable /\ NoBytes.block = << >>
    BY <2>1, Sizes DEF NoBytes, Closable
  <2> QED BY <2>1, <2>2, ClosableIs
<1>2. ASSUME NEW i \in 1 .. n, NEW a \in EncoderState
      PROVE  EncodeByte(a, data[i]) \in EncoderState
  <2>1. data[i] \in Byte
    BY <1>1
  <2> QED BY <2>1, EncodeByteType
<1>3. G \in [1 .. n -> [EncoderState -> EncoderState]]
  BY <1>2
<1>4. Stepwise(n, EncoderState, NoBytes, G) # {}
  <2> HIDE DEF n, G
  <2> QED BY <1>1, <1>3, Steps
<1>5. PICK f \in [0 .. n -> EncoderState] :
        f[0] = NoBytes /\ \A i \in 1 .. n : f[i] = EncodeByte(f[i - 1], data[i])
  <2>1. PICK f \in [0 .. n -> EncoderState] :
          f[0] = NoBytes /\ \A i \in 1 .. n : f[i] = G[i][f[i - 1]]
    BY <1>4 DEF Stepwise
  <2>2. \A i \in 1 .. n : f[i - 1] \in EncoderState
    BY <2>1, <1>1
  <2> QED BY <2>1, <2>2
<1>6. f = [i \in 0 .. Len(data) |-> IF i = 0 THEN NoBytes ELSE EncodeByte(f[i - 1], data[i])]
  BY <1>5, <1>1
<1>7. Encoding(data) =
        [i \in 0 .. Len(data) |-> IF i = 0 THEN NoBytes ELSE EncodeByte(Encoding(data)[i - 1], data[i])]
  BY <1>6 DEF Encoding
<1> DEFINE g == Encoding(data)
           T == {i \in 0 .. n : g[i] \in EncoderState}
<1>8. g[0] = NoBytes /\ \A i \in 1 .. n : g[i] = EncodeByte(g[i - 1], data[i])
  BY <1>7, <1>1
<1>9. \A i \in 0 .. n : i \in T
  <2>1. 0 \in T
    BY <1>8, <1>1
  <2>2. ASSUME NEW k \in 0 .. n - 1, k \in T PROVE k + 1 \in T
    <3>1. k + 1 \in 1 .. n /\ (k + 1) - 1 = k /\ g[k] \in EncoderState
      BY <2>2, <1>1
    <3>2. g[k + 1] = EncodeByte(g[k], data[k + 1])
      BY <3>1, <1>8
    <3>3. g[k + 1] \in EncoderState
      BY <3>1, <3>2, <1>2
    <3> QED BY <3>1, <3>3
  <2> HIDE DEF T, n
  <2> QED BY <2>1, <2>2, <1>1, Ascend
<1>10. g \in [0 .. n -> EncoderState]
  BY <1>7, <1>9
<1> QED BY <1>8, <1>10

\* A frame of the Tether's holds no zero, and is decoded to the packet.
THEOREM TetherFrames ==
  ASSUME NEW packet \in Seq(Byte), packet # << >>
  PROVE  /\ TetherEncode(packet) \in Seq(NZ)
         /\ DecodedPacket(After(TetherEncode(packet))) = packet
<1> DEFINE data == Sealed(packet)
           n == Len(data)
           g == Encoding(data)
           T == {i \in 0 .. n : /\ After(g[i].out).awaiting
                                /\ After(g[i].out).packet \o g[i].block = SubSeq(data, 1, i)}
<1>1. data \in Seq(Byte) /\ n \in Nat /\ IsSealed(data) /\ Unsealed(data) = packet
  BY Sealing
<1>2. g \in [0 .. n -> EncoderState] /\ g[0] = NoBytes
  BY <1>1, EncodingIs
<1>3. NZ \subseteq Byte /\ 0 \in Byte
  BY Sizes
\* Closing a block that is not full is as adding a zero.
<1>4. ASSUME NEW a \in Closable, After(a.out).awaiting
      PROVE  LET d == After(CloseBlock(a).out)
             IN /\ CloseBlock(a).out \in Seq(NZ) /\ CloseBlock(a).block = << >>
                /\ d.awaiting /\ d.code = Len(a.block) + 1
                /\ d.packet = IF Len(a.block) < MaxRun
                              THEN Append(After(a.out).packet \o a.block, 0)
                              ELSE After(a.out).packet \o a.block
  <2>1. CloseBlock(a).out = Append(a.out, Len(a.block) + 1) \o a.block
    <3> DEFINE x == Append(a.out, Len(a.block) + 1) \o a.block
    <3>1. CloseBlock(a) = [out |-> x, block |-> << >>]
      BY <1>4, Closing
    <3> HIDE DEF x
    <3>2. CloseBlock(a).out = x
      BY <3>1
    <3> QED BY <3>2 DEF x
  <2>2. CloseBlock(a).out \in Seq(NZ) /\ CloseBlock(a).block = << >>
    <3>1. CloseBlock(a) = [out |-> Append(a.out, Len(a.block) + 1) \o a.block, block |-> << >>]
      BY <1>4, Closing
    <3>2. CloseBlock(a) \in EncoderState
      BY <1>4, Closing
    <3>3. CloseBlock(a).out \in Seq(NZ)
      BY <3>2, ClosableIs
    <3> QED BY <3>1, <3>3
  <2>3. Len(a.block) \in Nat /\ (Len(a.block) + 1 < MaxCode <=> Len(a.block) < MaxRun)
    BY <1>4, Sizes, ClosableIs
  <2> DEFINE o == a.out
             b == a.block
             e == After(Append(o, Len(b) + 1) \o b)
  <2>4. /\ e.awaiting /\ e.code = Len(b) + 1
        /\ e.packet = IF Len(b) + 1 < MaxCode THEN Append(After(o).packet \o b, 0)
                      ELSE After(o).packet \o b
    <3>1. o \in Seq(NZ) /\ b \in Seq(NZ) /\ Len(b) <= MaxRun /\ After(o).awaiting
      BY <1>4, Sizes, ClosableIs
    <3> HIDE DEF o, b
    <3> QED BY <3>1, DecodeBlock
  <2> QED BY <2>1, <2>2, <2>3, <2>4
<1>5. 0 \in T
  <2>1. After(g[0].out) = Decoder /\ g[0].block = << >>
    BY <1>2, AfterIs DEF NoBytes
  <2>2. Decoder.awaiting /\ Decoder.packet \o << >> = << >>
    BY DEF Decoder
  <2>3. SubSeq(data, 1, 0) = << >>
    BY <1>1, Prefixing
  <2>4. After(g[0].out).awaiting /\ After(g[0].out).packet \o g[0].block = SubSeq(data, 1, 0)
    BY <2>1, <2>2, <2>3
  <2>5. 0 \in 0 .. n
    BY <1>1
  <2> HIDE DEF g, data, n
  <2> QED BY <2>4, <2>5
<1>6. ASSUME NEW k \in 0 .. n - 1, k \in T PROVE k + 1 \in T
  <2> DEFINE a == g[k]
             b == data[k + 1]
             s == SubSeq(data, 1, k)
             p == After(a.out).packet
  <2>1. k \in 0 .. n /\ k + 1 \in 1 .. n /\ (k + 1) - 1 = k
    BY <1>1, <1>6
  <2>2. a \in EncoderState /\ b \in Byte /\ g[k + 1] = EncodeByte(a, b)
    BY <1>1, <1>2, <2>1, EncodingIs
  <2>3. /\ a \in Closable /\ Len(a.block) \in Nat /\ a.out \in Seq(NZ) /\ a.block \in Seq(NZ)
        /\ Len(a.block) < MaxRun /\ MaxRun \in Nat
    BY <2>2, Sizes, ClosableIs
  <2>4. After(a.out).awaiting /\ p \o a.block = s
    BY <1>6
  <2>5. s \in Seq(Byte) /\ SubSeq(data, 1, k + 1) = Append(s, b)
    BY <1>1, <2>1, Prefixing
  <2>6. p \in Seq(Byte) /\ a.block \in Seq(Byte)
    BY <2>3, <1>3, AfterIs DEF DecoderState
  <2> HIDE DEF a, b, s, p, g
  <2> DEFINE Kept == /\ After(g[k + 1].out).awaiting
                     /\ After(g[k + 1].out).packet \o g[k + 1].block = Append(s, b)
  <2>7. ASSUME b = 0 PROVE Kept
    <3>1. g[k + 1] = CloseBlock(a)
      BY <2>2, <2>7, EncodeByteType
    <3>2. /\ After(CloseBlock(a).out).awaiting /\ CloseBlock(a).block = << >>
          /\ After(CloseBlock(a).out).packet = Append(p \o a.block, 0)
      <4>1. a \in Closable /\ After(a.out).awaiting /\ Len(a.block) < MaxRun
        BY <2>3, <2>4
      <4> QED BY <4>1, <1>4 DEF p
    <3>3. Append(s, 0) \o << >> = Append(s, 0)
      BY <2>5, <1>3
    <3> QED BY <3>1, <3>2, <3>3, <2>4, <2>7
  <2>8. ASSUME b # 0 PROVE Kept
    <3> DEFINE f == [out |-> a.out, block |-> Append(a.block, b)]
    <3>1. b \in NZ
      BY <2>2, <2>8 DEF NZ
    <3>2. /\ f.out = a.out /\ f.block = Append(a.block, b)
          /\ Len(f.block) = Len(a.block) + 1 /\ f \in Closable
      <4>1. /\ Append(a.block, b) \in Seq(NZ) /\ Len(Append(a.block, b)) = Len(a.block) + 1
            /\ Len(Append(a.block, b)) <= MaxRun
        BY <2>3, <3>1
      <4> QED BY <4>1, <2>3, ClosableIs
    <3>3. p \o f.block = Append(s, b)
      <4> DEFINE c == a.block
      <4>1. c \in Seq(Byte)
        BY <2>6
      <4> HIDE DEF c
      <4>2. p \o Append(c, b) = Append(p \o c, b)
        BY <2>2, <2>6, <4>1
      <4> QED BY <4>2, <3>2, <2>4 DEF c
    <3> HIDE DEF f
    <3>4. CASE Len(a.block) + 1 = MaxRun
      <4>1. g[k + 1] = CloseBlock(f)
        BY <2>2, <2>8, <3>4, EncodeByteType DEF f
      <4>2. /\ After(CloseBlock(f).out).awaiting /\ CloseBlock(f).block = << >>
            /\ After(CloseBlock(f).out).packet = p \o f.block
        <5>1. f \in Closable /\ After(f.out).awaiting /\ ~(Len(f.block) < MaxRun)
          BY <2>3, <2>4, <3>2, <3>4
        <5> QED BY <5>1, <3>2, <1>4 DEF p
      <4>3. Append(s, b) \o << >> = Append(s, b)
        BY <2>2, <2>5
      <4> QED BY <4>1, <4>2, <4>3, <3>3
    <3>5. CASE Len(a.block) + 1 # MaxRun
      <4>1. g[k + 1] = f
        BY <2>2, <2>8, <3>5, EncodeByteType DEF f
      <4> QED BY <4>1, <3>2, <3>3, <2>4 DEF p
    <3> QED BY <3>4, <3>5
  <2>9. Kept
    BY <2>7, <2>8
  <2>10. k + 1 \in 0 .. n
    BY <1>1, <2>1
  <2> HIDE DEF n, data
  <2> QED BY <2>5, <2>9, <2>10
<1>7. n \in T
  <2>1. \A k \in 0 .. n : k \in T
    <3> HIDE DEF T, n
    <3> QED BY <1>1, <1>5, <1>6, Ascend
  <2> HIDE DEF T
  <2> QED BY <2>1, <1>1
<1> DEFINE a == g[n]
           e == CloseBlock(a)
<1>8. /\ a \in Closable /\ Len(a.block) \in Nat
      /\ Len(a.block) < MaxRun /\ MaxRun \in Nat
  <2>1. a \in EncoderState
    BY <1>1, <1>2
  <2> HIDE DEF a
  <2> QED BY <2>1, Sizes, ClosableIs
<1>9. After(a.out).awaiting /\ After(a.out).packet \o a.block = data
  <2>1. SubSeq(data, 1, n) = data
    BY <1>1, Prefixing
  <2> QED BY <1>7, <2>1
<1> HIDE DEF a
<1>10. /\ e.out \in Seq(NZ) /\ After(e.out).awaiting
       /\ After(e.out).code < MaxCode /\ After(e.out).packet = Append(data, 0)
  <2>1. Len(a.block) + 1 < MaxCode
    BY <1>8, Sizes
  <2> QED BY <1>4, <1>8, <1>9, <2>1
<1>11. TetherEncode(packet) = e.out
  BY DEF TetherEncode, a
<1>12. Front(Append(data, 0)) = data /\ Append(data, 0) # << >>
  <2> HIDE DEF data
  <2>1. Len(Append(data, 0)) = Len(data) + 1 /\ Len(data) \in Nat
    BY <1>1
  <2>2. SubSeq(Append(data, 0), 1, Len(data)) = data
    BY <1>1, <1>3
  <2>3. Append(data, 0) # << >>
    <3>1. Len(<< >>) = 0
      OBVIOUS
    <3> QED BY <2>1, <3>1
  <2> QED BY <2>1, <2>2, <2>3 DEF Front
<1> HIDE DEF e, data
<1> QED BY <1>1, <1>10, <1>11, <1>12 DEF DecodedPacket

-----------------------------------------------------------------------------
(* The firmware's encoder.                                                 *)

LEMMA RunIs ==
  ASSUME NEW data \in Seq(Byte), NEW p \in 1 .. Len(data)
  PROVE  LET r == RunFrom(data, p)
         IN /\ r \in 0 .. MaxRun /\ p + r - 1 <= Len(data)
            /\ \A i \in p .. p + r - 1 : data[i] # 0
            /\ r = MaxRun \/ p + r > Len(data) \/ data[p + r] = 0
<1> DEFINE n == Len(data)
           Ends0(r) == r = MaxRun \/ p + r > n \/ data[p + r] = 0
           T == {r \in 0 .. MaxRun : Ends0(r)}
<1>1. n \in Nat /\ MaxRun \in Nat
  BY Sizes
<1>2. T \in SUBSET Nat /\ T # {}
  <2>1. MaxRun \in T
    BY <1>1
  <2> QED BY <2>1, <1>1
<1>3. PICK m \in T : \A r \in T : m <= r
  <2> HIDE DEF T
  <2> QED BY <1>2, Least
<1>4. m \in 0 .. MaxRun /\ Ends0(m)
  BY <1>3
<1>5. ASSUME NEW i \in p .. p + m - 1 PROVE i <= n /\ data[i] # 0
  <2>1. i - p \in 0 .. MaxRun /\ i - p < m /\ p + (i - p) = i
    BY <1>1, <1>4
  <2>2. ASSUME Ends0(i - p) PROVE FALSE
    <3>1. i - p \in T
      BY <2>1, <2>2
    <3> HIDE DEF T
    <3>2. m <= i - p
      BY <3>1, <1>3
    <3> QED BY <3>2, <2>1, <1>4
  <2> QED BY <2>1, <2>2
<1>6. p + m - 1 <= n
  <2>1. CASE m = 0
    BY <2>1, <1>1
  <2>2. CASE m # 0
    <3>1. p + m - 1 \in p .. p + m - 1
      BY <2>2, <1>1, <1>4
    <3> QED BY <3>1, <1>5
  <2> QED BY <2>1, <2>2
<1>7. \E r \in 0 .. MaxRun :
        /\ p + r - 1 <= Len(data)
        /\ \A i \in p .. p + r - 1 : data[i] # 0
        /\ r = MaxRun \/ p + r > Len(data) \/ data[p + r] = 0
  BY <1>4, <1>5, <1>6
<1> QED BY <1>7 DEF RunFrom

\* Where the block at p ends, and what comes behind it.
Next0(data, p) == p + RunFrom(data, p)

Behind(data, last, p) ==
  IF Next0(data, p) > Len(data) \/ data[Next0(data, p)] # 0
    THEN EncodeBlocks(data, last)[Next0(data, p)]
  ELSE IF Next0(data, p) = Len(data) THEN last
  ELSE EncodeBlocks(data, last)[Next0(data, p) + 1]

LEMMA NextIs ==
  ASSUME NEW data \in Seq(Byte), NEW p \in 1 .. Len(data)
  PROVE  LET next == Next0(data, p)
         IN /\ next \in p .. Len(data) + 1 /\ next - p \in 0 .. MaxRun
            /\ RunFrom(data, p) = next - p
            /\ \A i \in p .. next - 1 : data[i] # 0
            /\ next - p = MaxRun \/ next = Len(data) + 1 \/ data[next] = 0
            /\ next = p => data[p] = 0
            /\ SubSeq(data, p, next - 1) \in Seq(NZ)
            /\ Len(SubSeq(data, p, next - 1)) = next - p
<1> DEFINE next == Next0(data, p)
           r == RunFrom(data, p)
<1>1. /\ r \in 0 .. MaxRun /\ p + r - 1 <= Len(data)
      /\ \A i \in p .. p + r - 1 : data[i] # 0
      /\ r = MaxRun \/ p + r > Len(data) \/ data[p + r] = 0
  BY RunIs
<1>2. next = p + r
  BY DEF Next0
<1>3. Len(data) \in Nat /\ MaxRun \in Nat /\ MaxRun >= 1
  BY Sizes
<1> HIDE DEF r, next
<1>4. /\ next \in p .. Len(data) + 1 /\ next - p \in 0 .. MaxRun /\ r = next - p
      /\ \A i \in p .. next - 1 : data[i] # 0
      /\ next - p = MaxRun \/ next = Len(data) + 1 \/ data[next] = 0
      /\ next = p => data[p] = 0
  BY <1>1, <1>2, <1>3
<1>5. \A i \in p .. next - 1 : data[i] \in NZ
  BY <1>3, <1>4 DEF NZ
<1>6. SubSeq(data, p, next - 1) \in Seq(NZ) /\ Len(SubSeq(data, p, next - 1)) = next - p
  <2>1. next - 1 \in Int /\ p \in Int
    BY <1>3, <1>4
  <2>2. /\ SubSeq(data, p, next - 1) \in Seq(NZ)
        /\ Len(SubSeq(data, p, next - 1)) = IF p <= next - 1 THEN (next - 1) - p + 1 ELSE 0
    BY <2>1, <1>5, SubSeqProperties
  <2> QED BY <2>1, <2>2, <1>3, <1>4
<1> QED BY <1>4, <1>6 DEF r, next

LEMMA BlocksAre ==
  ASSUME NEW data \in Seq(Byte), NEW last \in Seq(NZ)
  PROVE  /\ EncodeBlocks(data, last) \in [1 .. Len(data) + 1 -> Seq(NZ)]
         /\ EncodeBlocks(data, last)[Len(data) + 1] = << >>
         /\ \A p \in 1 .. Len(data) :
              EncodeBlocks(data, last)[p] =
                <<Next0(data, p) - p + 1>> \o SubSeq(data, p, Next0(data, p) - 1)
                \o Behind(data, last, p)
<1> DEFINE n == Len(data)
           S == Seq(NZ)
           next(p) == Next0(data, p)
           block(p) == <<next(p) - p + 1>> \o SubSeq(data, p, next(p) - 1)
           IsLast(p) == next(p) = n /\ data[next(p)] = 0
           J == [p \in 1 .. n |-> IF next(p) > n THEN next(p)
                                  ELSE IF data[next(p)] # 0 THEN next(p)
                                  ELSE next(p) + 1]
           G == [p \in 1 .. n |-> [s \in S |-> block(p) \o (IF IsLast(p) THEN last ELSE s)]]
           rest(f, p) == IF next(p) > n \/ data[next(p)] # 0 THEN f[next(p)]
                         ELSE IF next(p) = n THEN last ELSE f[next(p) + 1]
<1>1. n \in Nat /\ << >> \in S
  OBVIOUS
<1>2. ASSUME NEW p \in 1 .. n
      PROVE  /\ next(p) \in p .. n + 1 /\ (next(p) = p => data[p] = 0)
             /\ block(p) \in S
  <2>1. /\ next(p) \in p .. n + 1 /\ (next(p) = p => data[p] = 0)
        /\ next(p) - p \in 0 .. MaxRun /\ SubSeq(data, p, next(p) - 1) \in S
    BY NextIs
  <2>2. next(p) - p + 1 \in NZ
    BY <2>1, Sizes
  <2> DEFINE c == next(p) - p + 1
             t == SubSeq(data, p, next(p) - 1)
  <2> HIDE DEF c, t
  <2>3. <<c>> \in Seq(NZ) /\ t \in Seq(NZ)
    BY <2>1, <2>2 DEF c, t
  <2>4. <<c>> \o t \in Seq(NZ)
    BY <2>3
  <2> QED BY <2>1, <2>4 DEF c, t
<1>3. J \in [1 .. n -> 1 .. n + 1] /\ \A p \in 1 .. n : J[p] > p
  <2>1. ASSUME NEW p \in 1 .. n PROVE J[p] \in 1 .. n + 1 /\ J[p] > p
    <3> DEFINE m == next(p)
    <3>1. m \in p .. n + 1 /\ (m = p => data[p] = 0)
      BY <1>2
    <3>2. J[p] = IF m > n THEN m ELSE IF data[m] # 0 THEN m ELSE m + 1
      OBVIOUS
    <3> HIDE DEF m, J
    <3> QED BY <3>1, <3>2, <1>1
  <2> QED BY <2>1
<1>4. G \in [1 .. n -> [S -> S]]
  <2>1. ASSUME NEW p \in 1 .. n, NEW s \in S
        PROVE  block(p) \o (IF IsLast(p) THEN last ELSE s) \in S
    <3> DEFINE t == IF IsLast(p) THEN last ELSE s
    <3>1. t \in S /\ block(p) \in S
      BY <1>2
    <3> HIDE DEF t, block
    <3>2. block(p) \o t \in S
      BY <3>1
    <3> QED BY <3>2 DEF t
  <2> QED BY <2>1
<1>5. Jumping(n, S, << >>, G, J) # {}
  <2> HIDE DEF n, S, G, J
  <2> QED BY <1>1, <1>3, <1>4, Jumps
<1>6. PICK f \in [1 .. n + 1 -> S] :
        f[n + 1] = << >> /\ \A p \in 1 .. n : f[p] = G[p][f[J[p]]]
  BY <1>5 DEF Jumping
<1>7. ASSUME NEW p \in 1 .. n PROVE f[p] = block(p) \o rest(f, p)
  <2>1. f[p] = block(p) \o (IF IsLast(p) THEN last ELSE f[J[p]])
    <3>1. J[p] \in 1 .. n + 1
      BY <1>3
    <3>2. f[J[p]] \in S
      BY <3>1, <1>6
    <3>3. f[p] = G[p][f[J[p]]]
      BY <1>6
    <3> HIDE DEF S, J, block, IsLast
    <3> QED BY <3>2, <3>3
  <2> DEFINE m == next(p)
  <2>2. m \in p .. n + 1
    BY <1>2
  <2>3. J[p] = IF m > n THEN m ELSE IF data[m] # 0 THEN m ELSE m + 1
    OBVIOUS
  <2>4. (IF IsLast(p) THEN last ELSE f[J[p]]) = rest(f, p)
    <3> HIDE DEF m, J
    <3>1. IsLast(p) <=> (m = n /\ data[m] = 0)
      BY DEF m
    <3>2. rest(f, p) = IF m > n \/ data[m] # 0 THEN f[m]
                       ELSE IF m = n THEN last ELSE f[m + 1]
      BY DEF m
    <3> HIDE DEF rest, IsLast
    <3> QED BY <3>1, <3>2, <2>2, <2>3, <1>1
  <2> QED BY <2>1, <2>4
<1> DEFINE Body(f0) ==
             [p \in 1 .. n + 1 |->
               IF p > n THEN << >>
               ELSE LET next1 == p + RunFrom(data, p)
                        rest1 == IF next1 > n \/ data[next1] # 0 THEN f0[next1]
                                 ELSE IF next1 = n THEN last
                                 ELSE f0[next1 + 1]
                    IN <<next1 - p + 1>> \o SubSeq(data, p, next1 - 1) \o rest1]
<1>8. f = Body(f)
  <2>1. ASSUME NEW p \in 1 .. n + 1 PROVE f[p] = Body(f)[p]
    <3>1. CASE p = n + 1
      BY <3>1, <1>6, <1>1
    <3>2. CASE p # n + 1
      <4>1. p \in 1 .. n /\ ~(p > n)
        BY <3>2, <1>1
      <4>2. f[p] = block(p) \o rest(f, p)
        BY <4>1, <1>7
      <4>3. Body(f)[p] = block(p) \o rest(f, p)
        BY <4>1 DEF Next0
      <4> QED BY <4>2, <4>3
    <3> QED BY <3>1, <3>2
  <2> QED BY <2>1, <1>6
<1>9. EncodeBlocks(data, last) = Body(EncodeBlocks(data, last))
  BY <1>8 DEF EncodeBlocks
<1> DEFINE g == EncodeBlocks(data, last)
<1>10. g[n + 1] = << >> /\ \A p \in 1 .. n : g[p] = block(p) \o rest(g, p)
  <2>1. g[n + 1] = << >>
    BY <1>9, <1>1
  <2>2. ASSUME NEW p \in 1 .. n PROVE g[p] = block(p) \o rest(g, p)
    <3>1. p \in 1 .. n + 1 /\ ~(p > n)
      BY <1>1
    <3> QED BY <1>9, <3>1 DEF Next0
  <2> QED BY <2>1, <2>2
<1> DEFINE T == {p \in 1 .. n + 1 : g[p] \in S}
<1>11. \A p \in 1 .. n + 1 : p \in T
  <2>1. n + 1 \in T
    <3> HIDE DEF g, S
    <3> QED BY <1>1, <1>10
  <2>2. ASSUME NEW p \in 1 .. n, \A q \in p + 1 .. n + 1 : q \in T PROVE p \in T
    <3>1. J[p] \in p + 1 .. n + 1
      BY <1>3, <1>1
    <3>2. g[J[p]] \in S
      BY <3>1, <2>2
    <3> DEFINE m == next(p)
    <3>3. m \in p .. n + 1
      BY <1>2
    <3>4. J[p] = IF m > n THEN m ELSE IF data[m] # 0 THEN m ELSE m + 1
      OBVIOUS
    <3>5. rest(g, p) \in S
      <4> HIDE DEF J, m, g
      <4>1. rest(g, p) = IF m > n \/ data[m] # 0 THEN g[m]
                         ELSE IF m = n THEN last ELSE g[m + 1]
        BY DEF m
      <4> HIDE DEF rest
      <4> QED BY <4>1, <3>2, <3>3, <3>4, <1>1
    <3>6. block(p) \in S /\ g[p] = block(p) \o rest(g, p)
      BY <1>2, <1>10
    <3> HIDE DEF block, rest, g
    <3>7. block(p) \o rest(g, p) \in S
      BY <3>5, <3>6
    <3>8. p \in 1 .. n + 1 /\ g[p] \in S
      BY <3>6, <3>7, <1>1
    <3> HIDE DEF n, S
    <3> QED BY <3>8
  <2> HIDE DEF T, n
  <2> QED BY <2>1, <2>2, <1>1, Descend
<1>12. g \in [1 .. n + 1 -> S]
  BY <1>9, <1>11
<1>13. ASSUME NEW p \in 1 .. n PROVE rest(g, p) = Behind(data, last, p)
  BY DEF Behind
<1> QED BY <1>10, <1>12, <1>13

(* The Tether's decoder.                                                   *)

Decodable == [ok : BOOLEAN, data : Seq(Byte)]

LEMMA DecodedIs ==
  ASSUME NEW frame \in Seq(NZ)
  PROVE  /\ DecodedFrom(frame) \in [1 .. Len(frame) + 1 -> Decodable]
         /\ DecodedFrom(frame)[Len(frame) + 1] = [ok |-> TRUE, data |-> << >>]
         /\ \A p \in 1 .. Len(frame) : p + frame[p] <= Len(frame) + 1 =>
              DecodedFrom(frame)[p] =
                DecodedBlock(frame, p, DecodedFrom(frame)[p + frame[p]])
<1> DEFINE n == Len(frame)
           D == DecodedFrom(frame)
           bad == [ok |-> FALSE, data |-> << >>]
           end == [ok |-> TRUE, data |-> << >>]
           step(p, d) == DecodedBlock(frame, p, d)
           J == [p \in 1 .. n |-> IF p + frame[p] > n + 1 THEN n + 1 ELSE p + frame[p]]
           G == [p \in 1 .. n |-> [d \in Decodable |->
                   IF p + frame[p] > n + 1 THEN bad ELSE step(p, d)]]
<1>1. n \in Nat /\ bad \in Decodable /\ end \in Decodable
  BY DEF Decodable
<1>2. ASSUME NEW p \in 1 .. n PROVE frame[p] \in NZ /\ frame[p] \in Nat /\ frame[p] >= 1
  BY Sizes
<1>3. J \in [1 .. n -> 1 .. n + 1] /\ \A p \in 1 .. n : J[p] > p
  BY <1>1, <1>2
<1>4. ASSUME NEW p \in 1 .. n, p + frame[p] <= n + 1, NEW d \in Decodable
      PROVE  step(p, d) \in Decodable
  <2> DEFINE c == frame[p]
             u == SubSeq(frame, p + 1, p + c - 1)
             z == ImpliedZero(frame, p)
             v == d.data
  <2>1. \A i \in p + 1 .. p + c - 1 : frame[i] \in Byte
    BY <1>1, <1>2, <1>4 DEF NZ
  <2>2. p + 1 \in Int /\ p + c - 1 \in Int
    BY <1>2
  <2>3. u \in Seq(Byte)
    <3> HIDE DEF c
    <3> QED BY <2>1, <2>2, SubSeqProperties
  <2>4. z \in Seq(Byte)
    <3>1. <<0>> \in Seq(Byte) /\ << >> \in Seq(Byte)
      BY Sizes
    <3> QED BY <3>1 DEF ImpliedZero
  <2>5. v \in Seq(Byte) /\ d.ok \in BOOLEAN
    BY DEF Decodable
  <2> HIDE DEF u, z, v
  <2>6. u \o z \o v \in Seq(Byte)
    BY <2>3, <2>4, <2>5
  <2>7. [ok |-> d.ok, data |-> u \o z \o v] \in Decodable
    BY <2>5, <2>6 DEF Decodable
  <2> QED BY <2>7 DEF u, z, v, DecodedBlock
<1>5. G \in [1 .. n -> [Decodable -> Decodable]]
  <2>1. ASSUME NEW p \in 1 .. n, NEW d \in Decodable
        PROVE  (IF p + frame[p] > n + 1 THEN bad ELSE step(p, d)) \in Decodable
    <3>1. CASE p + frame[p] > n + 1
      BY <3>1, <1>1
    <3>2. CASE ~(p + frame[p] > n + 1)
      <4>1. p + frame[p] <= n + 1
        BY <3>2, <1>1, <1>2
      <4>2. step(p, d) \in Decodable
        BY <4>1, <1>4
      <4> HIDE DEF step, bad
      <4> QED BY <3>2, <4>2
    <3> QED BY <3>1, <3>2
  <2> HIDE DEF step, bad
  <2> QED BY <2>1
<1>6. Jumping(n, Decodable, end, G, J) # {}
  <2> HIDE DEF n, end, G, J
  <2> QED BY <1>1, <1>3, <1>5, Jumps
<1>7. PICK f \in [1 .. n + 1 -> Decodable] :
        f[n + 1] = end /\ \A p \in 1 .. n : f[p] = G[p][f[J[p]]]
  BY <1>6 DEF Jumping
<1> DEFINE after(f0, p) == IF p + frame[p] > n + 1 THEN bad ELSE step(p, f0[p + frame[p]])
<1>8. ASSUME NEW p \in 1 .. n PROVE f[p] = after(f, p)
  <2>1. J[p] \in 1 .. n + 1 /\ J[p] = IF p + frame[p] > n + 1 THEN n + 1 ELSE p + frame[p]
    BY <1>3
  <2>2. f[J[p]] \in Decodable
    BY <2>1, <1>7
  <2>3. f[p] = IF p + frame[p] > n + 1 THEN bad ELSE step(p, f[J[p]])
    <3>1. f[p] = G[p][f[J[p]]]
      BY <1>7
    <3> HIDE DEF step, bad, J
    <3> QED BY <3>1, <2>2
  <2> HIDE DEF step, bad, J
  <2> QED BY <2>1, <2>3
<1> DEFINE Body(f0) ==
             [p \in 1 .. n + 1 |->
               IF p > n THEN [ok |-> TRUE, data |-> << >>]
               ELSE IF p + frame[p] > n + 1 THEN [ok |-> FALSE, data |-> << >>]
               ELSE DecodedBlock(frame, p, f0[p + frame[p]])]
<1>9. ASSUME NEW f0, NEW p \in 1 .. n PROVE Body(f0)[p] = after(f0, p)
  <2>1. p \in 1 .. n + 1 /\ ~(p > n)
    BY <1>1
  <2> QED BY <2>1
<1>10. f = Body(f)
  <2>1. ASSUME NEW p \in 1 .. n + 1 PROVE f[p] = Body(f)[p]
    <3>1. CASE p = n + 1
      BY <3>1, <1>7, <1>1
    <3>2. CASE p # n + 1
      <4>1. p \in 1 .. n
        BY <3>2, <1>1
      <4> HIDE DEF Body, after
      <4> QED BY <4>1, <1>8, <1>9
    <3> QED BY <3>1, <3>2
  <2> QED BY <2>1, <1>7
<1>11. D = Body(D)
  BY <1>10 DEF DecodedFrom
<1>12. D[n + 1] = end /\ \A p \in 1 .. n : D[p] = after(D, p)
  <2>1. D[n + 1] = end
    BY <1>11, <1>1
  <2>2. ASSUME NEW p \in 1 .. n PROVE D[p] = after(D, p)
    <3>1. D[p] = Body(D)[p]
      BY <1>11
    <3> HIDE DEF Body, after, D
    <3> QED BY <3>1, <1>9
  <2> QED BY <2>1, <2>2
<1> DEFINE T == {p \in 1 .. n + 1 : D[p] \in Decodable}
<1>13. \A p \in 1 .. n + 1 : p \in T
  <2>1. n + 1 \in T
    <3> HIDE DEF D
    <3> QED BY <1>1, <1>12
  <2>2. ASSUME NEW p \in 1 .. n, \A q \in p + 1 .. n + 1 : q \in T PROVE p \in T
    <3>1. CASE p + frame[p] > n + 1
      <4>1. D[p] = bad
        BY <1>12, <3>1
      <4> HIDE DEF D, bad
      <4> QED BY <4>1, <1>1
    <3>2. CASE ~(p + frame[p] > n + 1)
      <4>1. p + frame[p] \in p + 1 .. n + 1 /\ p + frame[p] <= n + 1
        BY <3>2, <1>1, <1>2
      <4> HIDE DEF D
      <4>2. D[p + frame[p]] \in Decodable
        BY <4>1, <2>2
      <4>3. step(p, D[p + frame[p]]) \in Decodable
        BY <4>1, <4>2, <1>4
      <4>4. D[p] = step(p, D[p + frame[p]])
        BY <3>2, <1>12
      <4> HIDE DEF step
      <4> QED BY <4>3, <4>4, <1>1
    <3> QED BY <3>1, <3>2
  <2> HIDE DEF T, n
  <2> QED BY <2>1, <2>2, <1>1, Descend
<1>14. D \in [1 .. n + 1 -> Decodable]
  <2>1. \A p \in 1 .. n + 1 : D[p] \in Decodable
    BY <1>13
  <2>2. D = [p \in 1 .. n + 1 |-> D[p]]
    BY <1>11
  <2> HIDE DEF D
  <2> QED BY <2>1, <2>2
<1>15. ASSUME NEW p \in 1 .. n, p + frame[p] <= n + 1
       PROVE  D[p] = step(p, D[p + frame[p]])
  <2>1. ~(p + frame[p] > n + 1)
    BY <1>1, <1>2, <1>15
  <2> HIDE DEF D, step
  <2> QED BY <2>1, <1>12
<1> QED BY <1>12, <1>14, <1>15

-----------------------------------------------------------------------------
(* What the firmware encodes, the Tether decodes: not always.              *)

\* There are at least k full blocks of bytes that are not zero right before i,
\* and a zero or nothing before them.
FullBlocks(data, i, k) ==
  /\ i - k * MaxRun >= 1
  /\ \A j \in i - k * MaxRun .. i - 1 : data[j] # 0
  /\ i - k * MaxRun = 1 \/ data[i - k * MaxRun - 1] = 0

\* A zero comes behind a full block.
ZeroBehindFull(data) ==
  \E i \in 1 .. Len(data) : data[i] = 0 /\ \E k \in Nat \ {0} : FullBlocks(data, i, k)

\* The bytes of s end the frame, from q on.
Ending(frame, q, s) ==
  /\ q \in 1 .. Len(frame) + 1 /\ Len(frame) + 1 - q = Len(s)
  /\ \A j \in 1 .. Len(s) : frame[q - 1 + j] = s[j]

IsBlock(s, c, u, t) ==
  /\ c \in NZ /\ u \in Seq(NZ) /\ t \in Seq(NZ)
  /\ c = Len(u) + 1 /\ s = <<c>> \o u \o t

LEMMA EndingBlock ==
  ASSUME NEW frame \in Seq(NZ), NEW q, NEW s, Ending(frame, q, s),
         NEW c, NEW u, NEW t, IsBlock(s, c, u, t)
  PROVE  /\ q \in 1 .. Len(frame) /\ frame[q] = c /\ q + c <= Len(frame) + 1
         /\ SubSeq(frame, q + 1, q + c - 1) = u
         /\ Ending(frame, q + c, t)
         /\ q + c <= Len(frame) <=> t # << >>
<1> DEFINE n == Len(frame)
<1>0. /\ c \in NZ /\ u \in Seq(NZ) /\ t \in Seq(NZ)
      /\ c = Len(u) + 1 /\ s = <<c>> \o u \o t
  BY DEF IsBlock
<1>1. n \in Nat /\ Len(u) \in Nat /\ Len(t) \in Nat /\ c \in Nat
  BY <1>0, Sizes
<1>2. Len(s) = c + Len(t)
  BY <1>0, <1>1
<1>3. /\ s[1] = c
      /\ \A j \in 1 .. Len(u) : s[1 + j] = u[j]
      /\ \A j \in 1 .. Len(t) : s[c + j] = t[j]
  BY <1>0, <1>1
<1>4. /\ q \in 1 .. n + 1 /\ n + 1 - q = c + Len(t)
      /\ \A j \in 1 .. c + Len(t) : frame[q - 1 + j] = s[j]
  BY <1>2 DEF Ending
<1>5. q \in 1 .. n /\ frame[q] = c
  <2>1. 1 \in 1 .. c + Len(t) /\ q - 1 + 1 = q
    BY <1>0, <1>1, <1>4
  <2> QED BY <2>1, <1>0, <1>1, <1>3, <1>4
<1>6. SubSeq(frame, q + 1, q + c - 1) = u
  <2> DEFINE v == SubSeq(frame, q + 1, q + c - 1)
  <2>1. v \in Seq(NZ) /\ Len(v) = Len(u) /\ \A j \in 1 .. Len(u) : v[j] = frame[q + j]
    <3>1. q + 1 \in Int /\ q + c - 1 \in Int /\ (q + c - 1) - (q + 1) + 1 = Len(u)
      BY <1>0, <1>1, <1>4
    <3>2. \A i \in q + 1 .. q + c - 1 : frame[i] \in NZ
      <4> TAKE i \in q + 1 .. q + c - 1
      <4>1. i \in 1 .. Len(frame)
        BY <1>1, <1>4
      <4> QED BY <4>1
    <3>3. /\ v \in Seq(NZ) /\ Len(v) = IF q + 1 <= q + c - 1 THEN (q + c - 1) - (q + 1) + 1 ELSE 0
          /\ \A i \in 1 .. (q + c - 1) - (q + 1) + 1 : v[i] = frame[(q + 1) + i - 1]
      BY <3>1, <3>2, SubSeqProperties
    <3>4. \A j \in 1 .. Len(u) : (q + 1) + j - 1 = q + j
      BY <1>1, <1>4
    <3> HIDE DEF v
    <3> QED BY <3>1, <3>3, <3>4, <1>0, <1>1, <1>4
  <2>2. ASSUME NEW j \in 1 .. Len(u) PROVE v[j] = u[j]
    <3>1. 1 + j \in 1 .. c + Len(t) /\ q - 1 + (1 + j) = q + j
      BY <1>0, <1>1, <1>4
    <3> QED BY <3>1, <2>1, <1>3, <1>4
  <2>3. v \in [1 .. Len(u) -> NZ] /\ u \in [1 .. Len(u) -> NZ]
    <3> HIDE DEF v
    <3> QED BY <1>0, <2>1, LenProperties
  <2> HIDE DEF v
  <2>4. v = u
    BY <2>2, <2>3
  <2> QED BY <2>4 DEF v
<1>7. Ending(frame, q + c, t)
  <2>1. ASSUME NEW j \in 1 .. Len(t) PROVE frame[q + c - 1 + j] = t[j]
    <3>1. c + j \in 1 .. c + Len(t) /\ q - 1 + (c + j) = q + c - 1 + j
      BY <1>0, <1>1, <1>4
    <3> QED BY <3>1, <1>3, <1>4
  <2>2. q + c \in 1 .. n + 1 /\ n + 1 - (q + c) = Len(t)
    BY <1>0, <1>1, <1>4
  <2> DEFINE r == q + c
  <2>3. /\ r \in 1 .. Len(frame) + 1 /\ Len(frame) + 1 - r = Len(t)
        /\ \A j \in 1 .. Len(t) : frame[r - 1 + j] = t[j]
    <3>1. q \in Nat /\ c \in Nat
      BY <1>1, <1>4
    <3>2. \A j \in 1 .. Len(t) : r - 1 + j = q + c - 1 + j
      BY <3>1
    <3> HIDE DEF r
    <3> QED BY <2>1, <2>2, <3>2 DEF r
  <2> HIDE DEF r
  <2>4. Ending(frame, r, t)
    BY <2>3 DEF Ending
  <2> QED BY <2>4 DEF r
<1>8. q + c <= n + 1 /\ (q + c <= n <=> t # << >>)
  <2>1. Len(t) = 0 <=> t = << >>
    BY <1>0
  <2> QED BY <2>1, <1>0, <1>1, <1>4
<1> QED BY <1>5, <1>6, <1>7, <1>8

\* The zero that the Tether takes the block at p to stand for, and where the next
\* block of the frame begins if that block begins at q.
TakenZero(data, last, p) ==
  IF Behind(data, last, p) # << >> /\ Next0(data, p) - p < MaxRun THEN <<0>> ELSE << >>

Follower(data, p, q) == q + Next0(data, p) - p + 1

\* What the Tether decodes of the block that the firmware encodes at p.
LEMMA BlockDecoded ==
  ASSUME NEW data \in Seq(Byte), NEW last \in Seq(NZ), NEW p \in 1 .. Len(data),
         NEW frame \in Seq(NZ), NEW q \in Nat, Ending(frame, q, EncodeBlocks(data, last)[p]),
         Behind(data, last, p) \in Seq(NZ)
  PROVE  LET next == Next0(data, p)
             r    == Follower(data, p, q)
         IN /\ Ending(frame, r, Behind(data, last, p)) /\ r \in 1 .. Len(frame) + 1
            /\ q \in 1 .. Len(frame)
            /\ DecodedFrom(frame)[q].ok = DecodedFrom(frame)[r].ok
            /\ DecodedFrom(frame)[q].data =
                 SubSeq(data, p, next - 1) \o TakenZero(data, last, p) \o DecodedFrom(frame)[r].data
<1> DEFINE next == Next0(data, p)
           c == next - p + 1
           r == Follower(data, p, q)
           u == SubSeq(data, p, next - 1)
           t == Behind(data, last, p)
           D == DecodedFrom(frame)
           zero == TakenZero(data, last, p)
<1> DEFINE e == EncodeBlocks(data, last)[p]
<1>1. next \in Nat /\ next - p \in 0 .. MaxRun /\ u \in Seq(NZ) /\ Len(u) = next - p
  BY NextIs
<1>2. e = <<c>> \o u \o t /\ t \in Seq(NZ)
  BY BlocksAre
<1> HIDE DEF next
<1>3. c \in NZ /\ c = Len(u) + 1 /\ c - 1 = next - p
  <2> HIDE DEF u
  <2> QED BY <1>1, Sizes
<1> HIDE DEF c, u, t, e
<1>4. IsBlock(e, c, u, t) /\ Ending(frame, q, e)
  BY <1>1, <1>2, <1>3 DEF IsBlock, e
<1>5. /\ q \in 1 .. Len(frame) /\ frame[q] = c /\ q + c <= Len(frame) + 1
      /\ SubSeq(frame, q + 1, q + c - 1) = u
      /\ Ending(frame, q + c, t)
      /\ q + c <= Len(frame) <=> t # << >>
  BY <1>4, EndingBlock
<1>6. q + c = r
  BY <1>1, <1>3, <1>5 DEF c, next, Follower
<1>7. D[q] = DecodedBlock(frame, q, D[r])
  BY <1>5, <1>6, DecodedIs
<1>8. ImpliedZero(frame, q) = zero
  <2>1. c < MaxCode <=> next - p < MaxRun
    BY <1>1, <1>3, Sizes
  <2> QED BY <2>1, <1>5 DEF ImpliedZero, TakenZero, t, next
<1>9. DecodedBlock(frame, q, D[r]) =
        [ok |-> D[r].ok, data |-> u \o zero \o D[r].data]
  <2> HIDE DEF zero, D
  <2> QED BY <1>5, <1>6, <1>8 DEF DecodedBlock
<1>10. D[q].ok = D[r].ok /\ D[q].data = u \o zero \o D[r].data
  <2> DEFINE x == u \o zero \o D[r].data
  <2>1. D[q] = [ok |-> D[r].ok, data |-> x]
    BY <1>7, <1>9
  <2> HIDE DEF x, zero, D, r
  <2>2. D[q].ok = D[r].ok /\ D[q].data = x
    BY <2>1
  <2> QED BY <2>2 DEF x
<1>11. r \in 1 .. Len(frame) + 1
  BY <1>5, <1>6 DEF Ending
<1> QED BY <1>5, <1>6, <1>10, <1>11 DEF c, u, t, next

One == <<1>>
Done == [ok |-> TRUE, data |-> << >>]

LEMMA BehindIs ==
  ASSUME NEW data \in Seq(Byte), NEW p \in 1 .. Len(data)
  PROVE  LET n    == Len(data)
             next == Next0(data, p)
             rest == Behind(data, One, p)
             E    == EncodeBlocks(data, One)
         IN /\ rest \in Seq(NZ)
            /\ next = n + 1 => rest = << >>
            /\ next <= n /\ data[next] # 0 => rest = E[next] /\ rest # << >>
            /\ next = n /\ data[next] = 0 => rest = One
            /\ next < n /\ data[next] = 0 => rest = E[next + 1] /\ rest # << >>
<1> DEFINE n == Len(data)
           next == Next0(data, p)
           rest == Behind(data, One, p)
           E == EncodeBlocks(data, One)
<1>1. One \in Seq(NZ)
  BY Sizes DEF One
<1>2. E \in [1 .. n + 1 -> Seq(NZ)] /\ E[n + 1] = << >>
  BY <1>1, BlocksAre
<1>3. ASSUME NEW m \in 1 .. n PROVE E[m] # << >>
  <2> DEFINE c == Next0(data, m) - m + 1
             u == SubSeq(data, m, Next0(data, m) - 1)
             t == Behind(data, One, m)
  <2>1. E[m] = <<c>> \o u \o t
    BY <1>1, BlocksAre
  <2>2. E[m] \in Seq(NZ) /\ u \in Seq(NZ)
    <3>1. u \in Seq(NZ)
      BY NextIs
    <3> QED BY <3>1, <1>2
  <2> SUFFICES ASSUME E[m] = << >> PROVE FALSE
    OBVIOUS
  <2> HIDE DEF c, u, t, E
  <2>3. Len(<<c>> \o u \o t) = Len(<<c>> \o u) + Len(t)
    BY <2>1, <2>2
  <2> QED BY <2>1, <2>2, <2>3
<1>4. n \in Nat /\ next \in 1 .. n + 1
  BY NextIs
<1>5. rest = IF next > n \/ data[next] # 0 THEN E[next]
             ELSE IF next = n THEN One ELSE E[next + 1]
  BY DEF Behind
<1> HIDE DEF n, next, rest, E
<1> QED
  <2>1. rest \in Seq(NZ)
    BY <1>1, <1>2, <1>4, <1>5
  <2>2. next = n + 1 => rest = << >>
    BY <1>2, <1>4, <1>5
  <2>3. next <= n /\ data[next] # 0 => rest = E[next] /\ rest # << >>
    BY <1>3, <1>4, <1>5
  <2>4. next = n /\ data[next] = 0 => rest = One
    BY <1>4, <1>5
  <2>5. next < n /\ data[next] = 0 => rest = E[next + 1] /\ rest # << >>
    BY <1>3, <1>4, <1>5
  <2> QED BY <2>1, <2>2, <2>3, <2>4, <2>5 DEF n, next, rest, E

\* At the end of a frame nothing more is decoded, and nothing from a last 1.
LEMMA LastDecoded ==
  ASSUME NEW frame \in Seq(NZ), NEW q \in Nat, NEW s \in {<< >>, One}, Ending(frame, q, s)
  PROVE  DecodedFrom(frame)[q] = Done
<1> DEFINE n == Len(frame)
           D == DecodedFrom(frame)
<1>1. n \in Nat /\ D[n + 1] = Done /\ 1 \in NZ
  BY Sizes, DecodedIs DEF Done
<1>2. CASE s = << >>
  <2>1. n + 1 - q = 0
    BY <1>2 DEF Ending
  <2>2. q = n + 1
    BY <2>1, <1>1
  <2> QED BY <2>2, <1>1
<1>3. CASE s = One
  <2>1. Len(s) = 1 /\ s[1] = 1
    BY <1>3 DEF One
  <2>2. n + 1 - q = 1 /\ frame[q - 1 + 1] = 1
    BY <2>1 DEF Ending
  <2>3. q = n /\ frame[q] = 1 /\ q \in 1 .. n
    BY <2>2, <1>1 DEF Ending
  <2>4. D[q] = DecodedBlock(frame, q, Done)
    <3>1. q + frame[q] = n + 1
      BY <2>3, <1>1
    <3>2. D[q] = DecodedBlock(frame, q, D[q + frame[q]])
      BY <2>3, <3>1, DecodedIs
    <3> HIDE DEF D
    <3> QED BY <3>1, <3>2, <1>1
  <2>5. SubSeq(frame, q + 1, q + frame[q] - 1) = << >>
    <3>1. q + frame[q] - 1 = q
      BY <2>3, <1>1
    <3>2. SubSeq(frame, q + 1, q) = << >>
      BY <2>3, <1>1
    <3> QED BY <3>1, <3>2
  <2>6. ImpliedZero(frame, q) = << >>
    BY <2>3, <1>1 DEF ImpliedZero
  <2>7. << >> \o << >> \o << >> = << >>
    OBVIOUS
  <2> QED BY <2>4, <2>5, <2>6, <2>7 DEF DecodedBlock, Done
<1> QED BY <1>2, <1>3

LEMMA Times ==
  ASSUME NEW k \in Nat
  PROVE  k * MaxRun \in Nat /\ (k + 1) * MaxRun = k * MaxRun + MaxRun /\ 0 * MaxRun = 0
BY Sizes

IsStart(data, p) == \E k \in Nat : FullBlocks(data, p, k)

LEMMA Starting ==
  ASSUME NEW data \in Seq(Byte)
  PROVE  /\ IsStart(data, 1)
         /\ \A i \in 1 .. Len(data) : data[i] = 0 => FullBlocks(data, i + 1, 0)
         /\ \A p \in 1 .. Len(data), k \in Nat :
              FullBlocks(data, p, k) /\ Next0(data, p) - p = MaxRun =>
                FullBlocks(data, Next0(data, p), k + 1)
<1>1. 0 * MaxRun = 0
  BY Times
<1>2. FullBlocks(data, 1, 0)
  BY <1>1 DEF FullBlocks
<1>3. ASSUME NEW i \in 1 .. Len(data), data[i] = 0 PROVE FullBlocks(data, i + 1, 0)
  <2>1. i + 1 - 0 = i + 1 /\ i + 1 - 0 - 1 = i /\ i + 1 - 1 = i
    OBVIOUS
  <2>2. \A j \in i + 1 .. i : data[j] # 0
    OBVIOUS
  <2> QED BY <1>1, <1>3, <2>1, <2>2 DEF FullBlocks
<1>4. ASSUME NEW p \in 1 .. Len(data), NEW k \in Nat,
             FullBlocks(data, p, k), Next0(data, p) - p = MaxRun
      PROVE  FullBlocks(data, Next0(data, p), k + 1)
  <2> DEFINE next == Next0(data, p)
             a == k * MaxRun
             b == (k + 1) * MaxRun
  <2>1. /\ next \in p .. Len(data) + 1
        /\ \A i \in p .. next - 1 : data[i] # 0
    BY NextIs
  <2>2. a \in Nat /\ b = a + MaxRun /\ MaxRun \in Nat
    BY Times, Sizes
  <2>3. /\ p - a >= 1 /\ \A j \in p - a .. p - 1 : data[j] # 0
        /\ p - a = 1 \/ data[p - a - 1] = 0
    BY <1>4 DEF FullBlocks
  <2>4. next = p + MaxRun
    BY <1>4, <2>1, <2>2
  <2> HIDE DEF a, b, next
  <2>5. next - b = p - a
    BY <2>2, <2>4
  <2>6. \A j \in next - b .. next - 1 : data[j] # 0
    BY <2>1, <2>2, <2>3, <2>5
  <2> QED BY <2>3, <2>5, <2>6 DEF FullBlocks, a, b, next
<1> QED BY <1>2, <1>3, <1>4 DEF IsStart

\* From the start of a block on, the rest is decoded as it was encoded.
LEMMA DecodedWhole ==
  ASSUME NEW data \in Seq(Byte), ~ZeroBehindFull(data), NEW frame \in Seq(NZ)
  PROVE  \A p \in 1 .. Len(data) + 1 :
           p <= Len(data) /\ IsStart(data, p) =>
             \A q \in Nat : Ending(frame, q, EncodeBlocks(data, One)[p]) =>
               DecodedFrom(frame)[q] = [ok |-> TRUE, data |-> SubSeq(data, p, Len(data))]
<1> DEFINE n == Len(data)
           E == EncodeBlocks(data, One)
           D == DecodedFrom(frame)
           Whole(p) == [ok |-> TRUE, data |-> SubSeq(data, p, n)]
           Claim(p) == p <= n /\ IsStart(data, p) =>
                         \A q \in Nat : Ending(frame, q, E[p]) => D[q] = Whole(p)
           T == {p \in 1 .. n + 1 : Claim(p)}
<1>1. n \in Nat /\ n + 1 \in T
  OBVIOUS
<1>2. ASSUME NEW p \in 1 .. n, \A m \in p + 1 .. n + 1 : m \in T PROVE p \in T
  <2> SUFFICES Claim(p)
    <3>1. p \in 1 .. n + 1
      BY <1>1
    <3> HIDE DEF Claim
    <3> QED BY <3>1
  <2> SUFFICES ASSUME IsStart(data, p), NEW q \in Nat, Ending(frame, q, E[p])
               PROVE  D[q] = Whole(p)
    OBVIOUS
  <2> DEFINE next == Next0(data, p)
             rest == Behind(data, One, p)
             r == Follower(data, p, q)
             u == SubSeq(data, p, next - 1)
             zero == TakenZero(data, One, p)
  <2>1. /\ next \in p .. n + 1 /\ next - p \in 0 .. MaxRun
        /\ next - p = MaxRun \/ next = n + 1 \/ data[next] = 0
        /\ next = p => data[p] = 0
    BY NextIs
  <2>2. /\ rest \in Seq(NZ)
        /\ next = n + 1 => rest = << >>
        /\ next <= n /\ data[next] # 0 => rest = E[next] /\ rest # << >>
        /\ next = n /\ data[next] = 0 => rest = One
        /\ next < n /\ data[next] = 0 => rest = E[next + 1] /\ rest # << >>
    BY BehindIs
  <2>3. One \in Seq(NZ)
    BY Sizes DEF One
  <2>4. /\ Ending(frame, r, rest) /\ r \in 1 .. Len(frame) + 1 /\ q \in 1 .. Len(frame)
        /\ D[q].ok = D[r].ok /\ D[q].data = u \o zero \o D[r].data
    BY <2>2, <2>3, BlockDecoded
  <2>5. D[q] \in Decodable /\ D[q] = [ok |-> D[q].ok, data |-> D[q].data]
    <3>1. D[q] \in Decodable
      <4>1. q \in 1 .. Len(frame) + 1
        BY <2>4
      <4>2. D \in [1 .. Len(frame) + 1 -> Decodable]
        BY DecodedIs
      <4> HIDE DEF D
      <4> QED BY <4>1, <4>2
    <3> HIDE DEF D
    <3> QED BY <3>1 DEF Decodable
  <2>6. u \in Seq(Byte) /\ \A m \in 1 .. n + 1 : SubSeq(data, m, n) \in Seq(Byte)
    <3>1. u \in Seq(NZ)
      BY NextIs
    <3>2. NZ \subseteq Byte
      BY DEF NZ
    <3>3. u \in Seq(Byte)
      <4> HIDE DEF u
      <4> QED BY <3>1, <3>2
    <3>4. \A m \in 1 .. n + 1 : SubSeq(data, m, n) \in Seq(Byte)
      OBVIOUS
    <3> QED BY <3>3, <3>4
  <2>7. r \in Nat
    BY <2>4
\* A full block is not followed by a zero.
  <2>8. next <= n /\ next - p = MaxRun => data[next] # 0 /\ IsStart(data, next)
    <3> SUFFICES ASSUME next <= n, next - p = MaxRun PROVE data[next] # 0 /\ IsStart(data, next)
      OBVIOUS
    <3>1. PICK k \in Nat : FullBlocks(data, p, k)
      BY DEF IsStart
    <3>2. FullBlocks(data, next, k + 1) /\ k + 1 \in Nat \ {0}
      BY <3>1, Starting
    <3>3. next \in 1 .. n
      BY <2>1
    <3> HIDE DEF next
    <3> QED BY <3>2, <3>3 DEF ZeroBehindFull, IsStart
  <2>9. CASE next = n + 1
    <3>1. D[r] = Done
      BY <2>2, <2>4, <2>7, <2>9, LastDecoded
    <3>2. zero = << >> /\ u = SubSeq(data, p, n)
      BY <2>2, <2>9, <1>1 DEF TakenZero
    <3>3. u \o << >> \o << >> = u
      <4> HIDE DEF u
      <4> QED BY <2>6
    <3>4. D[q].ok = TRUE /\ D[q].data = u
      <4> HIDE DEF D, u, zero
      <4> QED BY <2>4, <3>1, <3>2, <3>3 DEF Done
    <3> HIDE DEF D, u
    <3> QED BY <2>5, <3>2, <3>4
  <2>10. CASE next <= n /\ data[next] # 0
    <3>1. next - p = MaxRun /\ next \in p + 1 .. n /\ next \in p + 1 .. n + 1
      <4>1. MaxRun \in Nat /\ MaxRun >= 1
        BY Sizes
      <4> HIDE DEF next
      <4> QED BY <2>1, <2>10, <4>1, <1>1
    <3>2. D[r] = Whole(next)
      <4>1. Claim(next)
        <5> HIDE DEF next, Claim
        <5> QED BY <1>2, <3>1
      <4>2. IsStart(data, next) /\ Ending(frame, r, E[next]) /\ next <= n
        BY <2>2, <2>4, <2>8, <2>10, <3>1
      <4> HIDE DEF next, r, E, D, Whole
      <4> QED BY <4>1, <4>2, <2>7
    <3>3. zero = << >>
      <4>1. ~(next - p < MaxRun)
        BY <2>1, <3>1, Sizes
      <4> QED BY <4>1 DEF TakenZero
    <3>4. u \o << >> \o SubSeq(data, next, n) = SubSeq(data, p, n)
      <4> HIDE DEF next
      <4>1. SubSeq(data, p, next - 1) \o SubSeq(data, next, n) = SubSeq(data, p, n)
        BY <2>1, <2>10, <3>1, <1>1
      <4> DEFINE v == SubSeq(data, next, n)
      <4>2. v \in Seq(Byte)
        BY <2>6, <3>1, <1>1
      <4> HIDE DEF u, v
      <4>3. u \o << >> \o v = u \o v
        BY <4>2, <2>6
      <4> QED BY <4>1, <4>3 DEF u, v
    <3>5. D[q].ok = TRUE /\ D[q].data = SubSeq(data, p, n)
      <4> DEFINE v == SubSeq(data, next, n)
      <4> HIDE DEF v
      <4>1. D[r] = [ok |-> TRUE, data |-> v]
        BY <3>2 DEF v
      <4> HIDE DEF D, u, zero
      <4>2. D[r].ok = TRUE /\ D[r].data = v
        BY <4>1
      <4> QED BY <2>4, <3>3, <3>4, <4>2 DEF v
    <3> HIDE DEF D
    <3> QED BY <2>5, <3>5
  <2>11. CASE next <= n /\ data[next] = 0
    <3>1. next - p < MaxRun /\ next \in p .. n
      BY <2>1, <2>8, <2>11, Sizes
    <3>2. rest # << >> /\ zero = <<0>>
      <4>1. One # << >>
        BY DEF One
      <4>2. rest # << >>
        <5> HIDE DEF next, rest
        <5> QED BY <2>2, <2>11, <3>1, <4>1
      <4> QED BY <3>1, <4>2 DEF TakenZero
    <3>3. D[r] = Whole(next + 1)
      <4>1. CASE next = n
        <5>1. D[r] = Done
          BY <2>2, <2>4, <2>7, <2>11, <4>1, LastDecoded
        <5>2. SubSeq(data, next + 1, n) = << >>
          BY <4>1, <1>1
        <5> QED BY <5>1, <5>2 DEF Done
      <4>2. CASE next # n
        <5>1. next < n /\ next + 1 \in p + 1 .. n /\ next + 1 \in p + 1 .. n + 1
          BY <3>1, <4>2, <1>1
        <5>2. Claim(next + 1)
          <6> HIDE DEF next, Claim
          <6> QED BY <1>2, <5>1
        <5>3. IsStart(data, next + 1) /\ Ending(frame, r, E[next + 1]) /\ next + 1 <= n
          <6>1. FullBlocks(data, next + 1, 0)
            <7>1. next \in 1 .. n
              BY <3>1, <1>1
            <7> HIDE DEF next
            <7> QED BY <7>1, <2>11, Starting
          <6>2. IsStart(data, next + 1)
            BY <6>1 DEF IsStart
          <6>3. rest = E[next + 1]
            <7> HIDE DEF next, rest, E
            <7> QED BY <2>2, <2>11, <5>1
          <6>4. Ending(frame, r, rest)
            BY <2>4
          <6>5. next + 1 <= n
            <7> HIDE DEF next, n
            <7> QED BY <5>1
          <6> HIDE DEF next, rest, E, r, n
          <6> QED BY <6>2, <6>3, <6>4, <6>5
        <5> HIDE DEF next, r, E, D, Whole
        <5> QED BY <5>2, <5>3, <2>7
      <4> QED BY <4>1, <4>2
    <3>4. u \o <<0>> \o SubSeq(data, next + 1, n) = SubSeq(data, p, n)
      <4> HIDE DEF next
      <4>1. SubSeq(data, p, next - 1) \o <<0>> = SubSeq(data, p, next)
        BY <2>11, <3>1, <1>1
      <4>2. SubSeq(data, p, next) \o SubSeq(data, next + 1, n) = SubSeq(data, p, n)
        <5>1. next \in p - 1 .. n /\ n \in next .. n /\ p \in 1 .. n + 1
          BY <3>1, <1>1
        <5> QED BY <5>1, ConcatAdjacentSubSeq
      <4> QED BY <4>1, <4>2 DEF u
    <3>5. D[q].ok = TRUE /\ D[q].data = SubSeq(data, p, n)
      <4> DEFINE v == SubSeq(data, next + 1, n)
      <4> HIDE DEF v
      <4>1. D[r] = [ok |-> TRUE, data |-> v]
        BY <3>3 DEF v
      <4> HIDE DEF D, u, zero
      <4>2. D[r].ok = TRUE /\ D[r].data = v
        BY <4>1
      <4> QED BY <2>4, <3>2, <3>4, <4>2 DEF v
    <3> HIDE DEF D
    <3> QED BY <2>5, <3>5
  <2>12. next = n + 1 \/ next <= n
    <3> HIDE DEF next, n
    <3>1. n \in Nat /\ p \in Nat /\ next \in p .. n + 1
      BY <2>1, <1>1
    <3> QED BY <3>1
  <2> QED BY <2>9, <2>10, <2>11, <2>12
<1>3. \A p \in 1 .. n + 1 : p \in T
  <2> HIDE DEF T, n
  <2> QED BY <1>1, <1>2, Descend
<1> QED BY <1>3

\* Where the encoder begins a block: at a zero only if it ends no block.
Reached(data, p) == IsStart(data, p) /\ (data[p] = 0 => FullBlocks(data, p, 0))

ZeroAhead(data, p) ==
  \E i \in p .. Len(data) : data[i] = 0 /\ \E k \in Nat \ {0} : FullBlocks(data, i, k)

LEMMA NotBehindFull ==
  ASSUME NEW data \in Seq(Byte), NEW p \in 1 .. Len(data), Reached(data, p),
         Next0(data, p) <= Len(data), Next0(data, p) - p < MaxRun,
         NEW k \in Nat \ {0}, FullBlocks(data, Next0(data, p), k)
  PROVE  FALSE
<1> DEFINE next == Next0(data, p)
<1>1. /\ next \in p .. Len(data) + 1 /\ next - p \in 0 .. MaxRun
      /\ \A i \in p .. next - 1 : data[i] # 0
      /\ next - p = MaxRun \/ next = Len(data) + 1 \/ data[next] = 0
      /\ next = p => data[p] = 0
  BY NextIs
<1>2. PICK m \in Nat : FullBlocks(data, p, m)
  BY DEF Reached, IsStart
<1> DEFINE a == k * MaxRun
           b == m * MaxRun
<1>3. a \in Nat /\ b \in Nat /\ MaxRun \in Nat /\ MaxRun >= 1
  BY Times, Sizes
<1>4. /\ next - a >= 1 /\ \A j \in next - a .. next - 1 : data[j] # 0
      /\ next - a = 1 \/ data[next - a - 1] = 0
  BY DEF FullBlocks
<1>5. /\ p - b >= 1 /\ \A j \in p - b .. p - 1 : data[j] # 0
      /\ p - b = 1 \/ data[p - b - 1] = 0
  BY <1>2 DEF FullBlocks
<1>6. next - p < MaxRun /\ next <= Len(data) /\ data[next] = 0 /\ next \in Nat /\ p \in Nat
  BY <1>1, <1>3
<1>7. (k <= m => a <= b) /\ (k >= m + 1 => a >= b + MaxRun) /\ a >= MaxRun
  <2>1. \A x, y \in Nat : x <= y => x * MaxRun <= y * MaxRun
    BY <1>3
  <2>2. (m + 1) * MaxRun = b + MaxRun /\ 1 * MaxRun = MaxRun
    BY Times, <1>3
  <2>3. k >= 1 /\ m + 1 \in Nat /\ 1 \in Nat /\ k \in Nat
    OBVIOUS
  <2> QED BY <2>1, <2>2, <2>3
<1> HIDE DEF next, a, b
<1>8. next - a = p - b
  <2>1. CASE next - a < p - b
    <3>1. p - b - 1 \in next - a .. next - 1 /\ p - b # 1
      BY <2>1, <1>1, <1>3, <1>4, <1>5, <1>6
    <3> QED BY <3>1, <1>4, <1>5
  <2>2. CASE p - b < next - a
    <3>1. next - a - 1 \in p - b .. next - 1 /\ next - a # 1
      BY <2>2, <1>1, <1>3, <1>4, <1>5, <1>6
    <3>2. data[next - a - 1] # 0
      BY <3>1, <1>1, <1>3, <1>5, <1>6
    <3> QED BY <3>1, <3>2, <1>4
  <2> QED BY <2>1, <2>2, <1>3, <1>6
<1>9. next = p
  BY <1>1, <1>3, <1>6, <1>7, <1>8
<1>10. p = 1 \/ data[p - 1] = 0
  <2>1. data[p] = 0
    BY <1>6, <1>9
  <2>2. FullBlocks(data, p, 0)
    BY <2>1 DEF Reached
  <2>3. 0 * MaxRun = 0 /\ p - 0 = p
    BY Times, <1>6
  <2> QED BY <2>2, <2>3 DEF FullBlocks
<1>11. p # 1 /\ p - 1 \in next - a .. next - 1
  BY <1>3, <1>4, <1>6, <1>7, <1>9
<1> QED BY <1>4, <1>10, <1>11

\* No more is decoded than was encoded, and less if a zero is behind a full block.
LEMMA DecodedShort ==
  ASSUME NEW data \in Seq(Byte), NEW frame \in Seq(NZ)
  PROVE  \A p \in 1 .. Len(data) + 1 :
           p <= Len(data) =>
             \A q \in Nat : Ending(frame, q, EncodeBlocks(data, One)[p]) =>
               /\ Len(DecodedFrom(frame)[q].data) <= Len(data) - p + 1
               /\ Reached(data, p) /\ ZeroAhead(data, p) =>
                    Len(DecodedFrom(frame)[q].data) <= Len(data) - p
<1> DEFINE n == Len(data)
           E == EncodeBlocks(data, One)
           D == DecodedFrom(frame)
           Short(p, q) == /\ Len(D[q].data) <= n - p + 1
                          /\ Reached(data, p) /\ ZeroAhead(data, p) => Len(D[q].data) <= n - p
           Claim(p) == p <= n => \A q \in Nat : Ending(frame, q, E[p]) => Short(p, q)
           T == {p \in 1 .. n + 1 : Claim(p)}
<1>1. n \in Nat /\ n + 1 \in T
  OBVIOUS
<1>2. ASSUME NEW p \in 1 .. n, \A m \in p + 1 .. n + 1 : m \in T PROVE p \in T
  <2> SUFFICES Claim(p)
    <3>1. p \in 1 .. n + 1
      BY <1>1
    <3> HIDE DEF Claim
    <3> QED BY <3>1
  <2> SUFFICES ASSUME NEW q \in Nat, Ending(frame, q, E[p]) PROVE Short(p, q)
    OBVIOUS
  <2> DEFINE next == Next0(data, p)
             rest == Behind(data, One, p)
             r == Follower(data, p, q)
             u == SubSeq(data, p, next - 1)
             zero == TakenZero(data, One, p)
             l == Len(D[r].data)
             z == Len(zero)
  <2>1. /\ next \in p .. n + 1 /\ next - p \in 0 .. MaxRun
        /\ next - p = MaxRun \/ next = n + 1 \/ data[next] = 0
        /\ next = p => data[p] = 0
        /\ \A i \in p .. next - 1 : data[i] # 0
    BY NextIs
  <2>2. /\ rest \in Seq(NZ)
        /\ next = n + 1 => rest = << >>
        /\ next <= n /\ data[next] # 0 => rest = E[next] /\ rest # << >>
        /\ next = n /\ data[next] = 0 => rest = One
        /\ next < n /\ data[next] = 0 => rest = E[next + 1] /\ rest # << >>
    BY BehindIs
  <2>3. One \in Seq(NZ)
    BY Sizes DEF One
  <2>4. /\ Ending(frame, r, rest) /\ r \in 1 .. Len(frame) + 1 /\ q \in 1 .. Len(frame)
        /\ D[q].ok = D[r].ok /\ D[q].data = u \o zero \o D[r].data
    BY <2>2, <2>3, BlockDecoded
  <2>5. D[r].data \in Seq(Byte) /\ l \in Nat
    <3>1. D \in [1 .. Len(frame) + 1 -> Decodable]
      BY DecodedIs
    <3>2. D[r].data \in Seq(Byte)
      <4> HIDE DEF D, r
      <4> QED BY <3>1, <2>4 DEF Decodable
    <3> HIDE DEF D, r
    <3> QED BY <3>2
  <2>6. /\ u \in Seq(Byte) /\ Len(u) = next - p
        /\ zero \in Seq(Byte) /\ z \in 0 .. 1
        /\ rest = << >> \/ next - p = MaxRun => z = 0
    <3>1. u \in Seq(NZ) /\ Len(u) = next - p
      BY NextIs
    <3>2. NZ \subseteq Byte /\ <<0>> \in Seq(Byte) /\ << >> \in Seq(Byte)
      BY Sizes
    <3>3. u \in Seq(Byte)
      <4> HIDE DEF u
      <4> QED BY <3>1, <3>2
    <3>4. zero \in Seq(Byte) /\ z \in 0 .. 1
      BY <3>2 DEF TakenZero
    <3>5. MaxRun \in Nat /\ ~(MaxRun < MaxRun)
      BY Sizes
    <3>6. rest = << >> \/ next - p = MaxRun => zero = << >>
      BY <3>5 DEF TakenZero
    <3>7. zero = << >> => z = 0
      OBVIOUS
    <3> QED BY <3>1, <3>3, <3>4, <3>6, <3>7
  <2>7. Len(D[q].data) = (next - p) + z + l
    <3> DEFINE v == D[r].data
    <3>1. v \in Seq(Byte) /\ u \in Seq(Byte) /\ zero \in Seq(Byte)
      BY <2>5, <2>6
    <3> HIDE DEF u, zero, v, next, D, r
    <3>2. Len(u \o zero \o v) = Len(u) + Len(zero) + Len(v)
      BY <3>1
    <3>3. Len(D[q].data) = Len(u \o zero \o v)
      BY <2>4 DEF v
    <3> QED BY <3>2, <3>3, <2>6 DEF v
  <2>8. r \in Nat /\ next \in Nat /\ p \in Nat /\ MaxRun \in Nat /\ MaxRun >= 1
    <3> HIDE DEF next, r
    <3>1. r \in Nat
      BY <2>4
    <3>2. next \in Nat /\ p \in Nat
      BY <2>1, <1>1
    <3> QED BY <3>1, <3>2, Sizes
\* The zero that is ahead is not ahead of p.
  <2>9. ASSUME ZeroAhead(data, p)
        PROVE  \/ next <= n /\ data[next] = 0 /\ \E k \in Nat \ {0} : FullBlocks(data, next, k)
               \/ next + 1 <= n /\ ZeroAhead(data, next + 1)
    <3>1. PICK i \in p .. n : data[i] = 0 /\ \E k \in Nat \ {0} : FullBlocks(data, i, k)
      BY <2>9 DEF ZeroAhead
    <3> HIDE DEF next
    <3>2. i \in next .. n
      BY <3>1, <2>1, <2>8, <1>1
    <3>3. CASE i = next
      BY <3>1, <3>2, <3>3, <1>1
    <3>4. CASE i # next
      <4>1. i \in next + 1 .. n /\ next + 1 <= n
        BY <3>2, <3>4, <2>8, <1>1
      <4> QED BY <3>1, <4>1 DEF ZeroAhead
    <3> QED BY <3>3, <3>4
  <2>10. CASE next = n + 1
    <3>1. D[r] = Done
      BY <2>2, <2>4, <2>8, <2>10, LastDecoded
    <3>2. l = 0 /\ z = 0
      <4>1. l = 0
        <5> HIDE DEF D, r
        <5> QED BY <3>1 DEF Done
      <4>2. rest = << >>
        BY <2>2, <2>10
      <4> QED BY <4>1, <4>2, <2>6
    <3>3. ~ZeroAhead(data, p)
      <4> HIDE DEF next
      <4> QED BY <2>9, <2>10, <1>1
    <3> HIDE DEF D, next, l, z, n
    <3> QED BY <3>2, <3>3, <2>7, <2>8, <2>10, <1>1
  <2>11. CASE next <= n /\ data[next] # 0
    <3>1. next - p = MaxRun /\ next \in p + 1 .. n /\ next \in p + 1 .. n + 1
      <4> HIDE DEF next
      <4> QED BY <2>1, <2>8, <2>11, <1>1
    <3>2. Short(next, r)
      <4>1. Claim(next)
        <5> HIDE DEF next, Claim
        <5> QED BY <1>2, <3>1
      <4>2. Ending(frame, r, E[next]) /\ next <= n
        BY <2>2, <2>4, <2>11
      <4> HIDE DEF next, r, E, D, Short
      <4> QED BY <4>1, <4>2, <2>8
    <3>3. z = 0
      BY <3>1, <2>6
    <3>4. ASSUME Reached(data, p), ZeroAhead(data, p)
          PROVE  Reached(data, next) /\ ZeroAhead(data, next)
      <4>1. PICK k \in Nat : FullBlocks(data, p, k)
        BY <3>4 DEF Reached, IsStart
      <4>2. FullBlocks(data, next, k + 1) /\ k + 1 \in Nat
        BY <4>1, <3>1, Starting
      <4>3. Reached(data, next)
        <5> HIDE DEF next
        <5> QED BY <4>2, <2>11 DEF Reached, IsStart
      <4>4. ZeroAhead(data, next)
        <5> HIDE DEF next
        <5>1. ZeroAhead(data, next + 1)
          BY <3>4, <2>9, <2>11
        <5>2. next + 1 .. n \subseteq next .. n
          BY <2>8, <1>1
        <5> QED BY <5>1, <5>2 DEF ZeroAhead
      <4> QED BY <4>3, <4>4
    <3>5. l <= n - next + 1 /\ (Reached(data, next) /\ ZeroAhead(data, next) => l <= n - next)
      BY <3>2
    <3> HIDE DEF next, l, z, n, D, r
    <3> QED BY <3>3, <3>4, <3>5, <2>5, <2>7, <2>8, <1>1
  <2>12. CASE next <= n /\ data[next] = 0
    <3>1. /\ l <= n - next
          /\ next + 1 <= n /\ ZeroAhead(data, next + 1) => l <= n - next - 1
      <4>1. CASE next = n
        <5>1. D[r] = Done
          BY <2>2, <2>4, <2>8, <2>12, <4>1, LastDecoded
        <5>2. l = 0
          <6> HIDE DEF D, r
          <6> QED BY <5>1 DEF Done
        <5> HIDE DEF next, l, n
        <5> QED BY <4>1, <5>2, <2>8, <1>1
      <4>2. CASE next # n
        <5>1. next < n /\ next + 1 \in p + 1 .. n /\ next + 1 \in p + 1 .. n + 1 /\ next \in 1 .. n
          <6> HIDE DEF next
          <6> QED BY <4>2, <2>1, <2>8, <2>12, <1>1
        <5>2. Short(next + 1, r)
          <6>1. Claim(next + 1)
            <7> HIDE DEF next, Claim
            <7> QED BY <1>2, <5>1
          <6>2. rest = E[next + 1]
            <7> HIDE DEF next, rest, E
            <7> QED BY <2>2, <2>12, <5>1
          <6>3. Ending(frame, r, rest)
            BY <2>4
          <6>4. next + 1 <= n
            <7> HIDE DEF next, n
            <7> QED BY <5>1
          <6> HIDE DEF next, r, rest, E, D, Short
          <6> QED BY <6>1, <6>2, <6>3, <6>4, <2>8
        <5>3. Reached(data, next + 1)
          <6> HIDE DEF next
          <6>1. FullBlocks(data, next + 1, 0)
            BY <5>1, <2>12, Starting
          <6> QED BY <6>1 DEF Reached, IsStart
        <5>4. l <= n - (next + 1) + 1 /\ (ZeroAhead(data, next + 1) => l <= n - (next + 1))
          BY <5>2, <5>3
        <5> HIDE DEF next, l, n
        <5> QED BY <5>4, <2>8, <1>1
      <4> QED BY <4>1, <4>2
    <3>2. ASSUME Reached(data, p), ZeroAhead(data, p) PROVE z + l <= n - next
      <4>1. CASE next - p = MaxRun
        <5>1. z = 0
          BY <4>1, <2>6
        <5> HIDE DEF next, l, z, n
        <5> QED BY <5>1, <3>1, <2>5
      <4>2. CASE next - p # MaxRun
        <5>1. next - p < MaxRun
          <6> HIDE DEF next
          <6> QED BY <4>2, <2>1, <2>8
        <5>2. ~ \E k \in Nat \ {0} : FullBlocks(data, next, k)
          BY <5>1, <2>12, <3>2, NotBehindFull
        <5>3. next + 1 <= n /\ ZeroAhead(data, next + 1)
          <6> HIDE DEF next
          <6> QED BY <5>2, <3>2, <2>9
        <5> HIDE DEF next, l, z, n
        <5> QED BY <5>3, <3>1, <2>5, <2>6, <2>8, <1>1
      <4> QED BY <4>1, <4>2
    <3> HIDE DEF next, l, z, n, D, r
    <3> QED BY <3>1, <3>2, <2>5, <2>6, <2>7, <2>8, <1>1
  <2>13. next = n + 1 \/ next <= n
    <3> HIDE DEF next, n
    <3>1. n \in Nat /\ p \in Nat /\ next \in p .. n + 1
      BY <2>1, <2>8, <1>1
    <3> QED BY <3>1
  <2> HIDE DEF Short
  <2> QED BY <2>10, <2>11, <2>12, <2>13
<1>3. \A p \in 1 .. n + 1 : p \in T
  <2> HIDE DEF T, n
  <2> QED BY <1>1, <1>2, Descend
<1> QED BY <1>3

\* What the firmware encodes has no zeros, and the Tether decodes it exactly when
\* no zero comes behind a full block.
THEOREM FirmwareFrames ==
  ASSUME NEW packet \in Seq(Byte), packet # << >>
  PROVE  /\ FirmwareEncode(packet) \in Seq(NZ) /\ FirmwareEncode(packet) # << >>
         /\ TetherDecode(FirmwareEncode(packet)) = packet <=> ~ZeroBehindFull(Sealed(packet))
<1> DEFINE data == Sealed(packet)
           n == Len(data)
           frame == FirmwareEncode(packet)
           E == EncodeBlocks(data, One)
           D == DecodedFrom(frame)
<1>1. /\ data \in Seq(Byte) /\ n = Len(packet) + 1 /\ n \in Nat /\ Len(packet) \in Nat \ {0}
      /\ IsSealed(data) /\ Unsealed(data) = packet
  BY Sealing, EmptySeq
<1>2. frame = E[1]
  BY DEF FirmwareEncode, One
<1>3. 1 \in 1 .. n /\ 1 \in 1 .. n + 1
  BY <1>1
<1>4. frame \in Seq(NZ) /\ frame # << >>
  <2>1. One \in Seq(NZ)
    BY Sizes DEF One
  <2>2. E \in [1 .. n + 1 -> Seq(NZ)]
    BY <1>1, <2>1, BlocksAre
  <2>3. frame \in Seq(NZ)
    <3> HIDE DEF E, frame, n
    <3> QED BY <1>2, <1>3, <2>2
  <2> DEFINE c == Next0(data, 1) - 1 + 1
             u == SubSeq(data, 1, Next0(data, 1) - 1)
             t == Behind(data, One, 1)
  <2>4. frame = <<c>> \o u \o t
    BY <1>1, <1>2, <1>3, <2>1, BlocksAre
  <2>5. u \in Seq(NZ)
    BY <1>1, <1>3, NextIs
  <2>6. t \in Seq(NZ)
    BY <1>1, <1>3, BehindIs
  <2> SUFFICES ASSUME frame = << >> PROVE FALSE
    BY <2>3
  <2> HIDE DEF c, u, t, E, frame
  <2>7. Len(<<c>> \o u \o t) = Len(<<c>> \o u) + Len(t)
    BY <2>4, <2>5, <2>6
  <2>8. Len(<<c>> \o u) = 1 + Len(u)
    BY <2>5
  <2>9. Len(u) \in Nat /\ Len(t) \in Nat /\ Len(<< >>) = 0
    BY <2>5, <2>6
  <2>10. Len(frame) = 1 + Len(u) + Len(t)
    BY <2>4, <2>7, <2>8
  <2>11. Len(frame) = 0
    BY <2>9
  <2> QED BY <2>9, <2>10, <2>11
<1>5. Ending(frame, 1, E[1])
  <2> HIDE DEF frame, E
  <2> QED BY <1>2, <1>4 DEF Ending
<1>6. D[1] \in Decodable
  <2>1. D \in [1 .. Len(frame) + 1 -> Decodable]
    BY <1>4, DecodedIs
  <2>2. 1 \in 1 .. Len(frame) + 1
    BY <1>4
  <2> HIDE DEF D
  <2> QED BY <2>1, <2>2
<1>7. ASSUME ~ZeroBehindFull(data) PROVE TetherDecode(frame) = packet
  <2>1. IsStart(data, 1)
    BY <1>1, Starting
  <2>2. D[1] = [ok |-> TRUE, data |-> SubSeq(data, 1, n)]
    <3> HIDE DEF D, E, frame, data
    <3> QED BY <1>1, <1>3, <1>4, <1>5, <1>7, <2>1, DecodedWhole DEF D, E
  <2>3. SubSeq(data, 1, n) = data
    BY <1>1, Prefixing
  <2>4. D[1].ok = TRUE /\ D[1].data = data
    <3> HIDE DEF D, data
    <3> QED BY <2>2, <2>3
  <2> HIDE DEF D, data
  <2> QED BY <2>4, <1>1 DEF TetherDecode, D
<1>8. ASSUME ZeroBehindFull(data) PROVE TetherDecode(frame) # packet
  <2>1. Reached(data, 1)
    <3> HIDE DEF data
    <3>0. 0 * MaxRun = 0
      BY Times
    <3>1. FullBlocks(data, 1, 0)
      BY <3>0 DEF FullBlocks
    <3> QED BY <3>1 DEF Reached, IsStart
  <2>2. ZeroAhead(data, 1)
    BY <1>8 DEF ZeroAhead, ZeroBehindFull
  <2>3. Len(D[1].data) <= n - 1
    <3> HIDE DEF D, E, frame, data
    <3> QED BY <1>1, <1>3, <1>4, <1>5, <2>1, <2>2, DecodedShort DEF D, E
  <2>4. CASE D[1].ok /\ IsSealed(D[1].data)
    <3>1. TetherDecode(frame) = Front(D[1].data)
      BY <2>4 DEF TetherDecode, Unsealed
    <3> DEFINE v == D[1].data
    <3>2. v \in Seq(Byte)
      <4> HIDE DEF D
      <4> QED BY <1>6 DEF Decodable
    <3>3. Len(v) >= 2 /\ Len(v) <= n - 1
      BY <2>3, <2>4 DEF IsSealed
    <3> HIDE DEF v, n, D
    <3>4. Len(Front(v)) = Len(v) - 1
      BY <3>2, <3>3 DEF Front
    <3> QED BY <3>1, <3>3, <3>4, <3>2, <1>1 DEF v
  <2>5. CASE ~(D[1].ok /\ IsSealed(D[1].data))
    BY <2>5 DEF TetherDecode, Malformed
  <2> QED BY <2>4, <2>5
<1> QED BY <1>4, <1>7, <1>8

-----------------------------------------------------------------------------
(* The line: bytes that are under way, w, behind packets that were taken.  *)

Ready(w) == w = << >> \/ w[Len(w)] = 0

\* The zero at z ends the frame f, which begins where w does or behind a zero.
Ends(w, z, f) ==
  /\ z \in 1 .. Len(w) /\ w[z] = 0 /\ Len(f) < z
  /\ \A j \in 1 .. Len(f) : w[z - Len(f) - 1 + j] = f[j]
  /\ z - Len(f) = 1 \/ w[z - Len(f) - 1] = 0

\* Every packet sent is one that was taken, or its frame is under way; g says which
\* packet, or behind the packets at which byte.
Carried(w, sent, code, taken, g) ==
  /\ g \in [1 .. Len(sent) -> Nat \ {0}]
  /\ \A i, j \in 1 .. Len(sent) : i < j => g[i] < g[j]
  /\ \A i \in 1 .. Len(sent) : g[i] <= Len(taken) => taken[g[i]] = sent[i]
  /\ \A i \in 1 .. Len(sent) :
       g[i] > Len(taken) => Ends(w, g[i] - Len(taken), code[sent[i]])

\* There is nothing else.
Exactly(w, sent, taken, g) ==
  /\ Len(taken) <= Len(sent)
  /\ \A i \in 1 .. Len(taken) : g[i] = i
  /\ \A z \in 1 .. Len(w) : w[z] = 0 =>
       z = 1 \/ w[z - 1] = 0 \/ \E i \in 1 .. Len(sent) : g[i] = Len(taken) + z

Linked(torn, w, sent, code, taken) ==
  \E g : Carried(w, sent, code, taken, g) /\ (torn = 0 => Exactly(w, sent, taken, g))

LEMMA EndsBefore ==
  ASSUME NEW w \in Seq(Byte), NEW t \in Seq(Byte), NEW z, NEW f \in Seq(NZ), Ends(w, z, f)
  PROVE  Ends(w \o t, z, f)
<1> DEFINE v == w \o t
<1>1. Len(v) = Len(w) + Len(t) /\ \A i \in 1 .. Len(w) : v[i] = w[i]
  OBVIOUS
<1>2. Len(w) \in Nat /\ Len(t) \in Nat /\ Len(f) \in Nat
  OBVIOUS
<1>3. /\ z \in 1 .. Len(w) /\ w[z] = 0 /\ Len(f) < z
      /\ \A j \in 1 .. Len(f) : w[z - Len(f) - 1 + j] = f[j]
      /\ z - Len(f) = 1 \/ w[z - Len(f) - 1] = 0
  BY DEF Ends
<1> HIDE DEF v
<1>4. \A j \in 1 .. Len(f) : v[z - Len(f) - 1 + j] = f[j]
  <2> TAKE j \in 1 .. Len(f)
  <2>1. z - Len(f) - 1 + j \in 1 .. Len(w)
    BY <1>2, <1>3
  <2> QED BY <2>1, <1>1, <1>3
<1>5. z - Len(f) = 1 \/ v[z - Len(f) - 1] = 0
  <2> SUFFICES ASSUME z - Len(f) # 1 PROVE v[z - Len(f) - 1] = 0
    OBVIOUS
  <2>1. z - Len(f) - 1 \in 1 .. Len(w)
    BY <1>2, <1>3
  <2> QED BY <2>1, <1>1, <1>3
<1>6. Ends(v, z, f)
  BY <1>1, <1>2, <1>3, <1>4, <1>5 DEF Ends
<1> QED BY <1>6 DEF v

IsCut(w, head, rest) ==
  head \in Seq(NZ) /\ rest \in Seq(Byte) /\ w = head \o <<0>> \o rest

LEMMA Cutting ==
  ASSUME NEW w, NEW head, NEW rest, IsCut(w, head, rest)
  PROVE  LET h == Len(head)
         IN /\ w \in Seq(Byte) /\ h \in Nat /\ Len(rest) \in Nat /\ Len(w) = h + 1 + Len(rest)
            /\ \A i \in 1 .. h : w[i] = head[i] /\ w[i] # 0
            /\ w[h + 1] = 0
            /\ \A i \in 1 .. Len(rest) : w[h + 1 + i] = rest[i]
            /\ Ready(w) => Ready(rest)
<1> DEFINE h == Len(head)
           v == <<0>> \o rest
<1>1. head \in Seq(NZ) /\ rest \in Seq(Byte) /\ w = head \o <<0>> \o rest
  BY DEF IsCut
<1>2. head \in Seq(Byte) /\ <<0>> \in Seq(Byte)
  BY <1>1, Sizes DEF NZ
<1>3. /\ w \in Seq(Byte) /\ h \in Nat /\ Len(rest) \in Nat /\ Len(w) = h + 1 + Len(rest)
      /\ \A i \in 1 .. h : w[i] = head[i]
      /\ w[h + 1] = 0
      /\ \A i \in 1 .. Len(rest) : w[h + 1 + i] = rest[i]
  BY <1>1, <1>2
<1>4. \A i \in 1 .. h : w[i] # 0
  BY <1>1, <1>3 DEF NZ
<1>5. ASSUME Ready(w) PROVE Ready(rest)
  <2> SUFFICES ASSUME rest # << >> PROVE rest[Len(rest)] = 0
    BY DEF Ready
  <2>1. Len(rest) \in 1 .. Len(rest)
    BY <1>1
  <2>2. w # << >>
    <3>1. Len(w) # 0 /\ Len(<< >>) = 0
      BY <1>3
    <3> QED BY <3>1
  <2> QED BY <2>1, <2>2, <1>3, <1>5 DEF Ready
<1> QED BY <1>3, <1>4, <1>5

LEMMA EndsBehind ==
  ASSUME NEW w, NEW head, NEW rest, IsCut(w, head, rest),
         NEW z, NEW f \in Seq(NZ), Ends(w, z, f)
  PROVE  LET h == Len(head)
         IN /\ z \in Nat /\ z >= h + 1
            /\ z = h + 1 => f = head
            /\ z > h + 1 => Ends(rest, z - h - 1, f)
<1> DEFINE h == Len(head)
           m == Len(f)
<1>1. /\ w \in Seq(Byte) /\ h \in Nat /\ Len(rest) \in Nat /\ Len(w) = h + 1 + Len(rest)
      /\ \A i \in 1 .. h : w[i] = head[i] /\ w[i] # 0
      /\ w[h + 1] = 0
      /\ \A i \in 1 .. Len(rest) : w[h + 1 + i] = rest[i]
  BY Cutting
<1>2. head \in Seq(NZ) /\ m \in Nat
  BY DEF IsCut
<1>3. /\ z \in 1 .. Len(w) /\ w[z] = 0 /\ m < z
      /\ \A j \in 1 .. m : w[z - m - 1 + j] = f[j]
      /\ z - m = 1 \/ w[z - m - 1] = 0
  BY DEF Ends
<1>4. \A j \in 1 .. m : f[j] # 0
  BY DEF NZ
<1> HIDE DEF h, m
<1>5. z \in Nat /\ z >= h + 1
  <2>1. z \in Nat /\ z >= 1
    BY <1>1, <1>3
  <2>2. ~(z \in 1 .. h)
    BY <1>1, <1>3
  <2> QED BY <2>1, <2>2, <1>1
<1>6. ASSUME z = h + 1 PROVE f = head
  <2>1. z - m = 1
    <3> SUFFICES ASSUME z - m # 1 PROVE FALSE
      OBVIOUS
    <3>1. z - m - 1 \in 1 .. h
      BY <1>1, <1>2, <1>3, <1>6
    <3> QED BY <3>1, <1>1, <1>3
  <2>2. m = h
    BY <2>1, <1>1, <1>2, <1>6
  <2>3. ASSUME NEW j \in 1 .. h PROVE f[j] = head[j]
    <3>1. z - m - 1 + j = j
      BY <2>1, <2>2, <1>1, <1>5
    <3> QED BY <3>1, <2>2, <1>1, <1>3
  <2>4. f \in [1 .. h -> NZ] /\ head \in [1 .. h -> NZ]
    BY <2>2, <1>2, LenProperties DEF h, m
  <2>5. \A j \in 1 .. h : f[j] = head[j]
    BY <2>3
  <2>6. f = [j \in 1 .. h |-> f[j]] /\ head = [j \in 1 .. h |-> head[j]]
    BY <2>4
  <2> QED BY <2>5, <2>6
<1>7. ASSUME z > h + 1 PROVE Ends(rest, z - h - 1, f)
  <2> DEFINE y == z - h - 1
  <2>1. z - m - 1 >= h + 1
    <3> SUFFICES ASSUME z - m - 1 < h + 1 PROVE FALSE
      BY <1>1, <1>2, <1>5
    <3> DEFINE j == h + 1 - (z - m - 1)
    <3>1. j \in 1 .. m /\ z - m - 1 + j = h + 1
      BY <1>1, <1>2, <1>3, <1>5, <1>7
    <3> HIDE DEF j
    <3> QED BY <3>1, <1>1, <1>3, <1>4
  <2>2. /\ y \in 1 .. Len(rest) /\ h + 1 + y = z /\ m < y
        /\ y \in Nat
    BY <2>1, <1>1, <1>2, <1>3, <1>5, <1>7
  <2> HIDE DEF y
  <2>3. rest[y] = 0
    BY <2>2, <1>1, <1>3
  <2>4. ASSUME NEW j \in 1 .. m PROVE rest[y - m - 1 + j] = f[j]
    <3>1. y - m - 1 + j \in 1 .. Len(rest) /\ h + 1 + (y - m - 1 + j) = z - m - 1 + j
      BY <2>2, <1>1, <1>2
    <3> QED BY <3>1, <1>1, <1>3
  <2>5. y - m = 1 \/ rest[y - m - 1] = 0
    <3> SUFFICES ASSUME y - m # 1 PROVE rest[y - m - 1] = 0
      OBVIOUS
    <3>1. y - m - 1 \in 1 .. Len(rest) /\ h + 1 + (y - m - 1) = z - m - 1 /\ z - m # 1
      BY <2>2, <1>1, <1>2
    <3> QED BY <3>1, <1>1, <1>3
  <2> QED BY <2>2, <2>3, <2>4, <2>5 DEF Ends, m, y
<1> QED BY <1>5, <1>6, <1>7 DEF h

IsCode(P, code) ==
  P \subseteq Seq(Byte) \ {Malformed} /\ code \in [P -> Seq(NZ) \ {<< >>}]

\* Where the packets that were sent can be.
LEMMA CarriedIs ==
  ASSUME NEW P, NEW code, IsCode(P, code), NEW w \in Seq(Byte), NEW sent \in Seq(P),
         NEW taken \in Seq(Seq(Byte)), NEW g, Carried(w, sent, code, taken, g)
  PROVE  \A i \in 1 .. Len(sent) :
           /\ g[i] \in Nat /\ g[i] >= 1 /\ g[i] <= Len(taken) + Len(w)
           /\ sent[i] \in P /\ code[sent[i]] \in Seq(NZ)
<1> TAKE i \in 1 .. Len(sent)
<1>1. g[i] \in Nat /\ g[i] >= 1
  BY DEF Carried
<1>2. sent[i] \in P /\ code[sent[i]] \in Seq(NZ)
  <2>1. sent[i] \in P
    OBVIOUS
  <2> QED BY <2>1 DEF IsCode
<1>3. Len(taken) \in Nat /\ Len(w) \in Nat
  OBVIOUS
<1>4. CASE g[i] > Len(taken)
  <2>1. Ends(w, g[i] - Len(taken), code[sent[i]])
    BY <1>4 DEF Carried
  <2>2. g[i] - Len(taken) \in 1 .. Len(w)
    BY <2>1 DEF Ends
  <2> QED BY <2>2, <1>1, <1>2, <1>3
<1>5. CASE ~(g[i] > Len(taken))
  BY <1>1, <1>2, <1>3, <1>5
<1> QED BY <1>4, <1>5

\* Bytes that are added do not disturb what is under way, and what ends in a zero
\* leaves the line ready for a frame.
LEMMA CarriedLonger ==
  ASSUME NEW P, NEW code, IsCode(P, code), NEW w \in Seq(Byte), NEW sent \in Seq(P),
         NEW taken \in Seq(Seq(Byte)), NEW g, Carried(w, sent, code, taken, g),
         NEW t \in Seq(Byte)
  PROVE  Carried(w \o t, sent, code, taken, g)
<1>1. ASSUME NEW i \in 1 .. Len(sent), g[i] > Len(taken)
      PROVE  Ends(w \o t, g[i] - Len(taken), code[sent[i]])
  <2>1. Ends(w, g[i] - Len(taken), code[sent[i]])
    BY <1>1 DEF Carried
  <2>2. code[sent[i]] \in Seq(NZ)
    BY CarriedIs
  <2> QED BY <2>1, <2>2, EndsBefore
<1> DEFINE v == w \o t
<1> HIDE DEF v
<1>2. Carried(v, sent, code, taken, g)
  BY <1>1 DEF Carried, v
<1> QED BY <1>2 DEF v

LEMMA Adding ==
  ASSUME NEW w \in Seq(Byte), NEW t \in Seq(Byte)
  PROVE  LET v == w \o t \o <<0>>
         IN /\ v \in Seq(Byte) /\ Len(v) = Len(w) + Len(t) + 1
            /\ \A i \in 1 .. Len(w) : v[i] = w[i]
            /\ \A i \in 1 .. Len(t) : v[Len(w) + i] = t[i]
            /\ v[Len(v)] = 0 /\ Ready(v)
<1> DEFINE v == w \o t \o <<0>>
<1>1. 0 \in Byte
  BY Sizes
<1>2. /\ v \in Seq(Byte) /\ Len(v) = Len(w) + Len(t) + 1
      /\ \A i \in 1 .. Len(w) : v[i] = w[i]
      /\ \A i \in 1 .. Len(t) : v[Len(w) + i] = t[i]
      /\ v[Len(w) + Len(t) + 1] = 0
  BY <1>1
<1> QED BY <1>2 DEF Ready

\* A zero on a line that is ready changes nothing.
LEMMA LinkedZero ==
  ASSUME NEW P, NEW code, IsCode(P, code), NEW w \in Seq(Byte), NEW sent \in Seq(P),
         NEW taken \in Seq(Seq(Byte)), NEW torn, Linked(torn, w, sent, code, taken), Ready(w)
  PROVE  /\ Linked(torn, w \o <<0>>, sent, code, taken)
         /\ w \o <<0>> \in Seq(Byte) /\ Ready(w \o <<0>>)
<1>1. PICK g : Carried(w, sent, code, taken, g) /\ (torn = 0 => Exactly(w, sent, taken, g))
  BY DEF Linked
<1> DEFINE v == w \o <<0>>
<1>2. /\ v \in Seq(Byte) /\ Len(v) = Len(w) + 1 /\ Len(w) \in Nat
      /\ \A i \in 1 .. Len(w) : v[i] = w[i]
      /\ v[Len(w) + 1] = 0
  <2>1. 0 \in Byte
    BY Sizes
  <2> QED BY <2>1
<1>3. Carried(v, sent, code, taken, g)
  <2>1. <<0>> \in Seq(Byte)
    BY Sizes
  <2> QED BY <1>1, <2>1, CarriedLonger
<1> HIDE DEF v
<1>4. ASSUME Exactly(w, sent, taken, g) PROVE Exactly(v, sent, taken, g)
  <2>1. ASSUME NEW z \in 1 .. Len(v), v[z] = 0
        PROVE  z = 1 \/ v[z - 1] = 0 \/ \E i \in 1 .. Len(sent) : g[i] = Len(taken) + z
    <3>1. CASE z \in 1 .. Len(w)
      <4>1. z = 1 \/ w[z - 1] = 0 \/ \E i \in 1 .. Len(sent) : g[i] = Len(taken) + z
        BY <3>1, <2>1, <1>2, <1>4 DEF Exactly
      <4>2. z # 1 => z - 1 \in 1 .. Len(w)
        BY <3>1, <1>2
      <4> QED BY <4>1, <4>2, <1>2
    <3>2. CASE z = Len(w) + 1
      <4>1. CASE w = << >>
        BY <4>1, <3>2
      <4>2. CASE w # << >>
        <5>1. Len(w) \in 1 .. Len(w) /\ w[Len(w)] = 0 /\ z - 1 = Len(w)
          BY <4>2, <3>2, <1>2 DEF Ready
        <5> QED BY <5>1, <1>2
      <4> QED BY <4>1, <4>2
    <3> QED BY <3>1, <3>2, <1>2
  <2> QED BY <2>1, <1>4 DEF Exactly
<1>5. Linked(torn, v, sent, code, taken)
  BY <1>1, <1>3, <1>4 DEF Linked
<1>6. Ready(v)
  BY <1>2 DEF Ready
<1> QED BY <1>2, <1>5, <1>6 DEF v

\* A torn frame and a zero: what was under way still is, but there may be more.
LEMMA LinkedTorn ==
  ASSUME NEW P, NEW code, IsCode(P, code), NEW w \in Seq(Byte), NEW sent \in Seq(P),
         NEW taken \in Seq(Seq(Byte)), NEW torn \in Nat, Linked(torn, w, sent, code, taken),
         NEW t \in Seq(Byte)
  PROVE  /\ Linked(torn + 1, w \o t \o <<0>>, sent, code, taken)
         /\ w \o t \o <<0>> \in Seq(Byte) /\ Ready(w \o t \o <<0>>)
<1>1. PICK g : Carried(w, sent, code, taken, g)
  BY DEF Linked
<1>2. <<0>> \in Seq(Byte) /\ w \o t \in Seq(Byte)
  BY Sizes
<1>3. Carried(w \o t \o <<0>>, sent, code, taken, g)
  <2> DEFINE v == w \o t
  <2>1. Carried(v, sent, code, taken, g)
    BY <1>1, CarriedLonger
  <2> HIDE DEF v
  <2>2. Carried(v \o <<0>>, sent, code, taken, g)
    BY <1>2, <2>1, CarriedLonger DEF v
  <2> QED BY <2>2 DEF v
<1>5. torn + 1 # 0
  OBVIOUS
<1>4. Linked(torn + 1, w \o t \o <<0>>, sent, code, taken)
  BY <1>3, <1>5 DEF Linked
<1> QED BY <1>4, Adding

\* A frame on a line that is ready, and the zero behind it.
LEMMA LinkedFrame ==
  ASSUME NEW P, NEW code, IsCode(P, code), NEW w \in Seq(Byte), NEW sent \in Seq(P),
         NEW taken \in Seq(Seq(Byte)), NEW torn, Linked(torn, w, sent, code, taken), Ready(w),
         NEW p \in P
  PROVE  /\ Linked(torn, w \o code[p] \o <<0>>, Append(sent, p), code, taken)
         /\ w \o code[p] \o <<0>> \in Seq(Byte) /\ Ready(w \o code[p] \o <<0>>)
         /\ Append(sent, p) \in Seq(P)
<1>1. PICK g : Carried(w, sent, code, taken, g) /\ (torn = 0 => Exactly(w, sent, taken, g))
  BY DEF Linked
<1> DEFINE f == code[p]
           v == w \o f \o <<0>>
           n == Len(sent)
           k == Len(taken) + Len(v)
           new == [i \in 1 .. n + 1 |-> IF i = n + 1 THEN k ELSE g[i]]
           more == Append(sent, p)
<1>2. f \in Seq(NZ) /\ f \in Seq(Byte) /\ f # << >>
  <2>1. f \in Seq(NZ) /\ f # << >>
    BY DEF IsCode
  <2> HIDE DEF f
  <2> QED BY <2>1 DEF NZ
<1> HIDE DEF f
<1>3. /\ v \in Seq(Byte) /\ Len(v) = Len(w) + Len(f) + 1
      /\ \A i \in 1 .. Len(w) : v[i] = w[i]
      /\ \A i \in 1 .. Len(f) : v[Len(w) + i] = f[i]
      /\ v[Len(v)] = 0 /\ Ready(v)
  BY <1>2, Adding
<1>4. Len(w) \in Nat /\ Len(f) \in Nat /\ Len(taken) \in Nat /\ n \in Nat
  BY <1>2
<1>5. Carried(v, sent, code, taken, g)
  <2> DEFINE t == f \o <<0>>
  <2>1. t \in Seq(Byte) /\ v = w \o t
    <3>1. 0 \in Byte
      BY Sizes
    <3>2. t \in Seq(Byte)
      BY <1>2, <3>1
    <3>3. w \o f \o <<0>> = w \o (f \o <<0>>)
      BY <1>2, <3>1
    <3> QED BY <3>2, <3>3
  <2> HIDE DEF t, v
  <2> QED BY <1>1, <2>1, CarriedLonger
<1> HIDE DEF v
<1>6. Ends(v, Len(v), f)
  <2> DEFINE m == Len(v)
  <2>1. m - Len(f) - 1 = Len(w) /\ m \in 1 .. m /\ Len(f) < m
    BY <1>3, <1>4
  <2>2. \A j \in 1 .. Len(f) : v[m - Len(f) - 1 + j] = f[j]
    BY <2>1, <1>3
  <2>3. m - Len(f) = 1 \/ v[m - Len(f) - 1] = 0
    <3>1. CASE w = << >>
      BY <3>1, <2>1, <1>3, <1>4
    <3>2. CASE w # << >>
      <4>1. Len(w) \in 1 .. Len(w) /\ w[Len(w)] = 0
        BY <3>2 DEF Ready
      <4> QED BY <4>1, <2>1, <1>3
    <3> QED BY <3>1, <3>2
  <2> QED BY <2>1, <2>2, <2>3, <1>3 DEF Ends
<1>7. /\ more \in Seq(P) /\ Len(more) = n + 1 /\ more[n + 1] = p
      /\ \A i \in 1 .. n : more[i] = sent[i]
  OBVIOUS
<1>8. \A i \in 1 .. n : g[i] \in Nat \ {0} /\ g[i] < k
  <2> TAKE i \in 1 .. n
  <2>1. g[i] \in Nat /\ g[i] >= 1 /\ g[i] <= Len(taken) + Len(w)
    BY <1>1, CarriedIs
  <2> QED BY <2>1, <1>3, <1>4
<1>9. k \in Nat \ {0} /\ k > Len(taken) /\ k - Len(taken) = Len(v)
  BY <1>3, <1>4
<1>10. new \in [1 .. n + 1 -> Nat \ {0}] /\ new[n + 1] = k /\ \A i \in 1 .. n : new[i] = g[i]
  <2> HIDE DEF k, n
  <2> QED BY <1>4, <1>8, <1>9
<1> HIDE DEF new, more, k, n
<1>11. Carried(v, more, code, taken, new)
  <2>1. ASSUME NEW i \in 1 .. n + 1, NEW j \in 1 .. n + 1, i < j PROVE new[i] < new[j]
    <3>1. i \in 1 .. n
      BY <2>1, <1>4
    <3>2. CASE j = n + 1
      BY <3>1, <3>2, <1>8, <1>10
    <3>3. CASE j # n + 1
      <4>1. j \in 1 .. n
        BY <3>3, <1>4
      <4>2. g[i] < g[j]
        BY <3>1, <4>1, <2>1, <1>1 DEF Carried, n
      <4> QED BY <3>1, <4>1, <4>2, <1>10
    <3> QED BY <3>2, <3>3
  <2>2. ASSUME NEW i \in 1 .. n + 1
        PROVE  /\ new[i] <= Len(taken) => taken[new[i]] = more[i]
               /\ new[i] > Len(taken) => Ends(v, new[i] - Len(taken), code[more[i]])
    <3>1. CASE i = n + 1
      <4>1. new[i] = k /\ more[i] = p /\ ~(k <= Len(taken))
        BY <3>1, <1>4, <1>7, <1>9, <1>10
      <4> QED BY <4>1, <1>6, <1>9 DEF f
    <3>2. CASE i # n + 1
      <4>1. i \in 1 .. n
        BY <3>2, <1>4
      <4>2. new[i] = g[i] /\ more[i] = sent[i]
        BY <4>1, <1>7, <1>10
      <4>3. /\ g[i] <= Len(taken) => taken[g[i]] = sent[i]
            /\ g[i] > Len(taken) => Ends(v, g[i] - Len(taken), code[sent[i]])
        BY <4>1, <1>5 DEF Carried, n
      <4> QED BY <4>2, <4>3
    <3> QED BY <3>1, <3>2
  <2> QED BY <2>1, <2>2, <1>7, <1>10 DEF Carried
<1>12. ASSUME Exactly(w, sent, taken, g) PROVE Exactly(v, more, taken, new)
  <2>1. Len(taken) <= n /\ \A i \in 1 .. Len(taken) : g[i] = i
    BY <1>12 DEF Exactly, n
  <2>2. Len(taken) <= n + 1 /\ \A i \in 1 .. Len(taken) : new[i] = i
    <3>1. Len(taken) <= n + 1
      BY <2>1, <1>4
    <3>2. ASSUME NEW i \in 1 .. Len(taken) PROVE new[i] = i
      <4>1. i \in 1 .. n /\ g[i] = i
        BY <2>1, <1>4
      <4> QED BY <4>1, <1>10
    <3> QED BY <3>1, <3>2
  <2>3. ASSUME NEW z \in 1 .. Len(v), v[z] = 0
        PROVE  z = 1 \/ v[z - 1] = 0 \/ \E i \in 1 .. n + 1 : new[i] = Len(taken) + z
    <3>1. CASE z \in 1 .. Len(w)
      <4>1. z = 1 \/ w[z - 1] = 0 \/ \E i \in 1 .. n : g[i] = Len(taken) + z
        BY <3>1, <2>3, <1>3, <1>12 DEF Exactly, n
      <4>2. z # 1 => z - 1 \in 1 .. Len(w)
        BY <3>1, <1>4
      <4>3. \A i \in 1 .. n : i \in 1 .. n + 1
        BY <1>4
      <4> QED BY <4>1, <4>2, <4>3, <1>3, <1>10
    <3>2. CASE z = Len(v)
      <4>1. n + 1 \in 1 .. n + 1 /\ new[n + 1] = Len(taken) + z
        BY <3>2, <1>4, <1>10 DEF k
      <4> QED BY <4>1
    <3>3. CASE z \notin 1 .. Len(w) /\ z # Len(v)
      <4> DEFINE j == z - Len(w)
      <4>0. z \in Nat /\ z > Len(w) /\ z < Len(w) + Len(f) + 1
        <5> DEFINE a == Len(w)
                   b == Len(f)
        <5>1. z \in 1 .. a + b + 1 /\ z # a + b + 1 /\ z \notin 1 .. a
          BY <3>3, <1>3
        <5>2. a \in Nat /\ b \in Nat
          BY <1>4
        <5> HIDE DEF a, b
        <5>3. z \in Nat /\ z > a /\ z < a + b + 1
          BY <5>1, <5>2
        <5> QED BY <5>3 DEF a, b
      <4>1. j \in 1 .. Len(f) /\ Len(w) + j = z
        BY <4>0, <1>4
      <4> HIDE DEF j
      <4>2. v[z] = f[j] /\ f[j] # 0
        BY <4>1, <1>2, <1>3 DEF NZ
      <4> QED BY <4>2, <2>3
    <3> QED BY <3>1, <3>2, <3>3
  <2> QED BY <2>2, <2>3, <1>7 DEF Exactly
<1>13. Linked(torn, v, more, code, taken)
  BY <1>1, <1>11, <1>12 DEF Linked
<1> QED BY <1>3, <1>7, <1>13 DEF v, f, more

\* The zero behind head is read, and what head decodes to is taken.
Taking(taken, x) == IF x = Malformed THEN taken ELSE Append(taken, x)

LEMMA LinkedTaken ==
  ASSUME NEW P, NEW code, IsCode(P, code), NEW w, NEW head, NEW rest, IsCut(w, head, rest),
         NEW sent \in Seq(P), NEW taken \in Seq(Seq(Byte)), NEW torn,
         Linked(torn, w, sent, code, taken), NEW x \in Seq(Byte),
         head = << >> => x = Malformed, \A p \in P : code[p] = head => x = p
  PROVE  /\ Linked(torn, rest, sent, code, Taking(taken, x))
         /\ Taking(taken, x) \in Seq(Seq(Byte))
<1>1. PICK g : Carried(w, sent, code, taken, g) /\ (torn = 0 => Exactly(w, sent, taken, g))
  BY DEF Linked
<1> DEFINE h == Len(head)
           n == Len(sent)
           k == Len(taken)
           after == Taking(taken, x)
           l == Len(after)
           Moved(m) == IF m <= k THEN m ELSE IF m = k + h + 1 THEN l ELSE m - k - h - 1 + l
           new == [i \in 1 .. n |-> Moved(g[i])]
<1>2. /\ w \in Seq(Byte) /\ h \in Nat /\ Len(rest) \in Nat /\ Len(w) = h + 1 + Len(rest)
      /\ \A i \in 1 .. h : w[i] = head[i] /\ w[i] # 0
      /\ w[h + 1] = 0
      /\ \A i \in 1 .. Len(rest) : w[h + 1 + i] = rest[i]
  <2> HIDE DEF k, n, after, l
  <2> QED BY ONLY IsCut(w, head, rest), Cutting
<1>3. k \in Nat /\ n \in Nat /\ rest \in Seq(Byte)
  BY DEF IsCut
<1>4. /\ after \in Seq(Seq(Byte)) /\ l \in Nat /\ l \in k .. k + 1
      /\ \A i \in 1 .. k : after[i] = taken[i]
      /\ x # Malformed => l = k + 1 /\ after[k + 1] = x
      /\ x = Malformed => l = k
  BY DEF Taking
<1> HIDE DEF h, k, n, after, l
<1>5. ASSUME NEW i \in 1 .. n
      PROVE  /\ g[i] \in Nat \ {0}
             /\ g[i] <= k => taken[g[i]] = sent[i]
             /\ g[i] > k => g[i] >= k + h + 1
             /\ g[i] = k + h + 1 => x = sent[i] /\ x # Malformed
             /\ g[i] > k + h + 1 => Ends(rest, g[i] - k - h - 1, code[sent[i]])
  <2>1. g[i] \in Nat /\ g[i] >= 1 /\ sent[i] \in P /\ code[sent[i]] \in Seq(NZ)
    BY <1>1, <1>2, CarriedIs DEF n
  <2>2. /\ g[i] <= k => taken[g[i]] = sent[i]
        /\ g[i] > k => Ends(w, g[i] - k, code[sent[i]])
    BY <1>1 DEF Carried, n, k
  <2>3. ASSUME g[i] > k
        PROVE  /\ g[i] - k >= h + 1
               /\ g[i] - k = h + 1 => code[sent[i]] = head
               /\ g[i] - k > h + 1 => Ends(rest, g[i] - k - h - 1, code[sent[i]])
    <3>1. Ends(w, g[i] - k, code[sent[i]])
      BY <2>2, <2>3
    <3> QED BY <3>1, <2>1, EndsBehind DEF h
  <2>4. ASSUME g[i] > k PROVE g[i] >= k + h + 1
    BY <2>1, <2>3, <2>4, <1>2, <1>3
  <2>5. ASSUME g[i] = k + h + 1 PROVE x = sent[i] /\ x # Malformed
    <3>1. g[i] > k /\ g[i] - k = h + 1
      BY <2>5, <1>2, <1>3
    <3>2. code[sent[i]] = head
      BY <3>1, <2>3
    <3> QED BY <3>2, <2>1 DEF IsCode
  <2>6. ASSUME g[i] > k + h + 1 PROVE Ends(rest, g[i] - k - h - 1, code[sent[i]])
    <3>1. g[i] > k /\ g[i] - k > h + 1
      BY <2>1, <2>6, <1>2, <1>3
    <3> QED BY <3>1, <2>3
  <2> QED BY <2>1, <2>2, <2>4, <2>5, <2>6
<1>6. \A i \in 1 .. n : new[i] = Moved(g[i])
  BY <1>3
<1>7. new \in [1 .. n -> Nat \ {0}]
  <2>1. ASSUME NEW m \in Nat \ {0}, m > k => m >= k + h + 1, m = k + h + 1 => l = k + 1
        PROVE  Moved(m) \in Nat \ {0}
    <3>1. CASE m <= k
      BY <3>1
    <3>2. CASE m = k + h + 1
      <4>1. ~(m <= k) /\ l = k + 1
        BY <2>1, <3>2, <1>2, <1>3
      <4>2. l \in Nat \ {0}
        BY <4>1, <1>3
      <4> QED BY <3>2, <4>1, <4>2
    <3>3. CASE m > k + h + 1
      <4>1. m - k - h - 1 \in Nat \ {0} /\ ~(m <= k) /\ m # k + h + 1
        BY <3>3, <1>2, <1>3
      <4>2. m - k - h - 1 + l \in Nat \ {0}
        BY <3>3, <1>2, <1>3, <1>4
      <4> QED BY <4>1, <4>2
    <3> QED BY <2>1, <3>1, <3>2, <3>3, <1>2, <1>3
  <2>2. ASSUME NEW i \in 1 .. n PROVE Moved(g[i]) \in Nat \ {0}
    <3> DEFINE m == g[i]
    <3>1. m \in Nat \ {0} /\ (m > k => m >= k + h + 1) /\ (m = k + h + 1 => l = k + 1)
      BY <1>4, <1>5
    <3> HIDE DEF m, Moved
    <3>2. Moved(m) \in Nat \ {0}
      BY <2>1, <3>1
    <3> QED BY <3>2 DEF m
  <2> HIDE DEF Moved
  <2> QED BY <2>2
<1> HIDE DEF new
<1>8. Carried(rest, sent, code, after, new)
  <2>1. ASSUME NEW i \in 1 .. n, NEW j \in 1 .. n, i < j PROVE new[i] < new[j]
    <3> DEFINE a == g[i]
               b == g[j]
    <3>1. a < b
      BY <2>1, <1>1 DEF Carried, n
    <3>2. /\ a \in Nat \ {0} /\ (a > k => a >= k + h + 1)
          /\ b \in Nat \ {0} /\ (b > k => b >= k + h + 1) /\ (b = k + h + 1 => l = k + 1)
      BY <1>4, <1>5
    <3>3. new[i] = Moved(a) /\ new[j] = Moved(b)
      BY <1>6
    <3> HIDE DEF a, b
    <3>4. Moved(a) < Moved(b)
      BY <3>1, <3>2, <1>2, <1>3, <1>4
    <3> QED BY <3>3, <3>4
  <2>2. ASSUME NEW i \in 1 .. n
        PROVE  /\ new[i] <= l => after[new[i]] = sent[i]
               /\ new[i] > l => Ends(rest, new[i] - l, code[sent[i]])
    <3> DEFINE m == g[i]
    <3>1. /\ m \in Nat \ {0}
          /\ m <= k => taken[m] = sent[i]
          /\ m > k => m >= k + h + 1
          /\ m = k + h + 1 => x = sent[i] /\ x # Malformed
          /\ m > k + h + 1 => Ends(rest, m - k - h - 1, code[sent[i]])
      BY <1>5
    <3>2. new[i] = Moved(m)
      BY <1>6
    <3> HIDE DEF m
    <3>3. CASE m <= k
      <4>1. new[i] = m /\ m \in 1 .. k /\ m <= l
        BY <3>1, <3>2, <3>3, <1>3, <1>4
      <4> QED BY <4>1, <3>1, <3>3, <1>3, <1>4
    <3>4. CASE m = k + h + 1
      <4>1. new[i] = l /\ l = k + 1 /\ after[k + 1] = x /\ x = sent[i]
        BY <3>1, <3>2, <3>4, <1>2, <1>3, <1>4
      <4> QED BY <4>1, <1>4
    <3>5. CASE m > k + h + 1
      <4> DEFINE y == m - k - h - 1
      <4>0. k \in Nat /\ h \in Nat /\ m \in Nat /\ m > k + h + 1
        BY <3>1, <3>5, <1>2, <1>3
      <4>1. y \in Nat \ {0} /\ ~(m <= k) /\ m # k + h + 1
        BY ONLY <4>0
      <4>2. new[i] = y + l
        BY <4>1, <3>2
      <4>3. Ends(rest, y, code[sent[i]])
        BY <3>1, <3>5
      <4> HIDE DEF y
      <4>4. ~(y + l <= l) /\ (y + l) - l = y
        BY <4>1, <1>4
      <4> QED BY <4>2, <4>3, <4>4
    <3>6. m <= k \/ m = k + h + 1 \/ m > k + h + 1
      <4>1. m \in Nat /\ (m > k => m >= k + h + 1)
        BY <3>1
      <4> QED BY <4>1, <1>2, <1>3
    <3> QED BY <3>3, <3>4, <3>5, <3>6
  <2> QED BY <2>1, <2>2, <1>7 DEF Carried, n, l
<1>9. ASSUME Exactly(w, sent, taken, g) PROVE Exactly(rest, sent, after, new)
  <2>1. /\ k <= n /\ \A i \in 1 .. k : g[i] = i
        /\ \A z \in 1 .. Len(w) : w[z] = 0 =>
             z = 1 \/ w[z - 1] = 0 \/ \E i \in 1 .. n : g[i] = k + z
    BY <1>9 DEF Exactly, n, k
  <2>2. \A i, j \in 1 .. n : i < j => g[i] < g[j]
    BY <1>1 DEF Carried, n
\* What is taken is the packet behind those taken before.
  <2>3. ASSUME x # Malformed PROVE k + 1 \in 1 .. n /\ g[k + 1] = k + h + 1
    <3>1. h # 0
      <4>1. head # << >>
        BY <2>3
      <4>2. head \in Seq(NZ)
        BY DEF IsCut
      <4> QED BY <4>1, <4>2 DEF h
    <3>2. h + 1 \in 1 .. Len(w) /\ h + 1 # 1 /\ h \in 1 .. h /\ (h + 1) - 1 = h
      BY <3>1, <1>2
    <3>3. w[h] # 0
      BY <3>2, <1>2
    <3>4. PICK i \in 1 .. n : g[i] = k + (h + 1)
      BY <3>2, <3>3, <1>2, <2>1
    <3>5. ~(i <= k)
      <4> SUFFICES ASSUME i <= k PROVE FALSE
        OBVIOUS
      <4>1. i \in 1 .. k
        BY <1>3
      <4> QED BY <4>1, <2>1, <3>4, <1>2, <1>3
    <3>6. k + 1 \in 1 .. n /\ k + 1 <= i
      BY <3>5, <1>3
    <3>7. i = k + 1
      <4> SUFFICES ASSUME k + 1 < i PROVE FALSE
        BY <3>6, <1>3
      <4>1. g[k + 1] < g[i]
        BY <3>6, <2>2
      <4> DEFINE m == g[k + 1]
      <4>2. m \in Nat /\ (m <= k \/ m >= k + h + 1)
        <5>1. m \in Nat /\ (m > k => m >= k + h + 1)
          BY <3>6, <1>5
        <5> HIDE DEF m
        <5> QED BY <5>1, <1>3
      <4>3. m <= k
        <5> HIDE DEF m
        <5>1. m < k + (h + 1)
          BY <4>1, <3>4 DEF m
        <5> QED BY <5>1, <4>2, <1>2, <1>3
      <4>4. CASE k = 0
        <5>1. m # 0
          BY <3>6, <1>5
        <5> HIDE DEF m
        <5> QED BY <5>1, <4>2, <4>3, <4>4
      <4>5. CASE k # 0
        <5>1. k \in 1 .. k /\ k \in 1 .. n /\ k < k + 1
          BY <4>5, <3>6, <1>3
        <5>2. g[k] = k /\ g[k] < g[k + 1]
          BY <5>1, <3>6, <2>1, <2>2
        <5> HIDE DEF m
        <5>3. k < m
          BY <5>2 DEF m
        <5> QED BY <5>3, <4>2, <4>3, <1>3
      <4> QED BY <4>4, <4>5
    <3> QED BY <3>4, <3>6, <3>7, <1>2, <1>3
  <2>4. l <= n
    <3>1. CASE x = Malformed
      BY <3>1, <2>1, <1>4
    <3>2. CASE x # Malformed
      <4>1. l = k + 1 /\ k + 1 \in 1 .. n
        BY <3>2, <2>3, <1>4
      <4> QED BY <4>1
    <3> QED BY <3>1, <3>2
  <2>5. ASSUME NEW i \in 1 .. l PROVE new[i] = i
    <3>1. i \in 1 .. n
      BY <2>4, <1>3, <1>4
    <3>2. new[i] = Moved(g[i])
      BY <3>1, <1>6
    <3>3. CASE i \in 1 .. k
      <4>1. g[i] = i /\ i <= k
        BY <3>3, <2>1, <1>3
      <4> QED BY <4>1, <3>2
    <3>4. CASE i \notin 1 .. k
      <4>1. i = k + 1 /\ l = k + 1
        BY <3>4, <1>3, <1>4
      <4>2. x # Malformed
        BY <4>1, <1>3, <1>4
      <4>3. g[i] = k + h + 1
        BY <4>1, <4>2, <2>3
      <4>4. ~(k + h + 1 <= k)
        BY <1>2, <1>3
      <4> QED BY <4>1, <4>3, <4>4, <3>2
    <3> QED BY <3>3, <3>4
  <2>6. ASSUME NEW z \in 1 .. Len(rest), rest[z] = 0
        PROVE  z = 1 \/ rest[z - 1] = 0 \/ \E i \in 1 .. n : new[i] = l + z
    <3> SUFFICES ASSUME z # 1, rest[z - 1] # 0
                 PROVE  \E i \in 1 .. n : new[i] = l + z
      OBVIOUS
    <3>1. /\ h + 1 + z \in 1 .. Len(w) /\ h + 1 + z # 1 /\ (h + 1 + z) - 1 = h + 1 + (z - 1)
          /\ z - 1 \in 1 .. Len(rest)
      BY <1>2
    <3>2. w[h + 1 + z] = 0 /\ w[h + 1 + (z - 1)] # 0
      BY <2>6, <3>1, <1>2
    <3>3. PICK i \in 1 .. n : g[i] = k + (h + 1 + z)
      BY <3>1, <3>2, <2>1
    <3>4. new[i] = Moved(k + (h + 1 + z))
      BY <3>3, <1>6
    <3>5. new[i] = l + z
      <4> DEFINE m == k + (h + 1 + z)
      <4>1. k \in Nat /\ h \in Nat /\ l \in Nat /\ z \in Nat /\ z >= 1
        BY <1>2, <1>3, <1>4
      <4>2. ~(m <= k) /\ m # k + h + 1 /\ m - k - h - 1 + l = l + z
        BY ONLY <4>1
      <4>3. new[i] = Moved(m)
        BY <3>4
      <4> HIDE DEF m
      <4> QED BY <4>2, <4>3
    <3> QED BY <3>5
  <2> QED BY <2>4, <2>5, <2>6 DEF Exactly, n, l
<1>10. Linked(torn, rest, sent, code, after)
  BY <1>1, <1>8, <1>9 DEF Linked
<1> QED BY <1>4, <1>10 DEF after

\* Nothing under way: everything sent is among what was taken, in order.
LEMMA LinkedEmbeds ==
  ASSUME NEW P, NEW code, IsCode(P, code), NEW sent \in Seq(P),
         NEW taken \in Seq(Seq(Byte)), NEW torn, Linked(torn, << >>, sent, code, taken)
  PROVE  Embeds(sent, taken)
<1>1. PICK g : Carried(<< >>, sent, code, taken, g)
  BY DEF Linked
<1>2. Len(sent) \in Nat /\ Len(taken) \in Nat
  OBVIOUS
<1>3. ASSUME NEW i \in 1 .. Len(sent) PROVE g[i] \in 1 .. Len(taken) /\ sent[i] = taken[g[i]]
  <2>1. << >> \in Seq(Byte) /\ Len(<< >>) = 0
    OBVIOUS
  <2>2. g[i] \in Nat /\ g[i] >= 1 /\ g[i] <= Len(taken) + Len(<< >>)
    BY <1>1, <2>1, CarriedIs
  <2>3. g[i] \in 1 .. Len(taken) /\ g[i] <= Len(taken)
    BY <2>1, <2>2, <1>2
  <2> QED BY <2>3, <1>1 DEF Carried
<1>4. g \in [1 .. Len(sent) -> 1 .. Len(taken)]
  <2>1. g \in [1 .. Len(sent) -> Nat \ {0}]
    BY <1>1 DEF Carried
  <2> QED BY <2>1, <1>3
<1>5. \A i \in 2 .. Len(sent) : g[i - 1] < g[i]
  <2> TAKE i \in 2 .. Len(sent)
  <2>1. i - 1 \in 1 .. Len(sent) /\ i \in 1 .. Len(sent) /\ i - 1 < i
    BY <1>2
  <2> QED BY <2>1, <1>1 DEF Carried
<1> QED BY <1>3, <1>4, <1>5 DEF Embeds

\* No torn frames: what was taken is how what was sent begins.
LEMMA LinkedPrefix ==
  ASSUME NEW P, NEW code, IsCode(P, code), NEW w \in Seq(Byte), NEW sent \in Seq(P),
         NEW taken \in Seq(Seq(Byte)), Linked(0, w, sent, code, taken)
  PROVE  IsPrefix(taken, sent)
<1>1. PICK g : Carried(w, sent, code, taken, g) /\ Exactly(w, sent, taken, g)
  BY DEF Linked
<1>2. Len(sent) \in Nat /\ Len(taken) \in Nat
  OBVIOUS
<1>3. Len(taken) <= Len(sent)
  BY <1>1 DEF Exactly
<1>4. \A i \in 1 .. Len(taken) : taken[i] = sent[i]
  <2> TAKE i \in 1 .. Len(taken)
  <2>1. i \in 1 .. Len(sent) /\ i <= Len(taken) /\ g[i] = i
    BY <1>1, <1>2, <1>3 DEF Exactly
  <2> QED BY <2>1, <1>1 DEF Carried
<1>5. SubSeq(taken, 1, Len(taken)) = SubSeq(sent, 1, Len(taken))
  <2> DEFINE m == Len(taken)
             u == SubSeq(sent, 1, m)
  <2>1. m \in 0 .. Len(sent) /\ SubSeq(taken, 1, m) = taken
    BY <1>2, <1>3
  <2>2. u \in Seq(P) /\ Len(u) = m /\ \A i \in 1 .. m : u[i] = sent[i]
    <3> HIDE DEF m
    <3> QED BY <2>1
  <2>3. taken \in [1 .. m -> Seq(Byte)] /\ u \in [1 .. m -> P]
    <3> HIDE DEF u
    <3> QED BY <2>2, LenProperties
  <2>4. taken = [i \in 1 .. m |-> taken[i]] /\ u = [i \in 1 .. m |-> u[i]]
    BY <2>3
  <2>5. \A i \in 1 .. m : taken[i] = u[i]
    BY <2>2, <1>4
  <2>6. taken = u
    <3> HIDE DEF u, m
    <3> QED BY <2>4, <2>5
  <2> QED BY <2>1, <2>6
<1> QED BY <1>2, <1>3, <1>5 DEF IsPrefix

-----------------------------------------------------------------------------
(* Types.                                                                  *)

LEMMA PacketsAre ==
  /\ \A p \in Requests : /\ p \in Seq(Byte) /\ p # << >>
                         /\ TetherEncode(p) \in Seq(NZ) /\ TetherEncode(p) # << >>
                         /\ DecodedPacket(After(TetherEncode(p))) = p
  /\ \A p \in Replies : /\ p \in Seq(Byte) /\ p # << >>
                        /\ FirmwareEncode(p) \in Seq(NZ) /\ FirmwareEncode(p) # << >>
<1>1. ASSUME NEW p \in Requests
      PROVE  /\ p \in Seq(Byte) /\ p # << >>
             /\ TetherEncode(p) \in Seq(NZ) /\ TetherEncode(p) # << >>
             /\ DecodedPacket(After(TetherEncode(p))) = p
  <2>1. p \in Seq(Byte) /\ p # << >>
    BY CobsAssumption
  <2>2. TetherEncode(p) \in Seq(NZ) /\ DecodedPacket(After(TetherEncode(p))) = p
    BY <2>1, TetherFrames
  <2>3. DecodedPacket(After(<< >>)) = << >>
    BY AfterIs DEF DecodedPacket, Decoder, Malformed
  <2> QED BY <2>1, <2>2, <2>3
<1>2. ASSUME NEW p \in Replies
      PROVE  /\ p \in Seq(Byte) /\ p # << >>
             /\ FirmwareEncode(p) \in Seq(NZ) /\ FirmwareEncode(p) # << >>
  <2>1. p \in Seq(Byte) /\ p # << >>
    BY CobsAssumption
  <2> QED BY <2>1, FirmwareFrames
<1> QED BY <1>1, <1>2

LEMMA FirmwareTakes ==
  ASSUME NEW d \in DecoderState
  PROVE  DecodedPacket(d) \in Seq(Byte)
<1> DEFINE data == IF d.code < MaxCode THEN Front(d.packet) ELSE d.packet
<1>1. d.packet \in Seq(Byte)
  BY DEF DecoderState
<1>2. Malformed \in Seq(Byte)
  BY DEF Malformed
<1>3. CASE d.awaiting /\ d.packet # << >> /\ IsSealed(data)
  <2>1. Len(d.packet) \in Nat /\ Len(d.packet) >= 1
    BY <1>1, <1>3, EmptySeq
  <2>2. Front(d.packet) \in Seq(Byte)
    <3> DEFINE s == d.packet
    <3>1. s \in Seq(Byte) /\ Len(s) \in Nat /\ Len(s) >= 1
      BY <1>1, <2>1
    <3> HIDE DEF s
    <3>2. SubSeq(s, 1, Len(s) - 1) \in Seq(Byte)
      BY <3>1
    <3> QED BY <3>2 DEF Front, s
  <2>3. data \in Seq(Byte)
    BY <1>1, <2>2
  <2>4. DecodedPacket(d) = Unsealed(data)
    BY <1>3 DEF DecodedPacket
  <2> HIDE DEF data
  <2> QED BY <1>3, <2>3, <2>4, Unsealing
<1>4. CASE ~(d.awaiting /\ d.packet # << >> /\ IsSealed(data))
  BY <1>2, <1>4 DEF DecodedPacket
<1> QED BY <1>3, <1>4

LEMMA TetherTakes ==
  ASSUME NEW frame \in Seq(NZ)
  PROVE  TetherDecode(frame) \in Seq(Byte)
<1> DEFINE d == DecodedFrom(frame)[1]
<1>1. d \in Decodable
  <2> DEFINE D == DecodedFrom(frame)
  <2>1. D \in [1 .. Len(frame) + 1 -> Decodable]
    BY DecodedIs
  <2>2. 1 \in 1 .. Len(frame) + 1
    OBVIOUS
  <2> HIDE DEF D
  <2>3. D[1] \in Decodable
    BY <2>1, <2>2
  <2> QED BY <2>3 DEF D
<1>2. d.data \in Seq(Byte)
  <2> HIDE DEF d
  <2> QED BY <1>1 DEF Decodable
<1>3. TetherDecode(frame) = IF d.ok /\ IsSealed(d.data) THEN Unsealed(d.data) ELSE Malformed
  BY DEF TetherDecode
<1>4. Malformed \in Seq(Byte)
  BY DEF Malformed
<1>5. IsSealed(d.data) => Unsealed(d.data) \in Seq(Byte)
  <2> HIDE DEF d
  <2> QED BY <1>2, Unsealing
<1> HIDE DEF d
<1> QED BY <1>3, <1>4, <1>5

\* What every step may use.
Typed == TypeOK /\ decoder \in DecoderState

LEMMA TypedIs ==
  ASSUME Typed
  PROVE  /\ down \in Seq(Byte) /\ up \in Seq(Byte) /\ partial \in Seq(NZ)
         /\ decoder \in DecoderState /\ queue \in Seq(Seq(Byte)) /\ heard \in Seq(Seq(Byte))
         /\ got \in Seq(Seq(Byte)) /\ asked \in Seq(Requests) /\ told \in Seq(Replies)
         /\ deaths \in Nat /\ pending \in BOOLEAN /\ heard \o queue \in Seq(Seq(Byte))
BY DEF Typed, TypeOK, NZ

LEMMA DecoderTyped ==
  ASSUME NEW d \in DecoderState
  PROVE  /\ d.packet \in Seq(Byte) /\ d.code \in Byte
         /\ d.copy \in 0 .. MaxRun /\ d.awaiting = (d.copy = 0)
BY DEF DecoderState

LEMMA InitTyped == Init => Typed
<1> SUFFICES ASSUME Init PROVE Typed
  OBVIOUS
<1> USE DEF Init
<1>1. decoder \in DecoderState
  BY DecoderInitial
<1>2. <<0>> \in Seq(Byte)
  BY Sizes
<1>3. /\ down \in Seq(Byte) /\ up \in Seq(Byte) /\ partial \in Seq(Byte \ {0})
      /\ queue \in Seq(Seq(Byte)) /\ Len(queue) <= QueueMax
      /\ pending \in BOOLEAN /\ deaths \in 0 .. MaxDeaths
      /\ asked \in Seq(Requests) /\ Len(asked) <= MaxRequests
      /\ heard \in Seq(Seq(Byte)) /\ told \in Seq(Replies) /\ got \in Seq(Seq(Byte))
  <2>1. down \in Seq(Byte)
    BY <1>2
  <2>2. /\ up \in Seq(Byte) /\ partial \in Seq(Byte \ {0}) /\ queue \in Seq(Seq(Byte))
        /\ asked \in Seq(Requests) /\ heard \in Seq(Seq(Byte)) /\ told \in Seq(Replies)
        /\ got \in Seq(Seq(Byte))
    OBVIOUS
  <2>3. Len(queue) = 0 /\ Len(asked) = 0 /\ pending \in BOOLEAN /\ deaths = 0
    OBVIOUS
  <2> HIDE DEF Init
  <2>4. Len(queue) <= QueueMax /\ Len(asked) <= MaxRequests /\ deaths \in 0 .. MaxDeaths
    BY <2>3, CobsAssumption
  <2> QED BY <2>1, <2>2, <2>3, <2>4
<1>4. /\ decoder.packet \in Seq(Byte) /\ decoder.code \in Byte
      /\ decoder.copy \in 0 .. MaxRun /\ decoder.awaiting = (decoder.copy = 0)
  BY <1>1, DecoderTyped
<1> QED BY <1>1, <1>3, <1>4 DEF Typed, TypeOK

LEMMA RequestTyped ==
  ASSUME Typed, NEW p \in Requests, Request(p)
  PROVE  Typed'
<1>1. TetherEncode(p) \in Seq(Byte) /\ <<0>> \in Seq(Byte)
  BY PacketsAre, Sizes DEF NZ
<1>2. down' \in Seq(Byte)
  <2> DEFINE f == TetherEncode(p)
  <2> HIDE DEF f
  <2>1. f \in Seq(Byte) /\ down \in Seq(Byte)
    BY <1>1, TypedIs DEF f
  <2>2. down \o f \o <<0>> \in Seq(Byte)
    BY <1>1, <2>1
  <2> QED BY <2>2 DEF f, Request
<1>3. asked' \in Seq(Requests) /\ Len(asked') <= MaxRequests
  BY CobsAssumption DEF Request, Typed, TypeOK
<1>4. /\ pending' = TRUE /\ deaths' = deaths /\ decoder' = decoder /\ queue' = queue /\ up' = up
      /\ partial' = partial /\ heard' = heard /\ told' = told /\ got' = got
  BY DEF Request
<1> QED BY <1>2, <1>3, <1>4 DEF Typed, TypeOK

\* What is left of the bytes for a Tether that dies.
LEMMA LeftOver ==
  ASSUME NEW s \in Seq(Byte), NEW k \in 0 .. Len(s)
  PROVE  /\ SubSeq(s, k + 1, Len(s)) \in Seq(Byte)
         /\ Ready(s) => Ready(SubSeq(s, k + 1, Len(s)))
<1> DEFINE u == SubSeq(s, k + 1, Len(s))
<1>1. Len(s) \in Nat /\ k \in Nat
  OBVIOUS
<1>2. /\ u \in Seq(Byte) /\ Len(u) = Len(s) - k
      /\ \A i \in 1 .. Len(s) - k : u[i] = s[k + i]
  BY <1>1
<1> HIDE DEF u
<1>3. ASSUME Ready(s), u # << >> PROVE u[Len(u)] = 0
  <2>1. Len(u) \in 1 .. Len(s) - k /\ k + Len(u) = Len(s)
    BY <1>1, <1>2, <1>3, EmptySeq
  <2>2. s # << >>
    BY <2>1, <1>1, EmptySeq
  <2> QED BY <2>1, <2>2, <1>2, <1>3 DEF Ready
<1> QED BY <1>2, <1>3 DEF Ready, u

LEMMA Dying ==
  ASSUME Typed, Die
  PROVE  /\ \E t \in Seq(NZ) : down' = down \o t \o <<0>>
         /\ \E k \in 0 .. Len(up) : up' = SubSeq(up, k + 1, Len(up))
         /\ deaths' = deaths + 1 /\ deaths' \in 0 .. MaxDeaths
         /\ partial' = << >> /\ pending' = FALSE /\ told' = << >> /\ got' = << >>
         /\ decoder' = decoder /\ queue' = queue /\ asked' = asked /\ heard' = heard
<1>1. PICK p \in Requests :
        \E k \in 0 .. TornMax(p) : down' = down \o SubSeq(TetherEncode(p), 1, k) \o <<0>>
  BY DEF Die
<1>2. PICK k \in 0 .. TornMax(p) : down' = down \o SubSeq(TetherEncode(p), 1, k) \o <<0>>
  BY <1>1
<1> DEFINE f == TetherEncode(p)
<1>3. f \in Seq(NZ)
  BY PacketsAre
<1> HIDE DEF f
<1>4. k \in 0 .. Len(f)
  <2>1. CASE pending
    BY <2>1, <1>3 DEF TornMax
  <2>2. CASE ~pending
    BY <2>2 DEF TornMax, f
  <2> QED BY <2>1, <2>2
<1>5. SubSeq(f, 1, k) \in Seq(NZ)
  BY <1>3, <1>4, Prefixing
<1>6. \E t \in Seq(NZ) : down' = down \o t \o <<0>>
  BY <1>2, <1>5 DEF f
<1>7. /\ \E j \in 0 .. Len(up) : up' = SubSeq(up, j + 1, Len(up))
      /\ deaths' = deaths + 1 /\ deaths < MaxDeaths
      /\ partial' = << >> /\ pending' = FALSE /\ told' = << >> /\ got' = << >>
      /\ decoder' = decoder /\ queue' = queue /\ asked' = asked /\ heard' = heard
  BY DEF Die
<1>8. deaths + 1 \in 0 .. MaxDeaths
  <2>1. deaths \in 0 .. MaxDeaths /\ MaxDeaths \in Nat
    BY CobsAssumption DEF Typed, TypeOK
  <2> QED BY <2>1, <1>7
<1> QED BY <1>6, <1>7, <1>8

LEMMA DieTyped ==
  ASSUME Typed, Die
  PROVE  Typed'
<1>1. PICK t \in Seq(NZ) : down' = down \o t \o <<0>>
  BY Dying
<1>2. down' \in Seq(Byte)
  <2>1. t \in Seq(Byte) /\ <<0>> \in Seq(Byte) /\ down \in Seq(Byte)
    BY Sizes, TypedIs DEF NZ
  <2>2. down \o t \o <<0>> \in Seq(Byte)
    BY <2>1
  <2> QED BY <1>1, <2>2
<1>3. up' \in Seq(Byte)
  <2>1. PICK k \in 0 .. Len(up) : up' = SubSeq(up, k + 1, Len(up))
    BY Dying
  <2>2. up \in Seq(Byte)
    BY TypedIs
  <2> QED BY <2>1, <2>2, LeftOver
<1>4. /\ deaths' \in 0 .. MaxDeaths
      /\ partial' = << >> /\ pending' = FALSE /\ told' = << >> /\ got' = << >>
      /\ decoder' = decoder /\ queue' = queue /\ asked' = asked /\ heard' = heard
  BY Dying
<1>5. \A S : << >> \in Seq(S)
  OBVIOUS
<1> QED BY <1>2, <1>3, <1>4, <1>5 DEF Typed, TypeOK

LEMMA HeadAndTail ==
  ASSUME NEW S, NEW s \in Seq(S), s # << >>
  PROVE  /\ Head(s) \in S /\ Tail(s) \in Seq(S) /\ s = <<Head(s)>> \o Tail(s)
         /\ Len(Tail(s)) = Len(s) - 1 /\ Len(s) \in Nat
<1>1. Head(s) \in S /\ Tail(s) \in Seq(S) /\ Len(Tail(s)) = Len(s) - 1 /\ Len(s) \in Nat
  OBVIOUS
<1>2. s = <<Head(s)>> \o Tail(s)
  OBVIOUS
<1> QED BY <1>1, <1>2

\* One byte is read by the firmware: a zero, or not.
LEMMA Ticking ==
  ASSUME Typed, Tick
  PROVE  /\ down # << >> /\ down' = Tail(down) /\ Head(down) \in Byte /\ Tail(down) \in Seq(Byte)
         /\ down = <<Head(down)>> \o Tail(down)
         /\ DecodedPacket(decoder) \in Seq(Byte)
         /\ Len(queue) < QueueMax
         /\ Head(down) = 0 => decoder' = Decoder /\ queue' = Taking(queue, DecodedPacket(decoder))
         /\ Head(down) # 0 => /\ Head(down) \in NZ /\ queue' = queue
                              /\ decoder' = DecodeByte(decoder, Head(down))
         /\ up' = up /\ partial' = partial /\ pending' = pending /\ deaths' = deaths
         /\ asked' = asked /\ heard' = heard /\ told' = told /\ got' = got
<1>1. down # << >> /\ down \in Seq(Byte) /\ decoder \in DecoderState
  BY TypedIs DEF Tick
<1>2. Head(down) \in Byte /\ Tail(down) \in Seq(Byte) /\ down = <<Head(down)>> \o Tail(down)
  BY <1>1, HeadAndTail
<1>3. DecodedPacket(decoder) \in Seq(Byte)
  BY <1>1, FirmwareTakes
<1>4. Head(down) # 0 => Head(down) \in NZ
  BY <1>2 DEF NZ
<1>5. /\ Head(down) = 0 => decoder' = Decoder /\ queue' = Taking(queue, DecodedPacket(decoder))
      /\ Head(down) # 0 => queue' = queue /\ decoder' = DecodeByte(decoder, Head(down))
  BY DEF Tick, Taking
<1>6. /\ Len(queue) < QueueMax /\ down' = Tail(down)
      /\ up' = up /\ partial' = partial /\ pending' = pending /\ deaths' = deaths
      /\ asked' = asked /\ heard' = heard /\ told' = told /\ got' = got
  BY DEF Tick
<1> QED BY <1>1, <1>2, <1>3, <1>4, <1>5, <1>6

LEMMA TickTyped ==
  ASSUME Typed, Tick
  PROVE  Typed'
<1>1. decoder' \in DecoderState
  <2>1. CASE Head(down) = 0
    BY <2>1, Ticking, DecoderInitial
  <2>2. CASE Head(down) # 0
    BY <2>2, Ticking, TypedIs, DecodeByteType
  <2> QED BY <2>1, <2>2
<1>2. queue' \in Seq(Seq(Byte)) /\ Len(queue') <= QueueMax
  <2>1. /\ queue \in Seq(Seq(Byte)) /\ Len(queue) < QueueMax /\ QueueMax \in Nat
        /\ DecodedPacket(decoder) \in Seq(Byte)
    BY Ticking, TypedIs, CobsAssumption
  <2>2. queue' = queue \/ queue' = Append(queue, DecodedPacket(decoder))
    BY Ticking DEF Taking
  <2>3. CASE queue' = queue
    BY <2>1, <2>3
  <2>4. CASE queue' = Append(queue, DecodedPacket(decoder))
    <3> DEFINE x == DecodedPacket(decoder)
    <3> HIDE DEF x
    <3>1. x \in Seq(Byte) /\ queue' = Append(queue, x)
      BY <2>1, <2>4 DEF x
    <3> QED BY <2>1, <3>1
  <2> QED BY <2>2, <2>3, <2>4
<1>4. /\ decoder'.packet \in Seq(Byte) /\ decoder'.code \in Byte
      /\ decoder'.copy \in 0 .. MaxRun /\ decoder'.awaiting = (decoder'.copy = 0)
  BY <1>1, DecoderTyped
<1>5. down' \in Seq(Byte)
  BY Ticking
<1>6. /\ up' = up /\ partial' = partial /\ pending' = pending /\ deaths' = deaths
      /\ asked' = asked /\ heard' = heard /\ told' = told /\ got' = got
  BY Ticking
<1> QED BY <1>1, <1>2, <1>4, <1>5, <1>6 DEF Typed, TypeOK

LEMMA Serving ==
  ASSUME Typed, NEW p \in Replies, Serve(p)
  PROVE  /\ queue # << >> /\ heard' \in Seq(Seq(Byte)) /\ queue' \in Seq(Seq(Byte))
         /\ Len(queue') <= QueueMax /\ heard' \o queue' = heard \o queue
         /\ up' = up \o <<0>> \o FirmwareEncode(p) \o <<0>> /\ told' = Append(told, p)
         /\ down' = down /\ decoder' = decoder /\ partial' = partial /\ pending' = pending
         /\ deaths' = deaths /\ asked' = asked /\ got' = got
<1> DEFINE S == Seq(Byte)
<1>1. queue \in Seq(S) /\ heard \in Seq(S) /\ queue # << >>
  BY TypedIs DEF Serve
<1>2. Len(queue) <= QueueMax /\ QueueMax \in Nat
  BY CobsAssumption DEF Typed, TypeOK
<1>3. queue' = Tail(queue) /\ heard' = Append(heard, Head(queue))
  BY DEF Serve
<1> HIDE DEF S
<1>4. Head(queue) \in S /\ Tail(queue) \in Seq(S) /\ Len(Tail(queue)) = Len(queue) - 1
      /\ Len(queue) \in Nat /\ queue = <<Head(queue)>> \o Tail(queue)
  BY <1>1, HeadAndTail
<1> DEFINE a == Head(queue)
           b == Tail(queue)
<1> HIDE DEF a, b
<1>5. a \in S /\ b \in Seq(S) /\ queue = <<a>> \o b
  BY <1>4 DEF a, b
<1>6. Append(heard, a) \o b = heard \o (<<a>> \o b)
  BY <1>1, <1>5
<1>7. heard' \o queue' = heard \o queue
  BY <1>3, <1>5, <1>6 DEF a, b
<1>8. heard' \in Seq(S) /\ queue' \in Seq(S) /\ Len(queue') <= QueueMax
  <2>1. Append(heard, a) \in Seq(S)
    BY <1>1, <1>5
  <2> QED BY <2>1, <1>2, <1>3, <1>4 DEF a
<1>9. /\ up' = up \o <<0>> \o FirmwareEncode(p) \o <<0>> /\ told' = Append(told, p)
      /\ down' = down /\ decoder' = decoder /\ partial' = partial /\ pending' = pending
      /\ deaths' = deaths /\ asked' = asked /\ got' = got
  BY DEF Serve
<1> QED BY <1>1, <1>7, <1>8, <1>9 DEF S

LEMMA ServeTyped ==
  ASSUME Typed, NEW p \in Replies, Serve(p)
  PROVE  Typed'
<1> DEFINE f == FirmwareEncode(p)
<1>1. f \in Seq(NZ)
  BY PacketsAre
<1> HIDE DEF f
<1>2. f \in Seq(Byte) /\ <<0>> \in Seq(Byte) /\ up \in Seq(Byte) /\ told \in Seq(Replies)
  BY <1>1, Sizes, TypedIs DEF NZ
<1>3. up' \in Seq(Byte)
  <2>1. up \o <<0>> \o f \o <<0>> \in Seq(Byte)
    BY <1>2
  <2> QED BY <2>1, Serving DEF f
<1>4. told' \in Seq(Replies)
  <2>1. told' = Append(told, p)
    BY Serving
  <2> QED BY <2>1, <1>2
<1>5. /\ heard' \in Seq(Seq(Byte)) /\ queue' \in Seq(Seq(Byte)) /\ Len(queue') <= QueueMax
      /\ down' = down /\ decoder' = decoder /\ partial' = partial /\ pending' = pending
      /\ deaths' = deaths /\ asked' = asked /\ got' = got
  BY Serving
<1> QED BY <1>3, <1>4, <1>5 DEF Typed, TypeOK

\* What the Tether takes from the bytes between two zeros.
Received(frame) == IF frame = << >> THEN Malformed ELSE TetherDecode(frame)

LEMMA Reading ==
  ASSUME Typed, Read
  PROVE  /\ up # << >> /\ up' = Tail(up) /\ Head(up) \in Byte /\ Tail(up) \in Seq(Byte)
         /\ up = <<Head(up)>> \o Tail(up)
         /\ Received(partial) \in Seq(Byte)
         /\ Head(up) = 0 => partial' = << >> /\ got' = Taking(got, Received(partial))
         /\ Head(up) # 0 => /\ Head(up) \in NZ /\ got' = got
                            /\ partial' = Append(partial, Head(up))
         /\ pending' \in BOOLEAN
         /\ down' = down /\ decoder' = decoder /\ queue' = queue /\ deaths' = deaths
         /\ asked' = asked /\ heard' = heard /\ told' = told
<1>1. up # << >> /\ up \in Seq(Byte) /\ partial \in Seq(NZ) /\ pending \in BOOLEAN
  BY TypedIs DEF Read
<1>2. Head(up) \in Byte /\ Tail(up) \in Seq(Byte) /\ up = <<Head(up)>> \o Tail(up)
  BY <1>1, HeadAndTail
<1>3. Received(partial) \in Seq(Byte)
  <2>1. Malformed \in Seq(Byte)
    BY DEF Malformed
  <2> QED BY <2>1, <1>1, TetherTakes DEF Received
<1>4. Head(up) # 0 => Head(up) \in NZ
  BY <1>2 DEF NZ
<1>5. /\ Head(up) = 0 => partial' = << >> /\ got' = Taking(got, Received(partial))
      /\ Head(up) # 0 => got' = got /\ partial' = Append(partial, Head(up))
  BY DEF Read, Taking, Received
<1>6. pending' \in BOOLEAN
  <2>1. CASE Head(up) = 0
    BY <2>1 DEF Read
  <2>2. CASE Head(up) # 0
    BY <2>2, <1>1 DEF Read
  <2> QED BY <2>1, <2>2
<1>7. /\ up' = Tail(up) /\ down' = down /\ decoder' = decoder /\ queue' = queue
      /\ deaths' = deaths /\ asked' = asked /\ heard' = heard /\ told' = told
  BY DEF Read
<1> QED BY <1>1, <1>2, <1>3, <1>4, <1>5, <1>6, <1>7

LEMMA ReadTyped ==
  ASSUME Typed, Read
  PROVE  Typed'
<1>1. partial' \in Seq(NZ)
  <2>1. CASE Head(up) = 0
    <3>1. partial' = << >>
      BY <2>1, Reading
    <3> QED BY <3>1
  <2>2. CASE Head(up) # 0
    <3>1. Head(up) \in NZ /\ partial' = Append(partial, Head(up)) /\ partial \in Seq(NZ)
      BY <2>2, Reading, TypedIs
    <3> DEFINE b == Head(up)
    <3> HIDE DEF b
    <3>2. b \in NZ /\ partial' = Append(partial, b) /\ partial \in Seq(NZ)
      BY <3>1 DEF b
    <3> QED BY <3>2
  <2> QED BY <2>1, <2>2
<1>2. got' \in Seq(Seq(Byte))
  <2> DEFINE x == Received(partial)
  <2> HIDE DEF x
  <2>1. x \in Seq(Byte) /\ got \in Seq(Seq(Byte)) /\ (got' = got \/ got' = Append(got, x))
    BY Reading, TypedIs DEF Taking, x
  <2>2. Append(got, x) \in Seq(Seq(Byte))
    BY <2>1
  <2> QED BY <2>1, <2>2
<1>3. /\ up' \in Seq(Byte) /\ pending' \in BOOLEAN
      /\ down' = down /\ decoder' = decoder /\ queue' = queue /\ deaths' = deaths
      /\ asked' = asked /\ heard' = heard /\ told' = told
  BY Reading
<1> QED BY <1>1, <1>2, <1>3 DEF Typed, TypeOK, NZ

LEMMA NextTyped == Typed /\ [Next]_vars => Typed'
<1> SUFFICES ASSUME Typed, [Next]_vars PROVE Typed'
  OBVIOUS
<1>1. CASE UNCHANGED vars
  BY <1>1 DEF vars, Typed, TypeOK
<1>2. CASE \E p \in Requests : Request(p)
  BY <1>2, RequestTyped
<1>3. CASE Die
  BY <1>3, DieTyped
<1>4. CASE Tick
  BY <1>4, TickTyped
<1>5. CASE \E p \in Replies : Serve(p)
  BY <1>5, ServeTyped
<1>6. CASE Read
  BY <1>6, ReadTyped
<1> QED BY <1>1, <1>2, <1>3, <1>4, <1>5, <1>6 DEF Next, Deliver

\* The types: the firmware's decoder awaits a code byte exactly when nothing is
\* left of its block, the Tether's partial frame has no zeros, and the queue of
\* packets holds no more than usb_rx_packets has room for.
THEOREM LinkTyped == Spec => []TypeOK
<1>1. Typed => TypeOK
  BY DEF Typed
<1> QED BY <1>1, InitTyped, NextTyped, PTL DEF Spec

-----------------------------------------------------------------------------
(* The link to the firmware.                                               *)

TetherCode == [p \in Requests |-> TetherEncode(p)]

\* The bytes under way begin with those of a frame the decoder has read.
Descending(head) ==
  /\ head \in Seq(NZ) /\ decoder = After(head)
  /\ Ready(head \o down)
  /\ Linked(deaths, head \o down, asked, TetherCode, heard \o queue)

Down == \E head : Descending(head)

LEMMA TetherCodes ==
  /\ IsCode(Requests, TetherCode)
  /\ \A p \in Requests : TetherCode[p] = TetherEncode(p)
<1>1. \A p \in Requests : TetherEncode(p) \in Seq(NZ) \ {<< >>} /\ p \in Seq(Byte) \ {Malformed}
  BY PacketsAre DEF Malformed
<1> QED BY <1>1 DEF IsCode, TetherCode

LEMMA Bytes ==
  ASSUME NEW head \in Seq(NZ), NEW s \in Seq(Byte)
  PROVE  /\ head \in Seq(Byte) /\ head \o s \in Seq(Byte)
         /\ \A t \in Seq(Byte) : /\ head \o (s \o t \o <<0>>) = (head \o s) \o t \o <<0>>
                                 /\ head \o (s \o <<0>>) = (head \o s) \o <<0>>
         /\ << >> \o s = s /\ head \o << >> = head
<1>1. head \in Seq(Byte) /\ <<0>> \in Seq(Byte)
  BY Sizes DEF NZ
<1>2. head \o s \in Seq(Byte)
  BY <1>1
<1>3. << >> \o s = s /\ head \o << >> = head
  BY <1>1
<1>4. ASSUME NEW t \in Seq(Byte)
      PROVE  /\ head \o (s \o t \o <<0>>) = (head \o s) \o t \o <<0>>
             /\ head \o (s \o <<0>>) = (head \o s) \o <<0>>
  BY <1>1
<1> QED BY <1>1, <1>2, <1>3, <1>4

\* The first byte of s is read: the frame grows by it, or it is cut.
LEMMA FirstRead ==
  ASSUME NEW head \in Seq(NZ), NEW b, NEW rest \in Seq(Byte)
  PROVE  /\ b = 0 => IsCut(head \o (<<b>> \o rest), head, rest)
         /\ b \in NZ => Append(head, b) \in Seq(NZ) /\ Append(head, b) \o rest = head \o (<<b>> \o rest)
<1>1. head \in Seq(Byte) /\ 0 \in Byte /\ NZ \subseteq Byte
  BY Sizes DEF NZ
<1>2. head \o (<<0>> \o rest) = head \o <<0>> \o rest
  BY <1>1
<1>3. ASSUME b \in NZ
      PROVE  Append(head, b) \in Seq(NZ) /\ Append(head, b) \o rest = head \o (<<b>> \o rest)
  BY <1>1, <1>3
<1> QED BY <1>2, <1>3 DEF IsCut

\* The first zero, which the Tether writes when it opens the port.
LEMMA InitDown == Init => Down
<1> SUFFICES ASSUME Init PROVE Down
  OBVIOUS
<1>1. /\ down = <<0>> /\ decoder = Decoder /\ queue = << >> /\ heard = << >>
      /\ deaths = 0 /\ asked = << >>
  BY DEF Init
<1>2. << >> \in Seq(NZ) /\ decoder = After(<< >>)
  BY <1>1, AfterIs
<1>3. << >> \o down = <<0>> /\ heard \o queue = << >>
  BY <1>1
<1> DEFINE g == [i \in 1 .. 0 |-> 0]
<1>4. Carried(<<0>>, << >>, TetherCode, << >>, g)
  BY DEF Carried
<1>5. Exactly(<<0>>, << >>, << >>, g)
  BY DEF Exactly
<1>6. Linked(deaths, <<0>>, << >>, TetherCode, << >>) /\ Ready(<<0>>)
  BY <1>4, <1>5 DEF Linked, Ready
<1> QED BY <1>1, <1>2, <1>3, <1>6 DEF Down, Descending

LEMMA RequestDown ==
  ASSUME Typed, Down, NEW p \in Requests, Request(p)
  PROVE  Down'
<1>1. PICK head : Descending(head)
  BY DEF Down
<1> DEFINE w == head \o down
           f == TetherEncode(p)
           taken == heard \o queue
<1>2. /\ head \in Seq(NZ) /\ decoder = After(head) /\ Ready(w)
      /\ Linked(deaths, w, asked, TetherCode, taken)
  BY <1>1 DEF Descending
<1>3. /\ down \in Seq(Byte) /\ asked \in Seq(Requests) /\ taken \in Seq(Seq(Byte))
  BY TypedIs
<1>4. f \in Seq(Byte)
  BY PacketsAre DEF NZ
<1> HIDE DEF f, taken
<1>5. w \in Seq(Byte) /\ head \o (down \o f \o <<0>>) = w \o f \o <<0>>
  BY <1>2, <1>3, <1>4, Bytes
<1>6. down' = down \o f \o <<0>> /\ asked' = Append(asked, p) /\ decoder' = decoder
      /\ deaths' = deaths /\ heard' = heard /\ queue' = queue
  BY DEF Request, f
<1> HIDE DEF w
<1>7. Linked(deaths, w \o f \o <<0>>, Append(asked, p), TetherCode, taken) /\ Ready(w \o f \o <<0>>)
  <2>1. IsCode(Requests, TetherCode) /\ TetherCode[p] = f
    BY TetherCodes DEF f
  <2> QED BY <2>1, <1>2, <1>3, <1>5, LinkedFrame
<1>8. head \o down' = w \o f \o <<0>> /\ heard' \o queue' = taken
  BY <1>5, <1>6 DEF taken
<1>9. Descending(head)'
  BY <1>2, <1>6, <1>7, <1>8 DEF Descending
<1> QED BY <1>9 DEF Down

LEMMA DieDown ==
  ASSUME Typed, Down, Die
  PROVE  Down'
<1>1. PICK head : Descending(head)
  BY DEF Down
<1>2. PICK t \in Seq(NZ) : down' = down \o t \o <<0>>
  BY Dying
<1> DEFINE w == head \o down
           taken == heard \o queue
<1>3. /\ head \in Seq(NZ) /\ decoder = After(head) /\ Ready(w)
      /\ Linked(deaths, w, asked, TetherCode, taken)
  BY <1>1 DEF Descending
<1>4. /\ down \in Seq(Byte) /\ asked \in Seq(Requests) /\ taken \in Seq(Seq(Byte)) /\ deaths \in Nat
  BY TypedIs
<1>5. t \in Seq(Byte)
  BY DEF NZ
<1> HIDE DEF taken
<1>6. w \in Seq(Byte) /\ head \o (down \o t \o <<0>>) = w \o t \o <<0>>
  BY <1>3, <1>4, <1>5, Bytes
<1> HIDE DEF w
<1>7. Linked(deaths + 1, w \o t \o <<0>>, asked, TetherCode, taken) /\ Ready(w \o t \o <<0>>)
  BY <1>3, <1>4, <1>5, <1>6, TetherCodes, LinkedTorn
<1>8. /\ deaths' = deaths + 1 /\ decoder' = decoder /\ asked' = asked
      /\ heard' = heard /\ queue' = queue
  BY Dying
<1>9. head \o down' = w \o t \o <<0>> /\ heard' \o queue' = taken
  BY <1>2, <1>6, <1>8 DEF taken
<1>10. Descending(head)'
  BY <1>3, <1>7, <1>8, <1>9 DEF Descending
<1> QED BY <1>10 DEF Down

LEMMA TickDown ==
  ASSUME Typed, Down, Tick
  PROVE  Down'
<1>1. PICK head : Descending(head)
  BY DEF Down
<1> DEFINE b == Head(down)
           rest == Tail(down)
           w == head \o down
           x == DecodedPacket(decoder)
           taken == heard \o queue
<1>2. /\ head \in Seq(NZ) /\ decoder = After(head) /\ Ready(w)
      /\ Linked(deaths, w, asked, TetherCode, taken)
  BY <1>1 DEF Descending
<1>3. /\ rest \in Seq(Byte) /\ b \in Byte /\ down = <<b>> \o rest /\ down' = rest
      /\ x \in Seq(Byte)
      /\ b = 0 => decoder' = Decoder /\ queue' = Taking(queue, x)
      /\ b # 0 => b \in NZ /\ queue' = queue /\ decoder' = DecodeByte(decoder, b)
      /\ deaths' = deaths /\ asked' = asked /\ heard' = heard
  BY Ticking
<1>4. asked \in Seq(Requests) /\ taken \in Seq(Seq(Byte))
      /\ queue \in Seq(Seq(Byte)) /\ heard \in Seq(Seq(Byte))
  BY TypedIs
<1> HIDE DEF b, rest, x
<1>5. w = head \o (<<b>> \o rest)
  BY <1>3
<1> HIDE DEF w, taken
<1>6. CASE b = 0
  <2>1. IsCut(w, head, rest)
    BY <1>2, <1>3, <1>5, <1>6, FirstRead
  <2>2. head = << >> => x = Malformed
    <3>1. DecodedPacket(After(<< >>)) = Malformed
      BY AfterIs DEF DecodedPacket, Decoder
    <3> QED BY <3>1, <1>2 DEF x
  <2>3. \A p \in Requests : TetherCode[p] = head => x = p
    BY <1>2, PacketsAre, TetherCodes DEF x
  <2>4. Linked(deaths, rest, asked, TetherCode, Taking(taken, x))
    BY <1>2, <1>3, <1>4, <2>1, <2>2, <2>3, TetherCodes, LinkedTaken
  <2>5. Ready(rest)
    BY <1>2, <2>1, Cutting
  <2>6. heard' \o queue' = Taking(taken, x)
    <3>1. CASE x = Malformed
      BY <3>1, <1>3, <1>6 DEF Taking, taken
    <3>2. CASE x # Malformed
      <4>1. heard \o Append(queue, x) = Append(heard \o queue, x)
        BY <1>3, <1>4
      <4> QED BY <4>1, <3>2, <1>3, <1>6 DEF Taking, taken
    <3> QED BY <3>1, <3>2
  <2>7. << >> \o down' = rest /\ << >> \in Seq(NZ) /\ decoder' = After(<< >>)
    BY <1>3, <1>6, AfterIs
  <2>8. Descending(<< >>)'
    BY <1>3, <2>4, <2>5, <2>6, <2>7 DEF Descending
  <2> QED BY <2>8 DEF Down
<1>7. CASE b # 0
  <2>0. Append(head, b) \in Seq(NZ) /\ Append(head, b) \o rest = w
    BY <1>2, <1>3, <1>5, <1>7, FirstRead
  <2>1. PICK more \in Seq(NZ) : more = Append(head, b) /\ more \o rest = w
    BY <2>0
  <2>2. decoder' = After(more)
    BY <1>2, <1>3, <1>7, <2>1, AfterIs
  <2>3. more \o down' = w /\ heard' \o queue' = taken
    BY <2>1, <1>3, <1>7 DEF taken
  <2>4. Ready(more \o down') /\ Linked(deaths', more \o down', asked', TetherCode, heard' \o queue')
    <3>1. deaths' = deaths /\ asked' = asked
      BY <1>3
    <3> QED BY <1>2, <2>3, <3>1
  <2>5. Descending(more)'
    BY <2>1, <2>2, <2>4 DEF Descending
  <2> QED BY <2>5 DEF Down
<1> QED BY <1>6, <1>7

LEMMA NextDown == Typed /\ Down /\ [Next]_vars => Down'
<1> SUFFICES ASSUME Typed, Down, [Next]_vars PROVE Down'
  OBVIOUS
<1>1. PICK head : Descending(head)
  BY DEF Down
<1>2. ASSUME down' = down, decoder' = decoder, deaths' = deaths, asked' = asked,
             heard' \o queue' = heard \o queue
      PROVE  Down'
  <2>1. Descending(head)'
    BY <1>1, <1>2 DEF Descending
  <2> QED BY <2>1 DEF Down
<1>3. CASE UNCHANGED vars
  BY <1>2, <1>3 DEF vars
<1>4. CASE \E p \in Requests : Request(p)
  BY <1>4, RequestDown
<1>5. CASE Die
  BY <1>5, DieDown
<1>6. CASE Tick
  BY <1>6, TickDown
<1>7. CASE \E p \in Replies : Serve(p)
  BY <1>2, <1>7, Serving
<1>8. CASE Read
  BY <1>2, <1>8, Reading
<1> QED BY <1>3, <1>4, <1>5, <1>6, <1>7, <1>8 DEF Next, Deliver

LEMMA DownArrives == Typed /\ Down => RequestsArrive
<1> SUFFICES ASSUME Typed, Down PROVE RequestsArrive
  OBVIOUS
<1>1. PICK head : Descending(head)
  BY DEF Down
<1> DEFINE taken == heard \o queue
           w == head \o down
<1>2. /\ down \in Seq(Byte) /\ asked \in Seq(Requests) /\ taken \in Seq(Seq(Byte))
  BY TypedIs
<1>3. head \in Seq(NZ) /\ Ready(w) /\ Linked(deaths, w, asked, TetherCode, taken)
  BY <1>1 DEF Descending
<1> HIDE DEF taken
<1>4. ASSUME down = << >> PROVE Embeds(asked, taken)
  <2>1. w = head
    BY <1>2, <1>3, <1>4, Bytes
  <2>2. head = << >>
    <3> SUFFICES ASSUME head # << >> PROVE FALSE
      OBVIOUS
    <3>1. head[Len(head)] = 0
      BY <1>3, <2>1 DEF Ready
    <3>2. Len(head) \in 1 .. Len(head)
      BY <1>3, EmptySeq
    <3>3. head[Len(head)] \in NZ
      BY <3>2, <1>3
    <3> QED BY <3>1, <3>3 DEF NZ
  <2>3. Linked(deaths, << >>, asked, TetherCode, taken)
    BY <1>3, <2>1, <2>2
  <2> QED BY <2>3, <1>2, TetherCodes, LinkedEmbeds
<1>5. ASSUME deaths = 0 PROVE IsPrefix(taken, asked)
  <2>1. w \in Seq(Byte)
    BY <1>2, <1>3, Bytes
  <2>2. Linked(0, w, asked, TetherCode, taken)
    BY <1>3, <1>5
  <2> HIDE DEF w
  <2> QED BY <2>1, <2>2, <1>2, TetherCodes, LinkedPrefix
<1> QED BY <1>4, <1>5 DEF RequestsArrive, taken

\* Every request that was written whole is received, in order, and without torn
\* frames nothing else: for every packet, whatever Tethers die in the middle of.
THEOREM RequestsSafe == Spec => []RequestsArrive
<1> QED BY InitTyped, NextTyped, InitDown, NextDown, DownArrives, PTL DEF Spec

-----------------------------------------------------------------------------
(* The link to the Tether.                                                 *)

FirmwareCode == [p \in Replies |-> FirmwareEncode(p)]

\* The bytes under way begin with those the Tether has read.
Up ==
  /\ Ready(partial \o up)
  /\ Linked(deaths, partial \o up, told, FirmwareCode, got)

RepliesDecodable == \A p \in Replies : ~ZeroBehindFull(Sealed(p))

LEMMA FirmwareCodes ==
  /\ IsCode(Replies, FirmwareCode)
  /\ \A p \in Replies : FirmwareCode[p] = FirmwareEncode(p)
<1>1. \A p \in Replies : FirmwareEncode(p) \in Seq(NZ) \ {<< >>} /\ p \in Seq(Byte) \ {Malformed}
  BY PacketsAre DEF Malformed
<1> QED BY <1>1 DEF IsCode, FirmwareCode

LEMMA NothingTold ==
  ASSUME NEW w \in Seq(Byte), NEW code, NEW torn \in Nat, torn # 0 \/ w = << >>
  PROVE  Linked(torn, w, << >>, code, << >>)
<1> DEFINE g == [i \in 1 .. 0 |-> 0]
<1>1. Carried(w, << >>, code, << >>, g)
  BY DEF Carried
<1>2. w = << >> => Exactly(w, << >>, << >>, g)
  BY DEF Exactly
<1> QED BY <1>1, <1>2 DEF Linked

LEMMA InitUp == Init => Up
<1> SUFFICES ASSUME Init PROVE Up
  OBVIOUS
<1>1. up = << >> /\ partial = << >> /\ deaths = 0 /\ told = << >> /\ got = << >>
  BY DEF Init
<1>2. partial \o up = << >> /\ << >> \in Seq(Byte)
  BY <1>1
<1>3. Linked(0, << >>, << >>, FirmwareCode, << >>)
  BY <1>2, NothingTold
<1> QED BY <1>1, <1>2, <1>3 DEF Up, Ready

\* A new Tether was sent nothing yet; what is left for it may end a torn frame.
LEMMA DieUp ==
  ASSUME Typed, Up, Die
  PROVE  Up'
<1>1. PICK k \in 0 .. Len(up) : up' = SubSeq(up, k + 1, Len(up))
  BY Dying
<1>2. up \in Seq(Byte) /\ partial \in Seq(NZ) /\ deaths \in Nat
  BY TypedIs
<1>3. Ready(up)
  <2> SUFFICES ASSUME up # << >> PROVE up[Len(up)] = 0
    BY DEF Ready
  <2> DEFINE w == partial \o up
  <2>1. partial \in Seq(Byte)
    BY <1>2 DEF NZ
  <2>2. Len(up) \in Nat \ {0} /\ Len(w) = Len(partial) + Len(up) /\ w[Len(w)] = up[Len(up)]
    BY <1>2, <2>1, EmptySeq
  <2>3. w # << >>
    <3> HIDE DEF w
    <3>1. Len(w) # 0
      BY <2>2, <1>2
    <3> QED BY <3>1
  <2> QED BY <2>2, <2>3 DEF Up, Ready
<1>4. up' \in Seq(Byte) /\ Ready(up')
  BY <1>1, <1>2, <1>3, LeftOver
<1>5. partial' = << >> /\ told' = << >> /\ got' = << >> /\ deaths' = deaths + 1
  BY Dying
<1>6. partial' \o up' = up'
  BY <1>4, <1>5
<1>7. deaths' \in Nat /\ deaths' # 0
  BY <1>2, <1>5
<1>8. Linked(deaths', up', << >>, FirmwareCode, << >>)
  BY <1>4, <1>7, NothingTold
<1> QED BY <1>4, <1>5, <1>6, <1>8 DEF Up

LEMMA ServeUp ==
  ASSUME Typed, Up, NEW p \in Replies, Serve(p)
  PROVE  Up'
<1> DEFINE w == partial \o up
           f == FirmwareEncode(p)
<1>1. /\ up \in Seq(Byte) /\ partial \in Seq(NZ) /\ told \in Seq(Replies) /\ got \in Seq(Seq(Byte))
  BY TypedIs
<1>2. Ready(w) /\ Linked(deaths, w, told, FirmwareCode, got)
  BY DEF Up
<1>3. f \in Seq(Byte) /\ <<0>> \in Seq(Byte)
  BY PacketsAre, Sizes DEF NZ
<1>4. /\ up' = up \o <<0>> \o f \o <<0>> /\ told' = Append(told, p) /\ partial' = partial
      /\ deaths' = deaths /\ got' = got
  BY Serving
<1> HIDE DEF f
<1>5. w \in Seq(Byte) /\ w \o <<0>> \in Seq(Byte) /\ up \o <<0>> \in Seq(Byte)
  <2>1. w \in Seq(Byte)
    BY <1>1, Bytes
  <2> HIDE DEF w
  <2> QED BY <2>1, <1>1, <1>3
<1>6. partial \o up' = (w \o <<0>>) \o f \o <<0>>
  <2>1. partial \o ((up \o <<0>>) \o f \o <<0>>) = (partial \o (up \o <<0>>)) \o f \o <<0>>
    <3> DEFINE v == up \o <<0>>
    <3>1. v \in Seq(Byte)
      BY <1>5
    <3> HIDE DEF v
    <3>2. partial \o (v \o f \o <<0>>) = (partial \o v) \o f \o <<0>>
      <4>1. partial \in Seq(Byte)
        BY <1>1 DEF NZ
      <4> HIDE DEF w
      <4> QED BY <3>1, <4>1, <1>3
    <3> QED BY <3>2 DEF v
  <2>2. partial \o (up \o <<0>>) = (partial \o up) \o <<0>>
    BY <1>1, <1>3, Bytes
  <2> QED BY <2>1, <2>2, <1>4
<1> HIDE DEF w
<1> DEFINE v == w \o <<0>>
<1>7. Linked(deaths, v, told, FirmwareCode, got) /\ Ready(v)
  BY <1>1, <1>2, <1>5, FirmwareCodes, LinkedZero
<1> HIDE DEF v
<1>8. Linked(deaths, v \o f \o <<0>>, Append(told, p), FirmwareCode, got) /\ Ready(v \o f \o <<0>>)
  <2>1. IsCode(Replies, FirmwareCode) /\ FirmwareCode[p] = f /\ v \in Seq(Byte)
    BY <1>5, FirmwareCodes DEF f, v
  <2> QED BY <2>1, <1>1, <1>7, LinkedFrame
<1>9. partial' \o up' = v \o f \o <<0>>
  BY <1>4, <1>6 DEF v
<1> QED BY <1>4, <1>8, <1>9 DEF Up

LEMMA ReadUp ==
  ASSUME RepliesDecodable, Typed, Up, Read
  PROVE  Up'
<1> DEFINE b == Head(up)
           rest == Tail(up)
           w == partial \o up
           x == Received(partial)
<1>1. /\ partial \in Seq(NZ) /\ told \in Seq(Replies) /\ got \in Seq(Seq(Byte))
  BY TypedIs
<1>2. Ready(w) /\ Linked(deaths, w, told, FirmwareCode, got)
  BY DEF Up
<1>3. /\ rest \in Seq(Byte) /\ b \in Byte /\ up = <<b>> \o rest /\ up' = rest
      /\ x \in Seq(Byte)
      /\ b = 0 => partial' = << >> /\ got' = Taking(got, x)
      /\ b # 0 => b \in NZ /\ got' = got /\ partial' = Append(partial, b)
      /\ deaths' = deaths /\ told' = told
  BY Reading
<1> HIDE DEF b, rest, x
<1>4. w = partial \o (<<b>> \o rest)
  BY <1>3
<1> HIDE DEF w
<1>5. CASE b = 0
  <2>1. IsCut(w, partial, rest)
    BY <1>1, <1>3, <1>4, <1>5, FirstRead
  <2>2. partial = << >> => x = Malformed
    BY DEF Received, x
  <2>3. ASSUME NEW p \in Replies, FirmwareCode[p] = partial PROVE x = p
    <3>1. partial = FirmwareEncode(p) /\ partial # << >>
      BY <2>3, FirmwareCodes, PacketsAre
    <3>2. p \in Seq(Byte) /\ p # << >> /\ ~ZeroBehindFull(Sealed(p))
      BY PacketsAre DEF RepliesDecodable
    <3>3. TetherDecode(FirmwareEncode(p)) = p
      BY <3>2, FirmwareFrames
    <3> QED BY <3>1, <3>3 DEF Received, x
  <2>4. Linked(deaths, rest, told, FirmwareCode, Taking(got, x))
    BY <1>1, <1>2, <1>3, <2>1, <2>2, <2>3, FirmwareCodes, LinkedTaken
  <2>5. Ready(rest)
    BY <1>2, <2>1, Cutting
  <2>6. partial' \o up' = rest
    BY <1>3, <1>5
  <2> QED BY <1>3, <1>5, <2>4, <2>5, <2>6 DEF Up
<1>6. CASE b # 0
  <2>1. Append(partial, b) \o rest = w
    BY <1>1, <1>3, <1>4, <1>6, FirstRead
  <2>2. partial' \o up' = w
    BY <1>3, <1>6, <2>1
  <2> QED BY <1>2, <1>3, <1>6, <2>2 DEF Up
<1> QED BY <1>5, <1>6

LEMMA NextUp ==
  ASSUME RepliesDecodable
  PROVE  Typed /\ Up /\ [Next]_vars => Up'
<1> SUFFICES ASSUME Typed, Up, [Next]_vars PROVE Up'
  OBVIOUS
<1>1. ASSUME partial' = partial, up' = up, deaths' = deaths, told' = told, got' = got
      PROVE  Up'
  BY <1>1 DEF Up
<1>2. CASE UNCHANGED vars
  BY <1>1, <1>2 DEF vars
<1>3. CASE \E p \in Requests : Request(p)
  BY <1>1, <1>3 DEF Request
<1>4. CASE Die
  BY <1>4, DieUp
<1>5. CASE Tick
  BY <1>1, <1>5, Ticking
<1>6. CASE \E p \in Replies : Serve(p)
  BY <1>6, ServeUp
<1>7. CASE Read
  BY <1>7, ReadUp
<1> QED BY <1>2, <1>3, <1>4, <1>5, <1>6, <1>7 DEF Next, Deliver

LEMMA UpArrives == Typed /\ Up => RepliesArrive
<1> SUFFICES ASSUME Typed, Up PROVE RepliesArrive
  OBVIOUS
<1> DEFINE w == partial \o up
<1>1. /\ up \in Seq(Byte) /\ partial \in Seq(NZ) /\ told \in Seq(Replies) /\ got \in Seq(Seq(Byte))
  BY TypedIs
<1>2. Ready(w) /\ Linked(deaths, w, told, FirmwareCode, got)
  BY DEF Up
<1>3. ASSUME up = << >> PROVE Embeds(told, got)
  <2>1. w = partial
    BY <1>1, <1>3, Bytes
  <2>2. partial = << >>
    <3> SUFFICES ASSUME partial # << >> PROVE FALSE
      OBVIOUS
    <3>1. partial[Len(partial)] = 0
      BY <1>2, <2>1 DEF Ready
    <3>2. Len(partial) \in 1 .. Len(partial)
      BY <1>1, EmptySeq
    <3>3. partial[Len(partial)] \in NZ
      BY <3>2, <1>1
    <3> QED BY <3>1, <3>3 DEF NZ
  <2>3. Linked(deaths, << >>, told, FirmwareCode, got)
    BY <1>2, <2>1, <2>2
  <2> QED BY <2>3, <1>1, FirmwareCodes, LinkedEmbeds
<1>4. ASSUME deaths = 0 PROVE IsPrefix(got, told)
  <2>1. w \in Seq(Byte)
    BY <1>1, Bytes
  <2>2. Linked(0, w, told, FirmwareCode, got)
    BY <1>2, <1>4
  <2> HIDE DEF w
  <2> QED BY <2>1, <2>2, <1>1, FirmwareCodes, LinkedPrefix
<1> QED BY <1>3, <1>4 DEF RepliesArrive

\* Every reply sent to the present Tether is received by it, in order and as it
\* was sent, if no packet that the firmware sends has a zero behind a full block.
THEOREM RepliesSafe == RepliesDecodable => (Spec => []RepliesArrive)
<1> SUFFICES ASSUME RepliesDecodable PROVE Spec => []RepliesArrive
  OBVIOUS
<1>1. Typed /\ Up /\ [Next]_vars => Up'
  BY NextUp
<1> QED BY <1>1, InitTyped, NextTyped, InitUp, UpArrives, PTL DEF Spec
=============================================================================
