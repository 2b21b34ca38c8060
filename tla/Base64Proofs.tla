---------------------------- MODULE Base64Proofs ----------------------------
(* What base64_encode writes, and what base64_decode makes of it.          *)
EXTENDS Base64, TLAPS

(* The value of 24 bits.                                                   *)
Triple == {t \in Nat : t < 16777216}

LEMMA TripleIsNat ==
  ASSUME NEW t \in Triple
  PROVE  t \in Nat /\ t \div 1 = t
  BY SMT DEF Triple

LEMMA SumOfSextets ==
  ASSUME NEW t \in Triple
  PROVE  t = ((t \div 262144) % 64) * 262144 + ((t \div 4096) % 64) * 4096
             + ((t \div 64) % 64) * 64 + (t % 64)
  BY SMT DEF Triple

LEMMA LastOctet ==
  ASSUME NEW u \in Nat, NEW v \in Octet, NEW t, t = u * 256 + v
  PROVE  t \div 256 = u /\ t % 256 = v
  BY SMT DEF Octet

LEMMA OctetsOfSum ==
  ASSUME NEW a \in Octet, NEW b \in Octet, NEW c \in Octet, NEW t,
         t = a * 65536 + b * 256 + c
  PROVE  /\ t \in Triple
         /\ (t \div 65536) % 256 = a
         /\ (t \div 256) % 256 = b
         /\ t % 256 = c
         /\ (c = 0 => t % 64 = 0)
         /\ (b = 0 /\ c = 0 => (t \div 64) % 64 = 0)
<1>1. t \in Triple /\ t \in Nat
  BY SMT DEF Octet, Triple
<1>2. a * 256 + b \in Nat /\ t = (a * 256 + b) * 256 + c
  BY SMT DEF Octet
<1>3. t \div 256 = a * 256 + b /\ t % 256 = c
  BY <1>2, LastOctet
<1>4. (t \div 256) \div 256 = a /\ (t \div 256) % 256 = b
  <2>1. a \in Nat
    BY DEF Octet
  <2> DEFINE d == t \div 256
  <2>2. d = a * 256 + b
    BY <1>3
  <2> HIDE DEF d
  <2>3. d \div 256 = a /\ d % 256 = b
    BY <2>1, <2>2, SMT DEF Octet
  <2> QED BY <2>3 DEF d
<1>5. t \div 65536 = (t \div 256) \div 256
  BY <1>1, SMT
<1>6. a % 256 = a
  BY SMT DEF Octet
<1>7. c = 0 => t % 64 = 0
  BY SMT DEF Octet
<1>8. b = 0 /\ c = 0 => (t \div 64) % 64 = 0
  BY SMT DEF Octet
<1> QED BY <1>1, <1>3, <1>4, <1>5, <1>6, <1>7, <1>8

(* The length of the text, its padding, and the groups.                    *)
LEMMA Lengths ==
  ASSUME NEW n \in Nat, n > 0, NEW q, q = (n + 2) \div 3
  PROVE  /\ q \in Nat /\ q >= 1
         /\ (4 * q) % 4 = 0 /\ (4 * q) \div 4 = q
         /\ n % 3 = 0 => n = 3 * q
         /\ n % 3 = 1 => n = 3 * q - 2
         /\ n % 3 = 2 => n = 3 * q - 1
         /\ n % 3 \in {0, 1, 2}
  OBVIOUS

LEMMA Paddings ==
  ASSUME NEW n \in Nat
  PROVE  /\ n % 3 = 0 => Padding(n) = 0
         /\ n % 3 = 1 => Padding(n) = 2
         /\ n % 3 = 2 => Padding(n) = 1
  BY DEF Padding, mod_table

LEMMA OctetAtType ==
  ASSUME NEW data \in Seq(Octet), NEW i \in Nat \ {0}
  PROVE  OctetAt(data, i) \in Octet
<1>1. 0 \in Octet
  BY DEF Octet
<1>2. i <= Len(data) => i \in 1..Len(data)
  OBVIOUS
<1> QED BY <1>1, <1>2 DEF OctetAt

(* A group as a number, and the octets that it gives back.                 *)
LEMMA GroupValue ==
  ASSUME NEW data \in Seq(Octet), NEW g \in Nat, NEW t, t = EncodeTriple(data, g)
  PROVE  /\ t \in Triple
         /\ OctetOf(t, 1) = OctetAt(data, 3*g + 1)
         /\ OctetOf(t, 2) = OctetAt(data, 3*g + 2)
         /\ OctetOf(t, 3) = OctetAt(data, 3*g + 3)
         /\ (OctetAt(data, 3*g + 3) = 0 => SextetOf(t, 4) = 0)
         /\ (OctetAt(data, 3*g + 2) = 0 /\ OctetAt(data, 3*g + 3) = 0 => SextetOf(t, 3) = 0)
<1>1. 3*g + 1 \in Nat \ {0} /\ 3*g + 2 \in Nat \ {0} /\ 3*g + 3 \in Nat \ {0}
  OBVIOUS
<1>2. PICK a \in Octet, b \in Octet, c \in Octet :
        a = OctetAt(data, 3*g + 1) /\ b = OctetAt(data, 3*g + 2) /\ c = OctetAt(data, 3*g + 3)
  BY <1>1, OctetAtType
<1>3. t = a * 65536 + b * 256 + c
  BY <1>2, SMT DEF EncodeTriple
<1>4. /\ t \in Triple /\ t \div 1 = t
      /\ (t \div 65536) % 256 = a /\ (t \div 256) % 256 = b /\ t % 256 = c
      /\ (c = 0 => t % 64 = 0)
      /\ (b = 0 /\ c = 0 => (t \div 64) % 64 = 0)
  <2>1. t \in Triple
    BY <1>3, OctetsOfSum
  <2>2. t \div 1 = t
    BY <2>1, TripleIsNat
  <2>3. (t \div 65536) % 256 = a /\ (t \div 256) % 256 = b /\ t % 256 = c
    BY <1>3, OctetsOfSum
  <2>4. (c = 0 => t % 64 = 0) /\ (b = 0 /\ c = 0 => (t \div 64) % 64 = 0)
    BY <1>3, OctetsOfSum
  <2> QED BY <2>1, <2>2, <2>3, <2>4
<1>5. /\ OctetOf(t, 1) = (t \div 65536) % 256
      /\ OctetOf(t, 2) = (t \div 256) % 256
      /\ OctetOf(t, 3) = (t \div 1) % 256
      /\ SextetOf(t, 3) = (t \div 64) % 64
      /\ SextetOf(t, 4) = (t \div 1) % 64
  BY SMT DEF OctetOf, OctetShift, SextetOf, SextetShift
<1> QED BY <1>2, <1>4, <1>5

LEMMA SextetIsChar ==
  ASSUME NEW t \in Triple, NEW j \in 1..4
  PROVE  SextetOf(t, j) \in Char /\ SextetOf(t, j) # Pad
  BY SMT DEF SextetOf, SextetShift, Char, Pad, Triple

LEMMA PlaceOfChar ==
  ASSUME NEW g \in Nat, NEW j \in 1..4
  PROVE  (4*g + j - 1) \div 4 = g /\ ((4*g + j - 1) % 4) + 1 = j
  OBVIOUS

LEMMA PlaceOfOctet ==
  ASSUME NEW n \in Nat, NEW i \in 1..n, NEW q, q = (n + 2) \div 3
  PROVE  /\ (i-1) \div 3 \in 0..q-1
         /\ ((i-1) % 3) + 1 \in 1..3
         /\ i = 3 * ((i-1) \div 3) + ((i-1) % 3) + 1
  OBVIOUS
-----------------------------------------------------------------------------
(* Every character of an encoded message stands for a sextet of its group: *)
(* where base64_encode has written '=' over it the sextet was 0.           *)
LEMMA EncodedSextet ==
  ASSUME NEW data \in Seq(Octet), data # <<>>, NEW n, n = Len(data),
         NEW q, q = (n + 2) \div 3, NEW g \in 0..q-1, NEW j \in 1..4
  PROVE  Sextet(Encode(data)[4*g + j]) = SextetOf(EncodeTriple(data, g), j)
<1> DEFINE t == EncodeTriple(data, g)
           p == 4*g + j
<1>1. n \in Nat /\ n > 0
  OBVIOUS
<1>2. q \in Nat /\ q >= 1 /\ g \in Nat /\ g <= q - 1 /\ n % 3 \in {0, 1, 2}
  BY <1>1
<1>3. /\ t \in Triple
      /\ (OctetAt(data, 3*g + 3) = 0 => SextetOf(t, 4) = 0)
      /\ (OctetAt(data, 3*g + 2) = 0 /\ OctetAt(data, 3*g + 3) = 0 => SextetOf(t, 3) = 0)
  BY <1>2, GroupValue
<1>4. /\ p \in 1..4*q /\ TextLength(n) = 4*q
      /\ (p - 1) \div 4 = g /\ ((p - 1) % 4) + 1 = j
  BY <1>2, PlaceOfChar DEF TextLength
<1>5. Encode(data)[p] = IF p > 4*q - Padding(n) THEN Pad ELSE SextetOf(t, j)
  BY <1>4 DEF Encode
<1>6. ASSUME p > 4*q - Padding(n) PROVE SextetOf(t, j) = 0
  <2>1. CASE n % 3 = 0
    <3>1. Padding(n) = 0
      BY <1>1, <2>1, Paddings
    <3> QED BY <1>2, <1>4, <1>6, <3>1
  <2>2. CASE n % 3 = 1
    <3>1. Padding(n) = 2 /\ n = 3*q - 2
      BY <1>1, <2>2, Paddings, Lengths
    <3>2. g = q - 1 /\ j \in {3, 4}
      BY <1>2, <1>6, <3>1
    <3>3. 3*g + 2 > n /\ 3*g + 3 > n
      BY <1>2, <3>1, <3>2
    <3>4. OctetAt(data, 3*g + 2) = 0 /\ OctetAt(data, 3*g + 3) = 0
      BY <1>1, <1>2, <3>3 DEF OctetAt
    <3> QED BY <1>3, <3>2, <3>4
  <2>3. CASE n % 3 = 2
    <3>1. Padding(n) = 1 /\ n = 3*q - 1
      BY <1>1, <2>3, Paddings, Lengths
    <3>2. g = q - 1 /\ j = 4
      BY <1>2, <1>6, <3>1
    <3>3. 3*g + 3 > n
      BY <1>2, <3>1, <3>2
    <3>4. OctetAt(data, 3*g + 3) = 0
      BY <1>1, <1>2, <3>3 DEF OctetAt
    <3> QED BY <1>3, <3>2, <3>4
  <2> QED BY <1>2, <2>1, <2>2, <2>3
<1>7. CASE p > 4*q - Padding(n)
  BY <1>5, <1>6, <1>7 DEF Sextet
<1>8. CASE ~(p > 4*q - Padding(n))
  BY <1>3, <1>5, <1>8, SextetIsChar DEF Sextet
<1> QED BY <1>7, <1>8

(* The length that base64_decode computes is the length of the message.    *)
LEMMA DecodedLength ==
  ASSUME NEW data \in Seq(Octet), data # <<>>
  PROVE  /\ Len(Encode(data)) = 4 * ((Len(data) + 2) \div 3)
         /\ Decodable(Encode(data))
         /\ DataLength(Encode(data)) = Len(data)
<1> DEFINE n == Len(data)
           q == (n + 2) \div 3
           text == Encode(data)
<1>1. n \in Nat /\ n > 0
  OBVIOUS
<1>2. /\ q \in Nat /\ q >= 1 /\ TextLength(n) = 4*q
      /\ (4*q) % 4 = 0 /\ (4*q) \div 4 = q
  BY <1>1, Lengths DEF TextLength
<1>3. Len(text) = 4*q /\ text # <<>>
  <2>1. Len(text) = 4*q
    <3> HIDE DEF q
    <3> QED BY <1>2 DEF Encode
  <2> QED BY <1>2, <2>1
<1>4. Decodable(text)
  BY <1>2, <1>3 DEF Decodable
<1>5. \A j \in {3, 4} : text[4*q - 4 + j] = IF 4*q - 4 + j > 4*q - Padding(n) THEN Pad
                          ELSE SextetOf(EncodeTriple(data, q - 1), j)
  <2> SUFFICES ASSUME NEW j \in {3, 4}
               PROVE  text[4*q - 4 + j] = IF 4*q - 4 + j > 4*q - Padding(n) THEN Pad
                          ELSE SextetOf(EncodeTriple(data, q - 1), j)
    OBVIOUS
  <2>1. 4*q - 4 + j \in 1..4*q /\ (4*q - 4 + j - 1) \div 4 = q - 1
        /\ ((4*q - 4 + j - 1) % 4) + 1 = j
    <3> HIDE DEF q
    <3> QED BY <1>2
  <2> HIDE DEF q
  <2> QED BY <1>2, <2>1 DEF Encode
<1>6. \A j \in {3, 4} : SextetOf(EncodeTriple(data, q - 1), j) # Pad
  <2>1. q - 1 \in Nat
    <3> HIDE DEF q
    <3> QED BY <1>2
  <2>2. EncodeTriple(data, q - 1) \in Triple
    <3> HIDE DEF q
    <3> QED BY <2>1, GroupValue, SMT
  <2> HIDE DEF q
  <2> QED BY <2>2, SextetIsChar
<1>7. /\ n % 3 \in {0, 1, 2}
      /\ Padding(n) = IF n % 3 = 0 THEN 0 ELSE IF n % 3 = 1 THEN 2 ELSE 1
  <2> HIDE DEF n
  <2> QED BY <1>1, Lengths, Paddings
<1>8. /\ text[4*q] = Pad <=> Padding(n) \in {1, 2}
      /\ text[4*q - 1] = Pad <=> Padding(n) = 2
  <2>1. 4*q - 4 + 4 = 4*q /\ 4*q - 4 + 3 = 4*q - 1
    <3> HIDE DEF q
    <3> QED BY <1>2
  <2>2. /\ 4*q > 4*q - Padding(n) <=> Padding(n) \in {1, 2}
        /\ 4*q - 1 > 4*q - Padding(n) <=> Padding(n) = 2
    <3> HIDE DEF q, n
    <3> QED BY <1>2, <1>7
  <2> HIDE DEF q, n, text
  <2> QED BY <1>5, <1>6, <2>1, <2>2
<1>9. DataLength(text) = 3*q - PadAt(text, 4*q) - PadAt(text, 4*q - 1)
  <2> HIDE DEF q, text
  <2> QED BY <1>2, <1>3 DEF DataLength
<1>10. DataLength(text) = 3*q - Padding(n)
  <2> HIDE DEF q, n, text
  <2> QED BY <1>2, <1>7, <1>8, <1>9 DEF PadAt
<1>11. n = 3*q - Padding(n)
  <2>1. \/ n % 3 = 0 /\ n = 3*q
        \/ n % 3 = 1 /\ n = 3*q - 2
        \/ n % 3 = 2 /\ n = 3*q - 1
    <3> HIDE DEF n
    <3> QED BY <1>1
  <2> HIDE DEF n, q
  <2> QED BY <1>1, <1>2, <1>7, <2>1
<1> QED BY <1>3, <1>4, <1>10, <1>11

LEMMA EncodedType ==
  ASSUME NEW data \in Seq(Octet)
  PROVE  Encode(data) \in Text
<1> DEFINE n == Len(data)
           q == (n + 2) \div 3
<1>1. TextLength(n) \in Nat
  BY DEF TextLength
<1>2. ASSUME NEW p \in 1..TextLength(n)
      PROVE  SextetOf(EncodeTriple(data, (p-1) \div 4), ((p-1) % 4) + 1) \in Char
  <2>1. (p-1) \div 4 \in Nat /\ ((p-1) % 4) + 1 \in 1..4
    BY <1>1
  <2>2. EncodeTriple(data, (p-1) \div 4) \in Triple
    BY <2>1, GroupValue
  <2> QED BY <2>1, <2>2, SextetIsChar
<1>3. Encode(data) \in [1..TextLength(n) -> Char \cup {Pad}]
  BY <1>2 DEF Encode
<1> QED BY <1>1, <1>3 DEF Text
-----------------------------------------------------------------------------
(* For every message that is not empty, of whatever length and content,    *)
(* base64_decode gives back what base64_encode was given.                  *)
THEOREM DecodeInvertsEncode ==
  ASSUME NEW data \in Seq(Octet), data # <<>>
  PROVE  RoundTrips(data)
<1> DEFINE n == Len(data)
           q == (n + 2) \div 3
           text == Encode(data)
<1>1. n \in Nat /\ Decodable(text) /\ DataLength(text) = n
  BY DecodedLength
<1>2. ASSUME NEW i \in 1..n
      PROVE  OctetOf(DecodeTriple(text, (i-1) \div 3), ((i-1) % 3) + 1) = data[i]
  <2> DEFINE g == (i-1) \div 3
             k == ((i-1) % 3) + 1
             t == EncodeTriple(data, g)
  <2>1. g \in 0..q-1 /\ k \in 1..3 /\ i = 3*g + k
    BY <1>1, <1>2, PlaceOfOctet
  <2>2. g \in Nat
    BY <2>1
  <2>3. /\ t \in Triple /\ t \div 1 = t
        /\ OctetOf(t, k) = OctetAt(data, 3*g + k)
    <3> HIDE DEF g, k
    <3>1. /\ t \in Triple
          /\ OctetOf(t, 1) = OctetAt(data, 3*g + 1)
          /\ OctetOf(t, 2) = OctetAt(data, 3*g + 2)
          /\ OctetOf(t, 3) = OctetAt(data, 3*g + 3)
      BY <2>2, GroupValue
    <3> HIDE DEF t
    <3> QED BY <2>1, <3>1, TripleIsNat, SMT
  <2>4. \A j \in 1..4 : Sextet(text[4*g + j]) = SextetOf(t, j)
    <3> HIDE DEF k, g
    <3> QED BY <2>1, EncodedSextet DEF g
  <2>5. DecodeTriple(text, g) = t
    <3>1. /\ Sextet(text[4*g + 1]) = (t \div 262144) % 64
          /\ Sextet(text[4*g + 2]) = (t \div 4096) % 64
          /\ Sextet(text[4*g + 3]) = (t \div 64) % 64
          /\ Sextet(text[4*g + 4]) = t % 64
      <4> HIDE DEF t, g, text
      <4> QED BY <2>3, <2>4, SMT DEF SextetOf, SextetShift
    <3> HIDE DEF t, g, text
    <3> QED BY <2>3, <3>1, SumOfSextets, SMT DEF DecodeTriple
  <2>6. OctetAt(data, i) = data[i]
    BY DEF OctetAt
  <2> HIDE DEF t, k, g, text
  <2> QED BY <2>1, <2>3, <2>5, <2>6 DEF g, k
<1>3. Decode(text) = [i \in 1..n |-> data[i]]
  <2> HIDE DEF text, n
  <2> QED BY <1>1, <1>2 DEF Decode
<1>4. data = [i \in 1..n |-> data[i]]
  OBVIOUS
<1> QED BY <1>1, <1>3, <1>4 DEF RoundTrips
-----------------------------------------------------------------------------
(* The text is the data's bits.                                            *)

\* The bits of a triple, the highest first.
TripleWeight == <<8388608, 4194304, 2097152, 1048576, 524288, 262144, 131072, 65536, 32768, 16384,
                  8192, 4096, 2048, 1024, 512, 256, 128, 64, 32, 16, 8, 4, 2, 1>>

TripleBit(t, r) == (t \div TripleWeight[r + 1]) % 2

(* A bit of a sextet or an octet is a bit of the number it is cut out of.  *)
LEMMA BitBelowSextetMask ==
  ASSUME NEW u \in Nat, NEW c \in 0..5
  PROVE  BitOf(u % 64, 6, c) = (u \div Weight[c + 3]) % 2
<1> DEFINE w == Weight[c + 3]
<1>1. w \in {32, 16, 8, 4, 2, 1}
  BY SMT DEF Weight
<1>2. c % 6 = c /\ 8 - 6 + c + 1 = c + 3
  BY SMT
<1> HIDE DEF w
<1>3. ((u % 64) \div 32) % 2 = (u \div 32) % 2
  BY SMT
<1>4. ((u % 64) \div 16) % 2 = (u \div 16) % 2
  BY SMT
<1>5. ((u % 64) \div 8) % 2 = (u \div 8) % 2
  BY SMT
<1>6. ((u % 64) \div 4) % 2 = (u \div 4) % 2
  BY SMT
<1>7. ((u % 64) \div 2) % 2 = (u \div 2) % 2
  BY SMT
<1>8. ((u % 64) \div 1) % 2 = (u \div 1) % 2
  BY SMT
<1>9. ((u % 64) \div w) % 2 = (u \div w) % 2
  BY <1>1, <1>3, <1>4, <1>5, <1>6, <1>7, <1>8
<1> QED BY <1>2, <1>9 DEF BitOf, w

LEMMA BitBelowOctetMask ==
  ASSUME NEW u \in Nat, NEW c \in 0..7
  PROVE  BitOf(u % 256, 8, c) = (u \div Weight[c + 1]) % 2
<1> DEFINE w == Weight[c + 1]
<1>1. w \in {128, 64, 32, 16, 8, 4, 2, 1}
  BY SMT DEF Weight
<1>2. c % 8 = c /\ 8 - 8 + c + 1 = c + 1
  BY SMT
<1> HIDE DEF w
<1>3. ((u % 256) \div 128) % 2 = (u \div 128) % 2
  BY SMT
<1>4. ((u % 256) \div 64) % 2 = (u \div 64) % 2
  BY SMT
<1>5. ((u % 256) \div 32) % 2 = (u \div 32) % 2
  BY SMT
<1>6. ((u % 256) \div 16) % 2 = (u \div 16) % 2
  BY SMT
<1>7. ((u % 256) \div 8) % 2 = (u \div 8) % 2
  BY SMT
<1>8. ((u % 256) \div 4) % 2 = (u \div 4) % 2
  BY SMT
<1>9. ((u % 256) \div 2) % 2 = (u \div 2) % 2
  BY SMT
<1>10. ((u % 256) \div 1) % 2 = (u \div 1) % 2
  BY SMT
<1>11. ((u % 256) \div w) % 2 = (u \div w) % 2
  BY <1>1, <1>3, <1>4, <1>5, <1>6, <1>7, <1>8, <1>9, <1>10
<1> QED BY <1>2, <1>11 DEF BitOf, w

(* Bit c of the j-th sextet, and of the j-th octet, of a triple.           *)
LEMMA BitOfSextet ==
  ASSUME NEW t \in Triple, NEW j \in 1..4, NEW c \in 0..5
  PROVE  BitOf(SextetOf(t, j), 6, c) = TripleBit(t, 6*(j-1) + c)
<1> DEFINE u == t \div SextetShift[j]
<1>1. u \in Nat
  BY SMT DEF SextetShift, Triple
<1>2. u \div Weight[c + 3] = t \div TripleWeight[6*(j-1) + c + 1]
  <2>1. CASE j = 1
    BY <2>1, SMT DEF SextetShift, Weight, TripleWeight, Triple
  <2>2. CASE j = 2
    BY <2>2, SMT DEF SextetShift, Weight, TripleWeight, Triple
  <2>3. CASE j = 3
    BY <2>3, SMT DEF SextetShift, Weight, TripleWeight, Triple
  <2>4. CASE j = 4
    <3>1. u = t
      BY <2>4, TripleIsNat, SMT DEF SextetShift
    <3>2. Weight[c + 3] = TripleWeight[6*(j-1) + c + 1]
      BY <2>4, SMT DEF Weight, TripleWeight
    <3> QED BY <3>1, <3>2
  <2> QED BY <2>1, <2>2, <2>3, <2>4
<1>3. SextetOf(t, j) = u % 64
  BY DEF SextetOf
<1> HIDE DEF u
<1>4. BitOf(u % 64, 6, c) = (u \div Weight[c + 3]) % 2
  BY <1>1, BitBelowSextetMask
<1> QED BY <1>2, <1>3, <1>4 DEF TripleBit

LEMMA BitOfOctet ==
  ASSUME NEW t \in Triple, NEW j \in 1..3, NEW c \in 0..7
  PROVE  BitOf(OctetOf(t, j), 8, c) = TripleBit(t, 8*(j-1) + c)
<1> DEFINE u == t \div OctetShift[j]
<1>1. u \in Nat
  BY SMT DEF OctetShift, Triple
<1>2. u \div Weight[c + 1] = t \div TripleWeight[8*(j-1) + c + 1]
  <2>1. CASE j = 1
    BY <2>1, SMT DEF OctetShift, Weight, TripleWeight, Triple
  <2>2. CASE j = 2
    BY <2>2, SMT DEF OctetShift, Weight, TripleWeight, Triple
  <2>3. CASE j = 3
    <3>1. u = t
      BY <2>3, TripleIsNat, SMT DEF OctetShift
    <3>2. Weight[c + 1] = TripleWeight[8*(j-1) + c + 1]
      BY <2>3, SMT DEF Weight, TripleWeight
    <3> QED BY <3>1, <3>2
  <2> QED BY <2>1, <2>2, <2>3
<1>3. OctetOf(t, j) = u % 256
  BY DEF OctetOf
<1> HIDE DEF u
<1>4. BitOf(u % 256, 8, c) = (u \div Weight[c + 1]) % 2
  BY <1>1, BitBelowOctetMask
<1> QED BY <1>2, <1>3, <1>4 DEF TripleBit

(* Where bit k of the data is in its group: in the j-th sextet and in the  *)
(* i-th octet.                                                             *)
LEMMA PlaceOfBit ==
  ASSUME NEW k \in Nat
  PROVE  \E g \in Nat, j \in 1..4, c \in 0..5, i \in 1..3, d \in 0..7 :
           /\ 6*(j-1) + c = 8*(i-1) + d
           /\ k \div 6 = 4*g + j - 1 /\ k % 6 = c
           /\ k \div 8 = 3*g + i - 1 /\ k % 8 = d
<1> DEFINE g == k \div 24
           r == k % 24
           j == (r \div 6) + 1
           c == r % 6
           i == (r \div 8) + 1
           d == r % 8
<1>1. g \in Nat /\ r \in 0..23 /\ k = 24*g + r
  OBVIOUS
<1> HIDE DEF g, r
<1>2. j \in 1..4 /\ c \in 0..5 /\ i \in 1..3 /\ d \in 0..7
  BY <1>1
<1>3. 6*(j-1) + c = r /\ 8*(i-1) + d = r
  BY <1>1
<1>4. k \div 6 = 4*g + j - 1 /\ k % 6 = c
  BY <1>1
<1>5. k \div 8 = 3*g + i - 1 /\ k % 8 = d
  BY <1>1
<1> HIDE DEF j, c, i, d
<1> QED BY <1>1, <1>2, <1>3, <1>4, <1>5

(* base64_encode writes '=' where no bit of the message is left.           *)
LEMMA CharsOfText ==
  ASSUME NEW n \in Nat, n > 0
  PROVE  (8*n + 5) \div 6 = TextLength(n) - Padding(n) /\ Padding(n) \in 0..2
<1> DEFINE q == (n + 2) \div 3
<1>1. q \in Nat /\ TextLength(n) = 4*q
  BY DEF TextLength
<1>2. \/ n % 3 = 0 /\ n = 3*q
      \/ n % 3 = 1 /\ n = 3*q - 2
      \/ n % 3 = 2 /\ n = 3*q - 1
  BY Lengths
<1> HIDE DEF q
<1>3. \/ n = 3*q /\ Padding(n) = 0
      \/ n = 3*q - 2 /\ Padding(n) = 2
      \/ n = 3*q - 1 /\ Padding(n) = 1
  BY <1>2, Paddings
<1> HIDE DEF TextLength, Padding
<1>4. CASE n = 3*q /\ Padding(n) = 0
  BY <1>1, <1>4
<1>5. CASE n = 3*q - 2 /\ Padding(n) = 2
  BY <1>1, <1>5
<1>6. CASE n = 3*q - 1 /\ Padding(n) = 1
  BY <1>1, <1>6
<1> QED BY <1>3, <1>4, <1>5, <1>6

(* For every message that is not empty base64_encode writes the Base64 of  *)
(* it: the message's bits, six to a character, filled up with zero bits to *)
(* a character and with '=' to a group.                                    *)
THEOREM EncodeIsBase64 ==
  ASSUME NEW data \in Seq(Octet), data # <<>>
  PROVE  IsBase64Of(Encode(data), data)
<1> DEFINE n == Len(data)
           length == TextLength(n)
           chars == (8*n + 5) \div 6
           text == Encode(data)
<1>1. n \in Nat /\ n > 0
  OBVIOUS
<1>2. length \in Nat /\ length % 4 = 0 /\ Len(text) = length
  <2>1. length \in Nat /\ length % 4 = 0
    BY <1>1 DEF TextLength
  <2>2. Len(text) = length
    <3> HIDE DEF length
    <3> QED BY <2>1 DEF Encode, length
  <2> QED BY <2>1, <2>2
<1>3. chars = length - Padding(n) /\ Padding(n) \in 0..2
  BY <1>1, CharsOfText
<1>4. chars \in Nat
  BY <1>1
<1> HIDE DEF chars, length
<1>5. \A p \in 1..length : text[p] = IF p > chars THEN Pad
        ELSE SextetOf(EncodeTriple(data, (p-1) \div 4), ((p-1) % 4) + 1)
  BY <1>3 DEF Encode, length
<1> HIDE DEF text
<1>6. ASSUME NEW g \in Nat, NEW j \in 1..4, 4*g + j <= chars
      PROVE  text[4*g + j] = SextetOf(EncodeTriple(data, g), j)
  <2>1. 4*g + j \in 1..length /\ ~(4*g + j > chars)
    BY <1>2, <1>3, <1>4, <1>6
  <2>2. (4*g + j - 1) \div 4 = g /\ ((4*g + j - 1) % 4) + 1 = j
    BY PlaceOfChar
  <2> QED BY <1>5, <2>1, <2>2
<1>7. ASSUME NEW p \in 1..chars PROVE text[p] \in Char
  <2>1. PICK g \in Nat, j \in 1..4 : p = 4*g + j
    <3>1. (p-1) \div 4 \in Nat /\ ((p-1) % 4) + 1 \in 1..4
          /\ p = 4 * ((p-1) \div 4) + ((p-1) % 4) + 1
      BY <1>4
    <3> QED BY <3>1
  <2>2. text[p] = SextetOf(EncodeTriple(data, g), j)
    <3>1. 4*g + j <= chars
      BY <1>4, <2>1
    <3> QED BY <1>6, <2>1, <3>1
  <2>3. EncodeTriple(data, g) \in Triple
    BY GroupValue
  <2> QED BY <2>2, <2>3, SextetIsChar
<1>8. ASSUME NEW p \in chars+1 .. length PROVE text[p] = Pad
  <2>1. p \in 1..length /\ p > chars
    BY <1>2, <1>4
  <2> QED BY <1>5, <2>1
<1>9. ASSUME NEW k \in 0 .. 6*chars - 1
      PROVE  Bit(text, 6, k) = IF k < 8*n THEN Bit(data, 8, k) ELSE 0
  <2>1. k \in Nat /\ k < 6*chars
    BY <1>4
  <2>2. PICK g \in Nat, j \in 1..4, c \in 0..5, i \in 1..3, d \in 0..7 :
          /\ 6*(j-1) + c = 8*(i-1) + d
          /\ k \div 6 = 4*g + j - 1 /\ k % 6 = c
          /\ k \div 8 = 3*g + i - 1 /\ k % 8 = d
    BY <2>1, PlaceOfBit
  <2> DEFINE t == EncodeTriple(data, g)
  <2>3. t \in Triple /\ OctetOf(t, i) = OctetAt(data, 3*g + i)
    <3>1. /\ t \in Triple
          /\ OctetOf(t, 1) = OctetAt(data, 3*g + 1)
          /\ OctetOf(t, 2) = OctetAt(data, 3*g + 2)
          /\ OctetOf(t, 3) = OctetAt(data, 3*g + 3)
      BY GroupValue
    <3> HIDE DEF t
    <3>2. i = 1 \/ i = 2 \/ i = 3
      OBVIOUS
    <3> QED BY <3>1, <3>2
  <2> HIDE DEF t
  <2>4. text[(k \div 6) + 1] = SextetOf(t, j)
    <3>1. (k \div 6) + 1 = 4*g + j
      BY <2>2
    <3>2. (k \div 6) + 1 <= chars
      BY <1>4, <2>1
    <3> QED BY <1>6, <3>1, <3>2 DEF t
  <2>5. Bit(text, 6, k) = BitOf(SextetOf(t, j), 6, c)
    <3>1. c % 6 = c
      OBVIOUS
    <3> QED BY <2>2, <2>4, <3>1 DEF Bit, BitOf
  <2>6. BitOf(OctetAt(data, 3*g + i), 8, d) = TripleBit(t, 8*(i-1) + d)
    BY <2>3, BitOfOctet
  <2>7. Bit(text, 6, k) = BitOf(OctetAt(data, 3*g + i), 8, d)
    BY <2>2, <2>3, <2>5, <2>6, BitOfSextet
  <2>8. d % 8 = d /\ (k \div 8) + 1 = 3*g + i
    BY <2>2
  <2>9. CASE k < 8*n
    <3>1. 3*g + i <= n
      BY <1>1, <2>1, <2>8, <2>9
    <3>2. OctetAt(data, 3*g + i) = data[(k \div 8) + 1]
      BY <2>8, <3>1 DEF OctetAt
    <3> QED BY <2>2, <2>7, <2>8, <2>9, <3>2 DEF Bit, BitOf
  <2>10. CASE ~(k < 8*n)
    <3>1. ~(3*g + i <= n)
      BY <1>1, <2>1, <2>8, <2>10
    <3>2. OctetAt(data, 3*g + i) = 0
      BY <3>1 DEF OctetAt
    <3>3. BitOf(0, 8, d) = 0
      <4>1. Weight[d + 1] \in {128, 64, 32, 16, 8, 4, 2, 1}
        BY SMT DEF Weight
      <4>2. (0 \div Weight[d + 1]) % 2 = 0
        <5> DEFINE w == Weight[d + 1]
        <5> HIDE DEF w
        <5>1. w \in {128, 64, 32, 16, 8, 4, 2, 1}
          BY <4>1 DEF w
        <5>2. (0 \div w) % 2 = 0
          BY <5>1, SMT
        <5> QED BY <5>2 DEF w
      <4>3. 8 - 8 + (d % 8) + 1 = d + 1
        BY <2>8
      <4> QED BY <4>2, <4>3 DEF BitOf
    <3> QED BY <2>7, <2>10, <3>2, <3>3
  <2> QED BY <2>9, <2>10
<1>10. Len(text) - chars \in 0..2
  <2> HIDE DEF n
  <2> QED BY <1>2, <1>3, <1>4
<1> HIDE DEF n
<1> QED BY <1>2, <1>7, <1>8, <1>9, <1>10 DEF IsBase64Of, n, chars, text
=============================================================================
