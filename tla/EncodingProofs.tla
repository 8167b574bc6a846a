---------------------------- MODULE EncodingProofs ----------------------------
(***************************************************************************)
(* What is encoded is decoded.                                             *)
(*                                                                         *)
(* Messages (Framing): the reader takes off the stream what was written to *)
(* it, for any number of messages, however the stream is cut into pieces,  *)
(* and for integers of any base.                                           *)
(*                                                                         *)
(* Device ids (DeviceId), with any alphabet of an even number of           *)
(* characters and parts and chunks of any length: the text of an id is     *)
(* read as the id it was made from, and no single wrong character goes     *)
(* unnoticed.                                                              *)
(***************************************************************************)
EXTENDS Framing, DeviceId, SequenceTheorems, WellFoundedInduction, TLAPS

(***************************************************************************)
(* Numbers.                                                                *)
(***************************************************************************)

\* A set of natural numbers has a least one.
LEMMA LeastNumber ==
    ASSUME NEW T \in SUBSET Nat, T # {}
    PROVE  \E n \in T : \A m \in T : n <= m
  <1>1. PICK n \in T : \A m \in T : ~(<<m, n>> \in OpToRel(<, Nat))
    BY NatLessThanWellFounded, WFMin
  <1>2. \A m \in Nat, k \in Nat : m < k => <<m, k>> \in OpToRel(<, Nat)
    <2> SUFFICES ASSUME NEW m \in Nat, NEW k \in Nat, m < k
                 PROVE  <<m, k>> \in OpToRel(<, Nat)
      OBVIOUS
    <2> DEFINE p == <<m, k>>
    <2>1. p \in Nat \X Nat /\ p[1] = m /\ p[2] = k
      OBVIOUS
    <2>2. p[1] < p[2]
      BY <2>1
    <2> HIDE DEF p
    <2>3. p \in OpToRel(<, Nat)
      BY <2>1, <2>2, Zenon DEF OpToRel
    <2> QED  BY <2>3, Zenon DEF p
  <1>3. \A m \in T : ~(m < n)
    BY <1>1, <1>2, Zenon
  <1>4. \A m \in T : n <= m
    BY <1>3
  <1> QED  BY <1>4

LEMMA DivisionIs ==
    ASSUME NEW a \in Nat, NEW b \in Nat \ {0}
    PROVE  /\ a \div b \in Nat /\ a % b \in 0..(b - 1)
           /\ a = b * (a \div b) + (a % b)
  OBVIOUS

LEMMA DivisionIsUnique ==
    ASSUME NEW a \in Nat, NEW b \in Nat \ {0}, NEW q \in Nat, NEW r \in 0..(b - 1),
           a = b * q + r
    PROVE  a \div b = q /\ a % b = r
  OBVIOUS

(***************************************************************************)
(*                           Message framing                               *)
(***************************************************************************)

Message == [type : Nat, compression : Nat, body : Seq(Nat)]

(***************************************************************************)
(* Lengths: what read_u16 and read_u32 make of to_be_bytes.                *)
(***************************************************************************)
LEMMA BaseIs == Base \in Nat \ {0} /\ Base * Base \in Nat \ {0} /\ Base * Base > 4
  <1>1. Base \in Nat /\ Base >= 3
    BY FramingAssumption
  <1>2. Base * Base >= 3 * Base
    BY <1>1
  <1> QED  BY <1>1, <1>2

LEMMA U16IsSeq ==
    ASSUME NEW n \in Nat
    PROVE  ToU16(n) \in Seq(Nat) /\ Len(ToU16(n)) = 2
  <1>1. (n \div Base) % Base \in Nat /\ n % Base \in Nat
    BY BaseIs
  <1> QED  BY <1>1 DEF ToU16

\* Two digits are the number, less what does not fit.
LEMMA U16Truncates ==
    ASSUME NEW n \in Nat
    PROVE  ToU16(n)[1] * Base + ToU16(n)[2] = n % (Base * Base)
  <1> DEFINE q == n \div Base
             r == n % Base
             p == q \div Base
             t == q % Base
  <1>1. q \in Nat /\ r \in 0..(Base - 1) /\ n = Base * q + r
    BY BaseIs, DivisionIs
  <1> HIDE DEF q, r
  <1>2. p \in Nat /\ t \in 0..(Base - 1) /\ q = Base * p + t
    BY <1>1, BaseIs, DivisionIs
  <1>3. ToU16(n)[1] = t /\ ToU16(n)[2] = r
    BY DEF ToU16, q, r
  <1> HIDE DEF p, t
  <1>4. n = (Base * Base) * p + (t * Base + r)
    <2>1. Base * q = Base * (Base * p) + Base * t
      BY <1>1, <1>2, BaseIs
    <2>2. Base * (Base * p) = (Base * Base) * p /\ Base * t = t * Base
      BY <1>2, BaseIs
    <2>3. (Base * Base) * p \in Nat /\ t * Base \in Nat
      BY <1>2, BaseIs
    <2> QED  BY <1>1, <2>1, <2>2, <2>3
  <1>5. t * Base + r \in 0..((Base * Base) - 1)
    <2>1. t * Base <= (Base - 1) * Base
      BY <1>2, BaseIs
    <2>2. (Base - 1) * Base = Base * Base - Base
      BY BaseIs
    <2>3. t * Base \in Nat
      BY <1>2, BaseIs
    <2> QED  BY <1>1, <2>1, <2>2, <2>3, BaseIs
  <1>6. n % (Base * Base) = t * Base + r
    BY <1>2, <1>4, <1>5, BaseIs, DivisionIsUnique
  <1> QED  BY <1>3, <1>6

LEMMA U16RoundTrip ==
    ASSUME NEW n \in Nat, n < Base * Base, NEW s,
           s[1] = ToU16(n)[1], s[2] = ToU16(n)[2]
    PROVE  FromU16(s) = n
  <1>1. n % (Base * Base) = n
    BY BaseIs
  <1> QED  BY <1>1, U16Truncates DEF FromU16

LEMMA FourOfTwo ==
    ASSUME NEW s \in Seq(Nat), NEW t \in Seq(Nat), Len(s) = 2, Len(t) = 2
    PROVE  /\ s \o t \in Seq(Nat) /\ Len(s \o t) = 4
           /\ (s \o t)[1] = s[1] /\ (s \o t)[2] = s[2]
           /\ (s \o t)[3] = t[1] /\ (s \o t)[4] = t[2]
  <1>1. s \o t \in Seq(Nat) /\ Len(s \o t) = Len(s) + Len(t)
    BY ConcatProperties
  <1>2. \A i \in 1..(Len(s) + Len(t)) : (s \o t)[i] =
           IF i <= Len(s) THEN s[i] ELSE t[i - Len(s)]
    BY ConcatProperties
  <1> QED  BY <1>1, <1>2

LEMMA U32IsSeq ==
    ASSUME NEW n \in Nat
    PROVE  /\ ToU32(n) \in Seq(Nat) /\ Len(ToU32(n)) = 4
           /\ ToU32(n)[1] = ToU16(n \div (Base * Base))[1]
           /\ ToU32(n)[2] = ToU16(n \div (Base * Base))[2]
           /\ ToU32(n)[3] = ToU16(n)[1] /\ ToU32(n)[4] = ToU16(n)[2]
  <1>1. n \div (Base * Base) \in Nat
    BY BaseIs, DivisionIs
  <1>2. /\ ToU16(n \div (Base * Base)) \in Seq(Nat) /\ Len(ToU16(n \div (Base * Base))) = 2
        /\ ToU16(n) \in Seq(Nat) /\ Len(ToU16(n)) = 2
    BY <1>1, U16IsSeq
  <1> QED  BY <1>2, FourOfTwo DEF ToU32

LEMMA U32RoundTrip ==
    ASSUME NEW n \in Nat, n < Base * Base * (Base * Base), NEW s,
           \A i \in 1..4 : s[i] = ToU32(n)[i]
    PROVE  FromU32(s) = n
  <1> DEFINE B == Base * Base
             m == n \div B
  <1>1. B \in Nat \ {0}
    BY BaseIs
  <1>2. m \in Nat /\ n % B \in 0..(B - 1) /\ n = B * m + (n % B)
    BY <1>1, DivisionIs
  <1>3. /\ s[1] = ToU16(m)[1] /\ s[2] = ToU16(m)[2]
        /\ s[3] = ToU16(n)[1] /\ s[4] = ToU16(n)[2]
    BY U32IsSeq
  <1>4. s[3] * Base + s[4] = n % B
    BY <1>3, U16Truncates
  <1>5. n < B * B
    BY BaseIs
  <1> HIDE DEF B, m
  <1>6. m < B
    <2> SUFFICES ASSUME m >= B PROVE FALSE
      BY <1>1, <1>2
    <2>1. B * m >= B * B
      BY <1>1, <1>2
    <2> QED  BY <1>1, <1>2, <1>5, <2>1
  <1>7. FromU16(s) = m
    BY <1>2, <1>3, <1>6, U16RoundTrip DEF B
  <1>8. FromU32(s) = m * B + (s[3] * Base + s[4])
    <2>1. s[3] \in Nat /\ s[4] \in Nat
      BY <1>3, BaseIs DEF ToU16
    <2>2. s[3] * Base \in Nat /\ m * B \in Int
      BY <1>1, <1>2, <2>1, BaseIs
    <2>3. FromU32(s) = m * B + s[3] * Base + s[4]
      BY <1>7 DEF FromU32, B
    <2> QED  BY <2>1, <2>2, <2>3
  <1> QED  BY <1>1, <1>2, <1>4, <1>8

(***************************************************************************)
(* Headers and bodies.                                                     *)
(***************************************************************************)

\* prost finds the fields that it has written, and the default of the others.
LEMMA HeaderRoundTrip ==
    ASSUME NEW m \in Message
    PROVE  /\ EncodeHeader(m) \in Seq(Nat) /\ Len(EncodeHeader(m)) <= 4
           /\ DecodeHeader(EncodeHeader(m)) = [type |-> m.type, compression |-> m.compression]
  <1> DEFINE s == EncodeHeader(m)
  <1>1. m.type \in Nat /\ m.compression \in Nat
    BY DEF Message
  <1>2. CASE m.type = 0 /\ m.compression = 0
    <2>1. s = <<>>
      BY <1>2 DEF EncodeHeader, Encoded
    <2> HIDE DEF s
    <2>2. Decoded(s, TypeTag) = 0 /\ Decoded(s, CompressionTag) = 0
      BY <2>1 DEF Decoded
    <2> QED  BY <1>2, <2>1, <2>2 DEF s, DecodeHeader
  <1>3. CASE m.type # 0 /\ m.compression = 0
    <2>1. s = <<8, m.type>>
      BY <1>1, <1>3 DEF EncodeHeader, Encoded, TypeTag
    <2> HIDE DEF s
    <2>2. {i \in 1..Len(s) : i % 2 = 1 /\ s[i] = 8} = {1}
      BY <1>1, <2>1
    <2>3. {i \in 1..Len(s) : i % 2 = 1 /\ s[i] = 16} = {}
      BY <1>1, <2>1
    <2>4. Decoded(s, 8) = s[1 + 1] /\ Decoded(s, 16) = 0
      BY <2>2, <2>3 DEF Decoded
    <2> QED  BY <1>1, <1>3, <2>1, <2>4 DEF s, DecodeHeader, TypeTag, CompressionTag
  <1>4. CASE m.type = 0 /\ m.compression # 0
    <2>1. s = <<16, m.compression>>
      BY <1>1, <1>4 DEF EncodeHeader, Encoded, CompressionTag
    <2> HIDE DEF s
    <2>2. {i \in 1..Len(s) : i % 2 = 1 /\ s[i] = 8} = {}
      BY <1>1, <2>1
    <2>3. {i \in 1..Len(s) : i % 2 = 1 /\ s[i] = 16} = {1}
      BY <1>1, <2>1
    <2>4. Decoded(s, 8) = 0 /\ Decoded(s, 16) = s[1 + 1]
      BY <2>2, <2>3 DEF Decoded
    <2> QED  BY <1>1, <1>4, <2>1, <2>4 DEF s, DecodeHeader, TypeTag, CompressionTag
  <1>5. CASE m.type # 0 /\ m.compression # 0
    <2>1. s = <<8, m.type>> \o <<16, m.compression>>
      BY <1>5 DEF EncodeHeader, Encoded, TypeTag, CompressionTag
    <2>2. s \in Seq(Nat) /\ Len(s) = 4 /\ s[1] = 8 /\ s[2] = m.type
          /\ s[3] = 16 /\ s[4] = m.compression
      BY <1>1, <2>1
    <2> HIDE DEF s
    <2>3. {i \in 1..Len(s) : i % 2 = 1 /\ s[i] = 8} = {1}
      BY <2>2
    <2>4. {i \in 1..Len(s) : i % 2 = 1 /\ s[i] = 16} = {3}
      BY <2>2
    <2>5. Decoded(s, 8) = s[1 + 1] /\ Decoded(s, 16) = s[1 + 3]
      BY <2>3, <2>4 DEF Decoded
    <2> QED  BY <1>1, <2>2, <2>5 DEF s, DecodeHeader, TypeTag, CompressionTag
  <1> QED  BY <1>2, <1>3, <1>4, <1>5

LEMMA BodyRoundTrip ==
    ASSUME NEW m \in Message
    PROVE  /\ Body(m) \in Seq(Nat) /\ Len(Body(m)) <= Len(m.body) + 1
           /\ m.compression = Lz4 => Decompressed(Body(m)) = m.body
           /\ m.compression # Lz4 => Body(m) = m.body
  <1>1. m.body \in Seq(Nat) /\ Len(m.body) \in Nat
    BY DEF Message
  <1>2. CASE m.compression = Lz4
    <2>1. Body(m) = <<Len(m.body)>> \o m.body
      BY <1>2 DEF Body, Compressed
    <2>2. <<Len(m.body)>> \in Seq(Nat)
      BY <1>1
    <2>3. Body(m) \in Seq(Nat) /\ Len(Body(m)) = Len(m.body) + 1
      BY <1>1, <2>1, <2>2, ConcatProperties
    <2>4. Tail(Body(m)) = m.body
      BY <1>1, <2>1
    <2> QED  BY <1>1, <1>2, <2>3, <2>4 DEF Decompressed
  <1>3. CASE m.compression # Lz4
    BY <1>1, <1>3 DEF Body
  <1> QED  BY <1>2, <1>3

LEMMA OutgoingIsMessage ==
    ASSUME NEW m \in Outgoing
    PROVE  /\ m \in Message /\ EncodeHeader(m) \in Seq(Nat) /\ Body(m) \in Seq(Nat)
           /\ Len(EncodeHeader(m)) \in Nat /\ Len(EncodeHeader(m)) < Base * Base
           /\ Len(Body(m)) \in Nat /\ Len(Body(m)) < Base * Base * (Base * Base)
  <1>1. m \in Message /\ Len(m.body) + 1 < Base * Base * (Base * Base)
    BY FramingAssumption DEF Message
  <1>2. Len(m.body) \in Nat /\ Base * Base * (Base * Base) \in Nat
    BY <1>1, BaseIs DEF Message
  <1> QED  BY <1>1, <1>2, HeaderRoundTrip, BodyRoundTrip, BaseIs

(***************************************************************************)
(* Places in a stream.                                                     *)
(***************************************************************************)

\* The bytes s are in the stream, after the first p.
Lies(s, stream, p) ==
    /\ p + Len(s) <= Len(stream)
    /\ \A i \in 1..Len(s) : stream[p + i] = s[i]

LEMMA LiesConcat ==
    ASSUME NEW stream \in Seq(Nat), NEW p \in Nat,
           NEW s \in Seq(Nat), NEW t \in Seq(Nat), Lies(s \o t, stream, p)
    PROVE  Lies(s, stream, p) /\ Lies(t, stream, p + Len(s))
  <1>1. /\ Len(s) \in Nat /\ Len(t) \in Nat /\ Len(s \o t) = Len(s) + Len(t)
        /\ \A i \in 1..(Len(s) + Len(t)) :
              (s \o t)[i] = IF i <= Len(s) THEN s[i] ELSE t[i - Len(s)]
    BY ConcatProperties
  <1>2. /\ p + (Len(s) + Len(t)) <= Len(stream) /\ Len(stream) \in Nat
        /\ \A i \in 1..(Len(s) + Len(t)) : stream[p + i] = (s \o t)[i]
    BY <1>1 DEF Lies
  <1>3. Lies(s, stream, p)
    <2>1. ASSUME NEW i \in 1..Len(s) PROVE stream[p + i] = s[i]
      <3>1. i \in 1..(Len(s) + Len(t)) /\ i <= Len(s)
        BY <1>1
      <3>2. (s \o t)[i] = s[i]
        BY <1>1, <3>1
      <3> QED  BY <1>2, <3>1, <3>2
    <2>2. p + Len(s) <= Len(stream)
      BY <1>1, <1>2
    <2> QED  BY <2>1, <2>2 DEF Lies
  <1>4. Lies(t, stream, p + Len(s))
    <2>1. ASSUME NEW i \in 1..Len(t) PROVE stream[(p + Len(s)) + i] = t[i]
      <3> DEFINE j == Len(s) + i
      <3>1. /\ j \in 1..(Len(s) + Len(t)) /\ ~(j <= Len(s)) /\ j - Len(s) = i
            /\ p + j = (p + Len(s)) + i
        BY <1>1
      <3> HIDE DEF j
      <3>2. stream[p + j] = t[j - Len(s)]
        BY <1>1, <1>2, <3>1
      <3> QED  BY <3>1, <3>2
    <2>2. (p + Len(s)) + Len(t) <= Len(stream)
      BY <1>1, <1>2
    <2> QED  BY <2>1, <2>2 DEF Lies
  <1> QED  BY <1>3, <1>4

LEMMA LiesTogether ==
    ASSUME NEW stream \in Seq(Nat), NEW p \in Nat, NEW s \in Seq(Nat), NEW t \in Seq(Nat),
           Lies(s, stream, p), Lies(t, stream, p + Len(s))
    PROVE  Lies(s \o t, stream, p)
  <1>1. /\ Len(s) \in Nat /\ Len(t) \in Nat /\ Len(s \o t) = Len(s) + Len(t)
        /\ \A i \in 1..(Len(s) + Len(t)) :
              (s \o t)[i] = IF i <= Len(s) THEN s[i] ELSE t[i - Len(s)]
    BY ConcatProperties
  <1>2. /\ p + (Len(s) + Len(t)) <= Len(stream) /\ Len(stream) \in Nat
        /\ \A i \in 1..Len(s) : stream[p + i] = s[i]
        /\ \A i \in 1..Len(t) : stream[(p + Len(s)) + i] = t[i]
    BY <1>1 DEF Lies
  <1>3. ASSUME NEW i \in 1..(Len(s) + Len(t)) PROVE stream[p + i] = (s \o t)[i]
    <2>1. CASE i <= Len(s)
      BY <1>1, <1>2, <2>1
    <2>2. CASE i > Len(s)
      <3>1. i - Len(s) \in 1..Len(t) /\ (p + Len(s)) + (i - Len(s)) = p + i
        BY <1>1, <2>2
      <3>2. (s \o t)[i] = t[i - Len(s)]
        BY <1>1, <2>2
      <3> QED  BY <1>2, <3>1, <3>2
    <2> QED  BY <1>1, <2>1, <2>2
  <1> QED  BY <1>1, <1>2, <1>3 DEF Lies

LEMMA LiesPart ==
    ASSUME NEW stream \in Seq(Nat), NEW p \in Nat, NEW s \in Seq(Nat), Lies(s, stream, p),
           NEW a \in Nat, NEW b \in Nat, a <= b, b <= Len(s)
    PROVE  /\ SubSeq(s, a + 1, b) \in Seq(Nat) /\ Len(SubSeq(s, a + 1, b)) = b - a
           /\ Lies(SubSeq(s, a + 1, b), stream, p + a)
  <1> DEFINE t == SubSeq(s, a + 1, b)
  <1>1. Len(s) \in Nat /\ \A i \in (a + 1)..b : s[i] \in Nat
    BY ElementOfSeq
  <1>2. /\ t \in Seq(Nat) /\ Len(t) = (IF a + 1 <= b THEN b - (a + 1) + 1 ELSE 0)
        /\ \A i \in 1..(b - (a + 1) + 1) : t[i] = s[(a + 1) + i - 1]
    BY <1>1, SubSeqProperties
  <1> HIDE DEF t
  <1>3. Len(t) = b - a /\ p + Len(s) <= Len(stream) /\ Len(stream) \in Nat
    BY <1>2 DEF Lies
  <1>4. ASSUME NEW i \in 1..Len(t) PROVE stream[(p + a) + i] = t[i]
    <2>1. /\ i \in 1..(b - (a + 1) + 1) /\ (a + 1) + i - 1 = a + i /\ a + i \in 1..Len(s)
          /\ p + (a + i) = (p + a) + i
      BY <1>1, <1>3
    <2>2. t[i] = s[a + i]
      BY <1>2, <2>1
    <2>3. stream[p + (a + i)] = s[a + i]
      BY <2>1 DEF Lies
    <2> QED  BY <2>1, <2>2, <2>3
  <1>5. Lies(t, stream, p + a)
    BY <1>1, <1>3, <1>4 DEF Lies
  <1> QED  BY <1>2, <1>3, <1>5 DEF t

\* Two runs of bytes at the same place agree.
LEMMA LiesAgree ==
    ASSUME NEW stream \in Seq(Nat), NEW p \in Nat, NEW s \in Seq(Nat), NEW t \in Seq(Nat),
           Lies(s, stream, p), Lies(t, stream, p)
    PROVE  /\ \A i \in 1..Len(t) : i \in 1..Len(s) => s[i] = t[i]
           /\ Len(s) = Len(t) => s = t
  <1>1. \A i \in 1..Len(t) : i \in 1..Len(s) => s[i] = t[i]
    BY DEF Lies
  <1>2. Len(s) = Len(t) => s = t
    BY <1>1, SeqEqual
  <1> QED  BY <1>1, <1>2

LEMMA LiesStays ==
    ASSUME NEW stream \in Seq(Nat), NEW p \in Nat, NEW s \in Seq(Nat), Lies(s, stream, p),
           NEW more \in Seq(Nat)
    PROVE  Lies(s, stream \o more, p)
  <1>1. /\ Len(stream \o more) = Len(stream) + Len(more)
        /\ Len(stream) \in Nat /\ Len(more) \in Nat /\ Len(s) \in Nat
        /\ \A i \in 1..(Len(stream) + Len(more)) : i <= Len(stream) =>
              (stream \o more)[i] = stream[i]
    BY ConcatProperties
  <1>2. ASSUME NEW i \in 1..Len(s) PROVE (stream \o more)[p + i] = s[i]
    <2>1. p + i \in 1..(Len(stream) + Len(more)) /\ p + i <= Len(stream)
      BY <1>1 DEF Lies
    <2> QED  BY <1>1, <2>1 DEF Lies
  <1> QED  BY <1>1, <1>2 DEF Lies

LEMMA LiesAtEnd ==
    ASSUME NEW stream \in Seq(Nat), NEW more \in Seq(Nat)
    PROVE  Lies(more, stream \o more, Len(stream))
  <1>1. /\ Len(stream \o more) = Len(stream) + Len(more)
        /\ Len(stream) \in Nat /\ Len(more) \in Nat
        /\ \A i \in 1..(Len(stream) + Len(more)) : (stream \o more)[i] =
              IF i <= Len(stream) THEN stream[i] ELSE more[i - Len(stream)]
    BY ConcatProperties
  <1>2. ASSUME NEW i \in 1..Len(more) PROVE (stream \o more)[Len(stream) + i] = more[i]
    <2> DEFINE j == Len(stream) + i
    <2>1. /\ j \in 1..(Len(stream) + Len(more)) /\ ~(j <= Len(stream))
          /\ j - Len(stream) = i
      BY <1>1
    <2> HIDE DEF j
    <2>2. (stream \o more)[j] = more[j - Len(stream)]
      BY <1>1, <2>1
    <2> QED  BY <2>1, <2>2 DEF j
  <1> QED  BY <1>1, <1>2 DEF Lies

(***************************************************************************)
(* Frames.                                                                 *)
(***************************************************************************)
Prefix(k, n) == IF k = 2 THEN ToU16(n) ELSE ToU32(n)
Limit(k)     == IF k = 2 THEN Base * Base ELSE Base * Base * (Base * Base)

LEMMA ConcatOfTwo ==
    ASSUME NEW s \in Seq(Nat), NEW t \in Seq(Nat)
    PROVE  /\ s \o t \in Seq(Nat) /\ Len(s \o t) = Len(s) + Len(t)
           /\ Len(s) \in Nat /\ Len(t) \in Nat
  BY ConcatProperties

LEMMA ConcatOfFour ==
    ASSUME NEW x \in Seq(Nat), NEW h \in Seq(Nat), NEW y \in Seq(Nat), NEW b \in Seq(Nat),
           Len(x) = 2, Len(y) = 4
    PROVE  /\ x \o h \in Seq(Nat) /\ Len(x \o h) = 2 + Len(h)
           /\ x \o h \o y \in Seq(Nat) /\ Len(x \o h \o y) = 2 + Len(h) + 4
           /\ x \o h \o y \o b \in Seq(Nat)
           /\ Len(x \o h \o y \o b) = 6 + Len(h) + Len(b)
  <1>1. x \o h \in Seq(Nat) /\ Len(x \o h) = 2 + Len(h) /\ Len(h) \in Nat
    BY ConcatOfTwo
  <1>2. ASSUME NEW s \in Seq(Nat), Len(s) = 2 + Len(h)
        PROVE  /\ s \o y \in Seq(Nat) /\ Len(s \o y) = 2 + Len(h) + 4
               /\ s \o y \o b \in Seq(Nat) /\ Len(s \o y \o b) = 6 + Len(h) + Len(b)
    <2>1. s \o y \in Seq(Nat) /\ Len(s \o y) = 2 + Len(h) + 4
      BY <1>1, <1>2, ConcatOfTwo
    <2>2. /\ s \o y \o b \in Seq(Nat) /\ Len(s \o y \o b) = Len(s \o y) + Len(b)
          /\ Len(b) \in Nat
      BY <2>1, ConcatOfTwo
    <2> QED  BY <1>1, <2>1, <2>2
  <1> QED  BY <1>1, <1>2

LEMMA LiesFour ==
    ASSUME NEW x \in Seq(Nat), NEW h \in Seq(Nat), NEW y \in Seq(Nat), NEW b \in Seq(Nat),
           Len(x) = 2, Len(y) = 4,
           NEW stream \in Seq(Nat), NEW p \in Nat, Lies(x \o h \o y \o b, stream, p)
    PROVE  /\ Lies(x, stream, p) /\ Lies(h, stream, p + 2)
           /\ Lies(y, stream, p + 2 + Len(h)) /\ Lies(b, stream, p + 2 + Len(h) + 4)
  <1>1. /\ x \o h \in Seq(Nat) /\ Len(x \o h) = 2 + Len(h)
        /\ x \o h \o y \in Seq(Nat) /\ Len(x \o h \o y) = 2 + Len(h) + 4
    BY ConcatOfFour
  <1>2. Lies(x \o h \o y, stream, p) /\ Lies(b, stream, p + Len(x \o h \o y))
    BY <1>1, LiesConcat
  <1>3. Lies(x \o h, stream, p) /\ Lies(y, stream, p + Len(x \o h))
    BY <1>1, <1>2, LiesConcat
  <1>4. Lies(x, stream, p) /\ Lies(h, stream, p + Len(x))
    BY <1>3, LiesConcat
  <1>5. /\ p + Len(x \o h \o y) = p + 2 + Len(h) + 4
        /\ p + Len(x \o h) = p + 2 + Len(h) /\ p + Len(x) = p + 2
    BY <1>1
  <1> QED  BY <1>2, <1>3, <1>4, <1>5

LEMMA FrameIs ==
    ASSUME NEW m \in Outgoing
    PROVE  /\ EncodeForBep(m) \in Seq(Nat)
           /\ Len(EncodeForBep(m)) = 6 + Len(EncodeHeader(m)) + Len(Body(m))
  <1>1. /\ EncodeHeader(m) \in Seq(Nat) /\ Body(m) \in Seq(Nat)
        /\ ToU16(Len(EncodeHeader(m))) \in Seq(Nat) /\ Len(ToU16(Len(EncodeHeader(m)))) = 2
        /\ ToU32(Len(Body(m))) \in Seq(Nat) /\ Len(ToU32(Len(Body(m)))) = 4
    BY OutgoingIsMessage, U16IsSeq, U32IsSeq
  <1> QED  BY <1>1, ConcatOfFour DEF EncodeForBep

LEMMA FrameParts ==
    ASSUME NEW m \in Outgoing, NEW stream \in Seq(Nat), NEW p \in Nat,
           Lies(EncodeForBep(m), stream, p)
    PROVE  /\ Lies(Prefix(2, Len(EncodeHeader(m))), stream, p)
           /\ Lies(EncodeHeader(m), stream, p + 2)
           /\ Lies(Prefix(4, Len(Body(m))), stream, p + 2 + Len(EncodeHeader(m)))
           /\ Lies(Body(m), stream, p + 2 + Len(EncodeHeader(m)) + 4)
  <1>1. /\ EncodeHeader(m) \in Seq(Nat) /\ Body(m) \in Seq(Nat)
        /\ ToU16(Len(EncodeHeader(m))) \in Seq(Nat) /\ Len(ToU16(Len(EncodeHeader(m)))) = 2
        /\ ToU32(Len(Body(m))) \in Seq(Nat) /\ Len(ToU32(Len(Body(m)))) = 4
    BY OutgoingIsMessage, U16IsSeq, U32IsSeq
  <1>2. /\ Prefix(2, Len(EncodeHeader(m))) = ToU16(Len(EncodeHeader(m)))
        /\ Prefix(4, Len(Body(m))) = ToU32(Len(Body(m)))
    BY DEF Prefix
  <1> QED  BY <1>1, <1>2, LiesFour DEF EncodeForBep

LEMMA LiesFirst ==
    ASSUME NEW stream \in Seq(Nat), NEW p \in Nat, NEW s \in Seq(Nat), NEW t \in Seq(Nat),
           Lies(s, stream, p), Lies(t, stream, p), Len(t) <= Len(s)
    PROVE  \A i \in 1..Len(t) : s[i] = t[i]
  <1>1. Len(s) \in Nat /\ Len(t) \in Nat
    OBVIOUS
  <1>2. ASSUME NEW i \in 1..Len(t) PROVE s[i] = t[i]
    <2>1. i \in 1..Len(s)
      BY <1>1
    <2> QED  BY <2>1 DEF Lies
  <1> QED  BY <1>2

\* What is left when n bytes have been read.
Rest(w, n) == SubSeq(w, n + 1, Len(w))

\* read_exact of a length and of what follows it.
LEMMA ReadsPrefixed ==
    ASSUME wire \in Seq(Nat), NEW stream \in Seq(Nat), NEW r \in Nat,
           Lies(wire, stream, r), NEW k \in {2, 4}, NEW x \in Seq(Nat),
           Len(x) < Limit(k), Lies(Prefix(k, Len(x)), stream, r),
           Lies(x, stream, r + k), Prefixed(k)
    PROVE  /\ Payload(k) = x /\ k + Len(x) <= Len(wire)
           /\ RestAfter(k) = Rest(wire, k + Len(x))
  <1> DEFINE n == Len(x)
  <1>1. n \in Nat /\ Len(wire) \in Nat /\ Len(wire) >= k
    BY DEF Prefixed
  <1>0. ASSUME NEW t \in Seq(Nat), Len(t) = k, Lies(t, stream, r)
        PROVE  \A i \in 1..k : wire[i] = t[i]
    <2>1. Len(t) <= Len(wire)
      BY <1>0, <1>1
    <2> QED  BY <1>0, <2>1, LiesFirst
  <1>2. Length(k) = n
    <2>1. CASE k = 2
      <3>1. Lies(ToU16(n), stream, r) /\ ToU16(n) \in Seq(Nat) /\ Len(ToU16(n)) = 2
        BY <1>1, <2>1, U16IsSeq DEF Prefix
      <3>2. \A i \in 1..2 : wire[i] = ToU16(n)[i]
        BY <1>0, <2>1, <3>1
      <3> QED  BY <1>1, <2>1, <3>2, U16RoundTrip DEF Length, Limit
    <2>2. CASE k = 4
      <3>1. Lies(ToU32(n), stream, r) /\ ToU32(n) \in Seq(Nat) /\ Len(ToU32(n)) = 4
        BY <1>1, <2>2, U32IsSeq DEF Prefix
      <3>2. \A i \in 1..4 : wire[i] = ToU32(n)[i]
        BY <1>0, <2>2, <3>1
      <3> QED  BY <1>1, <2>2, <3>2, U32RoundTrip DEF Length, Limit
    <2> QED  BY <2>1, <2>2
  <1>3. k + n <= Len(wire)
    BY <1>2 DEF Prefixed
  <1>4. Payload(k) = x
    <2> DEFINE t == SubSeq(wire, k + 1, k + n)
    <2>1. k \in Nat /\ k + n \in Nat /\ k <= k + n
      BY <1>1
    <2>2. t \in Seq(Nat) /\ Len(t) = (k + n) - k /\ Lies(t, stream, r + k)
      BY <1>3, <2>1, LiesPart
    <2> HIDE DEF t
    <2>3. Len(t) = Len(x) /\ r + k \in Nat
      BY <1>1, <2>1, <2>2
    <2>4. t = x
      BY <2>2, <2>3, LiesAgree
    <2> QED  BY <1>2, <2>4 DEF Payload, t
  <1>5. RestAfter(k) = Rest(wire, k + n)
    BY <1>2 DEF RestAfter, Rest
  <1> QED  BY <1>3, <1>4, <1>5
-----------------------------------------------------------------------------
(***************************************************************************)
(* The inductive invariant.  It speaks of the whole stream from the first  *)
(* byte, of the place st[i] of every message in it, and of the number r of *)
(* bytes that have been read.                                              *)
(***************************************************************************)
FTypes == /\ sent \in Seq(Outgoing) /\ got \in Seq(Message)
          /\ wire \in Seq(Nat) /\ flying \in Seq(Nat)
          /\ magic \in {<<>>, HELLO_MAGIC, OtherMagic}

Framed(stream, st, q) ==
    /\ stream \in Seq(Nat) /\ st \in [1..(Len(q) + 1) -> Nat]
    /\ st[Len(q) + 1] = Len(stream)
    /\ \A i \in 1..Len(q) :
          /\ Lies(EncodeForBep(q[i]), stream, st[i])
          /\ st[i + 1] = st[i] + Len(EncodeForBep(q[i]))
Frames(stream, st) == Framed(stream, st, sent)

\* The stream starts with the Hello.
Greets(stream, st) ==
    /\ magic = <<>> => stream = <<>> /\ sent = <<>> /\ phase = "magic" /\ ~cut
    /\ magic # <<>> => \E h \in Hellos :
          /\ Lies(magic \o ToU16(Len(h)) \o h, stream, 0)
          /\ st[1] = 6 + Len(h)

\* What is on the wire or on its way is the rest of it.
Remains(stream, r, w, f) == /\ Lies(w, stream, r) /\ Lies(f, stream, r + Len(w))
                            /\ r + Len(w) + Len(f) = Len(stream)
Left(stream, r) == Remains(stream, r, wire, flying)

\* The reader stands where its phase says.
Stands(st, r) ==
    /\ phase = "magic" => r = 0 /\ got = <<>>
    /\ phase = "hello" => r = 4 /\ got = <<>>
    /\ phase = "header" => r = st[Len(got) + 1]
    /\ phase = "message" =>
          LET m == sent[Len(got) + 1]
          IN  /\ Len(got) < Len(sent)
              /\ r = st[Len(got) + 1] + 2 + Len(EncodeHeader(m))
              /\ header = [type |-> m.type, compression |-> m.compression]

StreamIs(stream, st, r) ==
    r \in Nat /\ Frames(stream, st) /\ Greets(stream, st) /\ Left(stream, r) /\ Stands(st, r)

GotIsSent == Len(got) <= Len(sent) /\ \A i \in 1..Len(got) : got[i] = sent[i]

FrameInv == /\ FTypes /\ GotIsSent /\ FailsForCause
            /\ \E stream, st, r : StreamIs(stream, st, r)

LEMMA InitFrame == FInit => FrameInv
  <1> SUFFICES ASSUME FInit PROVE FrameInv
    OBVIOUS
  <1>1. FTypes /\ GotIsSent /\ FailsForCause
    <2>1. <<>> \in Seq(Outgoing) /\ <<>> \in Seq(Message) /\ <<>> \in Seq(Nat)
      BY EmptySeq
    <2> QED  BY <2>1 DEF FInit, FTypes, GotIsSent, FailsForCause
  <1>2. StreamIs(<<>>, [i \in 1..1 |-> 0], 0)
    <2>1. Frames(<<>>, [i \in 1..1 |-> 0])
      BY DEF FInit, Frames, Framed
    <2>2. Greets(<<>>, [i \in 1..1 |-> 0])
      BY DEF FInit, Greets
    <2>3. Left(<<>>, 0) /\ Stands([i \in 1..1 |-> 0], 0)
      BY DEF FInit, Left, Remains, Lies, Stands
    <2> QED  BY <2>1, <2>2, <2>3 DEF StreamIs
  <1> QED  BY <1>1, <1>2 DEF FrameInv

LEMMA RestIs ==
    ASSUME NEW stream \in Seq(Nat), NEW p \in Nat, NEW w \in Seq(Nat), Lies(w, stream, p),
           NEW n \in Nat, n <= Len(w)
    PROVE  /\ Rest(w, n) \in Seq(Nat) /\ Len(Rest(w, n)) = Len(w) - n
           /\ Lies(Rest(w, n), stream, p + n)
  <1>1. ASSUME NEW b \in Nat, n <= b, b <= Len(w)
        PROVE  /\ SubSeq(w, n + 1, b) \in Seq(Nat)
               /\ Len(SubSeq(w, n + 1, b)) = b - n
               /\ Lies(SubSeq(w, n + 1, b), stream, p + n)
    BY <1>1, LiesPart
  <1>2. PICK b \in Nat : b = Len(w)
    OBVIOUS
  <1>3. n <= b /\ b <= Len(w) /\ Rest(w, n) = SubSeq(w, n + 1, b)
    BY <1>2 DEF Rest
  <1> QED  BY <1>1, <1>2, <1>3

LEMMA RestRemains ==
    ASSUME NEW stream \in Seq(Nat), NEW r \in Nat, NEW w \in Seq(Nat), NEW f \in Seq(Nat),
           Remains(stream, r, w, f), NEW n \in Nat, n <= Len(w)
    PROVE  Rest(w, n) \in Seq(Nat) /\ Remains(stream, r + n, Rest(w, n), f)
  <1>1. Len(w) \in Nat /\ Len(f) \in Nat /\ Len(stream) \in Nat
    OBVIOUS
  <1>2. /\ Rest(w, n) \in Seq(Nat) /\ Len(Rest(w, n)) = Len(w) - n
        /\ Lies(Rest(w, n), stream, r + n)
    BY RestIs DEF Remains
  <1>3. (r + n) + Len(Rest(w, n)) = r + Len(w)
    BY <1>1, <1>2
  <1> QED  BY <1>2, <1>3 DEF Remains

LEMMA ReadLeaves ==
    ASSUME FTypes, NEW stream \in Seq(Nat), NEW r \in Nat, Left(stream, r),
           NEW n \in Nat, n <= Len(wire), wire' = Rest(wire, n), UNCHANGED flying
    PROVE  wire' \in Seq(Nat) /\ Left(stream, r + n)'
  <1>1. Rest(wire, n) \in Seq(Nat) /\ Remains(stream, r + n, Rest(wire, n), flying)
    BY RestRemains DEF FTypes, Left
  <1> QED  BY <1>1 DEF Left, Remains, Lies

LEMMA ConcatOfThree ==
    ASSUME NEW x \in Seq(Nat), NEW y \in Seq(Nat), NEW h \in Seq(Nat), Len(x) = 4, Len(y) = 2
    PROVE  /\ x \o y \in Seq(Nat) /\ Len(x \o y) = 6
           /\ x \o y \o h \in Seq(Nat) /\ Len(x \o y \o h) = 6 + Len(h)
           /\ x # <<>> /\ Lies(x \o y \o h, x \o y \o h, 0)
  <1>1. x \o y \in Seq(Nat) /\ Len(x \o y) = 4 + Len(y)
    BY ConcatOfTwo
  <1>2. x \o y \o h \in Seq(Nat) /\ Len(x \o y \o h) = 6 + Len(h) /\ Len(h) \in Nat
    BY <1>1, ConcatOfTwo
  <1>3. ASSUME NEW s \in Seq(Nat) PROVE Lies(s, s, 0)
    BY DEF Lies
  <1>4. Lies(x \o y \o h, x \o y \o h, 0)
    BY <1>2, <1>3
  <1>5. x # <<>>
    BY EmptySeq
  <1>6. 4 + Len(y) = 6
    OBVIOUS
  <1> QED  BY <1>1, <1>2, <1>4, <1>5, <1>6

LEMMA MagicIs ==
    ASSUME NEW x \in {HELLO_MAGIC, OtherMagic}, NEW h \in Hellos
    PROVE  /\ x \in Seq(Nat) /\ Len(x) = 4 /\ x # <<>>
           /\ h \in Seq(Nat) /\ Len(h) \in Nat /\ Len(h) < Base * Base
           /\ ToU16(Len(h)) \in Seq(Nat) /\ Len(ToU16(Len(h))) = 2
           /\ x \o ToU16(Len(h)) \o h \in Seq(Nat)
           /\ Len(x \o ToU16(Len(h)) \o h) = 6 + Len(h)
           /\ Lies(x \o ToU16(Len(h)) \o h, x \o ToU16(Len(h)) \o h, 0)
  <1>1. x \in Seq(Nat) /\ Len(x) = 4 /\ h \in Seq(Nat) /\ Len(h) < Base * Base
    BY FramingAssumption
  <1>2. Len(h) \in Nat
    BY <1>1
  <1>3. ToU16(Len(h)) \in Seq(Nat) /\ Len(ToU16(Len(h))) = 2
    BY <1>2, U16IsSeq
  <1> QED  BY <1>1, <1>2, <1>3, ConcatOfThree

LEMMA HelloStep ==
    ASSUME FrameInv, SendHello
    PROVE  FrameInv'
  <1>1. /\ UNCHANGED <<sent, wire, cut, phase, header, got>> /\ magic = <<>>
        /\ magic' \in {HELLO_MAGIC, OtherMagic}
    BY DEF SendHello
  <1>2. PICK h \in Hellos : flying' = magic' \o ToU16(Len(h)) \o h
    BY DEF SendHello
  <1>3. PICK stream, st, r : StreamIs(stream, st, r)
    BY DEF FrameInv
  <1>4. stream = <<>> /\ sent = <<>> /\ phase = "magic" /\ r = 0 /\ got = <<>>
    BY <1>1, <1>3 DEF StreamIs, Greets, Stands
  <1>5. wire = <<>>
    <2>1. wire \in Seq(Nat) /\ flying \in Seq(Nat) /\ Len(wire) \in Nat /\ Len(flying) \in Nat
      BY DEF FrameInv, FTypes
    <2>2. 0 + Len(wire) + Len(flying) = 0
      BY <1>3, <1>4 DEF StreamIs, Left, Remains
    <2>3. Len(wire) = 0
      BY <2>1, <2>2
    <2> QED  BY <2>1, <2>3, EmptySeq
  <1>6. PICK x \in {HELLO_MAGIC, OtherMagic} : x = magic'
    BY <1>1
  <1>7. PICK all : all = x \o ToU16(Len(h)) \o h
    OBVIOUS
  <1>8. /\ all \in Seq(Nat) /\ Len(all) = 6 + Len(h) /\ Lies(all, all, 0)
        /\ x # <<>> /\ Len(h) \in Nat
    BY <1>7, MagicIs
  <1>9. flying' = all /\ magic' = x
    BY <1>2, <1>6, <1>7
  <1>10. FTypes' /\ GotIsSent' /\ FailsForCause'
    <2>1. FTypes'
      BY <1>1, <1>8, <1>9 DEF FrameInv, FTypes
    <2> QED  BY <1>1, <1>4, <2>1 DEF FrameInv, GotIsSent, FailsForCause
  <1>11. PICK place : place = [i \in 1..1 |-> Len(all)]
    OBVIOUS
  <1>12. StreamIs(all, place, 0)'
    <2>1. Frames(all, place)'
      <3>1. sent' = <<>> /\ Len(all) \in Nat
        BY <1>1, <1>4, <1>8
      <3> QED  BY <1>8, <1>11, <3>1 DEF Frames, Framed
    <2>2. Greets(all, place)'
      <3>1. magic' # <<>> /\ Lies(magic' \o ToU16(Len(h)) \o h, all, 0)
            /\ place[1] = 6 + Len(h)
        BY <1>7, <1>8, <1>9, <1>11
      <3> QED  BY <3>1 DEF Greets
    <2>3. Left(all, 0)'
      BY <1>1, <1>5, <1>8, <1>9 DEF Left, Remains, Lies
    <2>4. Stands(place, 0)'
      BY <1>1, <1>4 DEF Stands
    <2> QED  BY <2>1, <2>2, <2>3, <2>4 DEF StreamIs
  <1> QED  BY <1>10, <1>12 DEF FrameInv

\* A message is written: it lies at the end of a longer stream.
LEMMA RemainsMore ==
    ASSUME NEW stream \in Seq(Nat), NEW r \in Nat, NEW w \in Seq(Nat), NEW f \in Seq(Nat),
           Remains(stream, r, w, f), NEW more \in Seq(Nat)
    PROVE  /\ f \o more \in Seq(Nat) /\ stream \o more \in Seq(Nat)
           /\ Remains(stream \o more, r, w, f \o more)
  <1>1. /\ f \o more \in Seq(Nat) /\ Len(f \o more) = Len(f) + Len(more)
        /\ stream \o more \in Seq(Nat) /\ Len(stream \o more) = Len(stream) + Len(more)
        /\ Len(f) \in Nat /\ Len(more) \in Nat /\ Len(w) \in Nat
    BY ConcatOfTwo
  <1>2. Lies(w, stream \o more, r) /\ Lies(f, stream \o more, r + Len(w))
    <2>1. r + Len(w) \in Nat
      BY <1>1
    <2> QED  BY <2>1, LiesStays DEF Remains
  <1>3. Lies(more, stream \o more, (r + Len(w)) + Len(f))
    <2>1. (r + Len(w)) + Len(f) = Len(stream)
      BY DEF Remains
    <2> QED  BY <2>1, LiesAtEnd
  <1>4. Lies(f \o more, stream \o more, r + Len(w))
    <2>1. r + Len(w) \in Nat
      BY <1>1
    <2> QED  BY <1>1, <1>2, <1>3, <2>1, LiesTogether
  <1>5. r + Len(w) + Len(f \o more) = Len(stream \o more)
    <2> DEFINE a == r + Len(w)
               c == Len(f)
               d == Len(stream)
               e == Len(more)
    <2>1. a + c = d
      BY DEF Remains
    <2>2. a \in Nat /\ c \in Nat /\ d \in Nat /\ e \in Nat
      BY <1>1
    <2>3. Len(f \o more) = c + e /\ Len(stream \o more) = d + e
      BY <1>1
    <2> HIDE DEF a, c, d, e
    <2>4. a + (c + e) = d + e
      BY <2>1, <2>2
    <2>5. a + Len(f \o more) = Len(stream \o more)
      BY <2>3, <2>4
    <2> QED  BY <2>5 DEF a
  <1> QED  BY <1>1, <1>2, <1>4, <1>5 DEF Remains

Places(st, n, all) == [i \in 1..(n + 2) |-> IF i <= n + 1 THEN st[i] ELSE all]

LEMMA FramedMore ==
    ASSUME NEW stream, NEW st, NEW q \in Seq(Outgoing), Framed(stream, st, q),
           NEW m \in Outgoing
    PROVE  Framed(stream \o EncodeForBep(m),
                  Places(st, Len(q), Len(stream \o EncodeForBep(m))), Append(q, m))
  <1> DEFINE n == Len(q)
  <1>1. n \in Nat /\ stream \in Seq(Nat) /\ st \in [1..(n + 1) -> Nat]
        /\ st[n + 1] = Len(stream)
    BY DEF Framed
  <1>2. PICK x \in Seq(Nat) : x = EncodeForBep(m)
    BY FrameIs
  <1>3. PICK all : all = stream \o x
    OBVIOUS
  <1>4. all \in Seq(Nat) /\ Len(all) = Len(stream) + Len(x) /\ Len(all) \in Nat
    BY <1>1, <1>3, ConcatOfTwo
  <1>5. PICK p : p = Places(st, n, Len(all))
    OBVIOUS
  <1>6. /\ p \in [1..(n + 2) -> Nat] /\ p[n + 2] = Len(all)
        /\ \A i \in 1..(n + 1) : p[i] = st[i]
    BY <1>1, <1>4, <1>5 DEF Places
  <1>7. PICK e : e = Append(q, m)
    OBVIOUS
  <1>8. Len(e) = n + 1 /\ e[n + 1] = m /\ \A i \in 1..n : e[i] = q[i]
    BY <1>7, AppendProperties
  <1> HIDE DEF n
  <1>9. ASSUME NEW i \in 1..(n + 1)
        PROVE  /\ Lies(EncodeForBep(e[i]), all, p[i])
               /\ p[i + 1] = p[i] + Len(EncodeForBep(e[i]))
    <2>1. CASE i \in 1..n
      <3>1. /\ Lies(EncodeForBep(q[i]), stream, st[i])
            /\ st[i + 1] = st[i] + Len(EncodeForBep(q[i])) /\ q[i] \in Outgoing
        BY <2>1 DEF Framed, n
      <3>2. i + 1 \in 1..(n + 1) /\ st[i] \in Nat /\ EncodeForBep(q[i]) \in Seq(Nat)
        <4>1. i + 1 \in 1..(n + 1)
          BY <1>1, <2>1
        <4>2. st[i] \in Nat
          BY <1>1
        <4> QED  BY <3>1, <4>1, <4>2, FrameIs
      <3>3. Lies(EncodeForBep(q[i]), all, st[i])
        BY <1>1, <1>3, <3>1, <3>2, LiesStays
      <3> QED  BY <1>6, <1>8, <2>1, <3>1, <3>2, <3>3
    <2>2. CASE i = n + 1
      <3>1. Lies(x, all, Len(stream))
        BY <1>1, <1>3, LiesAtEnd
      <3>2. p[i] = Len(stream) /\ e[i] = m /\ i + 1 = n + 2
        <4>1. n + 1 \in 1..(n + 1) /\ n + 1 + 1 = n + 2
          BY <1>1
        <4> QED  BY <1>1, <1>6, <1>8, <2>2, <4>1
      <3> QED  BY <1>2, <1>4, <1>6, <3>1, <3>2
    <2> QED  BY <1>1, <2>1, <2>2
  <1>10. Framed(all, p, e)
    <2>1. Len(e) + 1 = n + 2
      BY <1>1, <1>8
    <2> QED  BY <1>4, <1>6, <1>8, <1>9, <2>1 DEF Framed
  <1> QED  BY <1>2, <1>3, <1>5, <1>7, <1>10 DEF n

\* The messages before the last one stay where they are.
LEMMA LongerSent ==
    ASSUME FTypes, GotIsSent, NEW m \in Outgoing, sent' = Append(sent, m), UNCHANGED got
    PROVE  /\ sent' \in Seq(Outgoing) /\ Len(sent') = Len(sent) + 1
           /\ Len(sent) \in Nat /\ Len(got) \in Nat /\ Len(got) <= Len(sent)
           /\ \A i \in 1..Len(sent) : sent'[i] = sent[i]
           /\ Len(got) < Len(sent) => sent'[Len(got) + 1] = sent[Len(got) + 1]
           /\ GotIsSent'
  <1>1. Len(sent) \in Nat /\ Len(got) \in Nat /\ Len(got) <= Len(sent)
    BY DEF FTypes, GotIsSent
  <1>2. /\ sent' \in Seq(Outgoing) /\ Len(sent') = Len(sent) + 1
        /\ \A i \in 1..Len(sent) : sent'[i] = sent[i]
    BY AppendProperties DEF FTypes
  <1>3. Len(got) < Len(sent) => sent'[Len(got) + 1] = sent[Len(got) + 1]
    BY <1>1, <1>2
  <1>4. GotIsSent'
    <2>1. Len(got) <= Len(sent')
      BY <1>1, <1>2
    <2>2. ASSUME NEW i \in 1..Len(got) PROVE got[i] = sent'[i]
      <3>1. i \in 1..Len(sent)
        BY <1>1
      <3> QED  BY <1>2, <3>1 DEF GotIsSent
    <2> QED  BY <2>1, <2>2 DEF GotIsSent
  <1> QED  BY <1>1, <1>2, <1>3, <1>4

LEMMA SendStep ==
    ASSUME FrameInv, SendMessage
    PROVE  FrameInv'
  <1>1. UNCHANGED <<wire, cut, phase, header, magic, got>> /\ magic # <<>>
    BY DEF SendMessage
  <1>2. PICK m \in Outgoing : sent' = Append(sent, m) /\ flying' = flying \o EncodeForBep(m)
    BY DEF SendMessage
  <1>3. PICK stream, st, r : StreamIs(stream, st, r)
    BY DEF FrameInv
  <1>4. FTypes /\ GotIsSent /\ FailsForCause
    BY DEF FrameInv
  <1>5. /\ sent' \in Seq(Outgoing) /\ Len(sent') = Len(sent) + 1
        /\ Len(sent) \in Nat /\ Len(got) \in Nat /\ Len(got) <= Len(sent)
        /\ Len(got) < Len(sent) => sent'[Len(got) + 1] = sent[Len(got) + 1]
        /\ GotIsSent'
    BY <1>1, <1>2, <1>4, LongerSent
  <1>6. PICK x \in Seq(Nat) : x = EncodeForBep(m)
    BY FrameIs
  <1>7. /\ stream \in Seq(Nat) /\ r \in Nat /\ Framed(stream, st, sent) /\ Greets(stream, st)
        /\ Remains(stream, r, wire, flying) /\ Stands(st, r)
    BY <1>3 DEF StreamIs, Frames, Framed, Left
  <1>8. PICK all, place : all = stream \o x /\ place = Places(st, Len(sent), Len(all))
    OBVIOUS
  <1>9. /\ flying' \in Seq(Nat) /\ all \in Seq(Nat)
        /\ Remains(all, r, wire, flying')
    <2>1. /\ flying \o x \in Seq(Nat) /\ stream \o x \in Seq(Nat)
          /\ Remains(stream \o x, r, wire, flying \o x)
      BY <1>4, <1>7, RemainsMore DEF FTypes
    <2> QED  BY <1>2, <1>6, <1>8, <2>1
  <1>10. Frames(all, place)'
    <2>1. Framed(all, place, Append(sent, m))
      BY <1>4, <1>6, <1>7, <1>8, FramedMore DEF FTypes
    <2> QED  BY <1>2, <2>1 DEF Frames, Framed, Lies
  <1>11. \A i \in 1..(Len(sent) + 1) : place[i] = st[i]
    BY <1>5, <1>8 DEF Places
  <1>12. FTypes'
    BY <1>1, <1>4, <1>5, <1>9 DEF FTypes
  <1>13. FailsForCause'
    <2>1. Len(sent) > Len(got) => Len(sent') > Len(got) /\ Len(got) < Len(sent)
      BY <1>5
    <2> QED  BY <1>1, <1>4, <1>5, <2>1 DEF FailsForCause
  <1>14. Greets(all, place)'
    <2>1. PICK h \in Hellos : /\ Lies(magic \o ToU16(Len(h)) \o h, stream, 0)
                              /\ st[1] = 6 + Len(h)
      BY <1>1, <1>7 DEF Greets
    <2>2. magic \o ToU16(Len(h)) \o h \in Seq(Nat)
      BY <1>1, <1>4, MagicIs DEF FTypes
    <2>3. Lies(magic \o ToU16(Len(h)) \o h, all, 0)
      BY <1>7, <1>8, <2>1, <2>2, LiesStays
    <2>4. place[1] = st[1]
      BY <1>5, <1>11
    <2> QED  BY <1>1, <2>1, <2>3, <2>4 DEF Greets
  <1>15. Stands(place, r)'
    <2>1. Len(got) + 1 \in 1..(Len(sent) + 1)
      BY <1>5
    <2>2. place[Len(got) + 1] = st[Len(got) + 1]
      BY <1>11, <2>1
    <2>3. phase = "message" => Len(got) < Len(sent')
      BY <1>5, <1>7 DEF Stands
    <2> QED  BY <1>1, <1>5, <1>7, <2>2, <2>3 DEF Stands
  <1>16. StreamIs(all, place, r)'
    BY <1>1, <1>7, <1>9, <1>10, <1>14, <1>15 DEF StreamIs, Left, Remains, Lies
  <1> QED  BY <1>5, <1>12, <1>13, <1>16 DEF FrameInv

\* Bytes arrive.
First(f, k) == SubSeq(f, 1, k)

LEMMA FirstIs ==
    ASSUME NEW stream \in Seq(Nat), NEW p \in Nat, NEW f \in Seq(Nat), Lies(f, stream, p),
           NEW k \in Nat, k <= Len(f)
    PROVE  /\ First(f, k) \in Seq(Nat) /\ Len(First(f, k)) = k
           /\ Lies(First(f, k), stream, p)
  <1>1. PICK a \in Nat : a = 0
    OBVIOUS
  <1>2. /\ SubSeq(f, a + 1, k) \in Seq(Nat) /\ Len(SubSeq(f, a + 1, k)) = k - a
        /\ Lies(SubSeq(f, a + 1, k), stream, p + a)
    <2>1. a <= k
      BY <1>1
    <2> QED  BY <2>1, LiesPart
  <1>3. First(f, k) = SubSeq(f, a + 1, k) /\ k - a = k /\ p + a = p
    BY <1>1 DEF First
  <1> QED  BY <1>2, <1>3

LEMMA RemainsArrive ==
    ASSUME NEW stream \in Seq(Nat), NEW r \in Nat, NEW w \in Seq(Nat), NEW f \in Seq(Nat),
           Remains(stream, r, w, f), NEW k \in Nat, k <= Len(f)
    PROVE  /\ w \o First(f, k) \in Seq(Nat) /\ Rest(f, k) \in Seq(Nat)
           /\ Remains(stream, r, w \o First(f, k), Rest(f, k))
  <1> DEFINE a == r + Len(w)
             c == Len(f)
             x == First(f, k)
             y == Rest(f, k)
             z == w \o x
  <1>1. a \in Nat /\ c \in Nat /\ Lies(f, stream, a)
    BY DEF Remains
  <1>2. a + c = Len(stream)
    BY DEF Remains
  <1> HIDE DEF a
  <1>3. x \in Seq(Nat) /\ Len(x) = k /\ Lies(x, stream, a)
    BY <1>1, FirstIs
  <1>4. y \in Seq(Nat) /\ Len(y) = c - k /\ Lies(y, stream, a + k)
    BY <1>1, RestIs
  <1> HIDE DEF x, y
  <1>5. z \in Seq(Nat) /\ Len(z) = Len(w) + k
    BY <1>3, ConcatOfTwo
  <1>6. Lies(z, stream, r)
    BY <1>3, LiesTogether DEF Remains, a
  <1> HIDE DEF c, z
  <1>7. r + Len(z) = a + k
    <2>1. ASSUME NEW b \in Nat PROVE r + (b + k) = (r + b) + k
      OBVIOUS
    <2>2. Len(w) \in Nat
      OBVIOUS
    <2> QED  BY <1>5, <2>1, <2>2 DEF a
  <1>8. (a + k) + (c - k) = a + c
    BY <1>1
  <1>9. r + Len(z) + Len(y) = Len(stream)
    BY <1>2, <1>4, <1>7, <1>8
  <1> QED  BY <1>4, <1>5, <1>6, <1>7, <1>9 DEF Remains, x, y, z

LEMMA StreamStays ==
    ASSUME NEW stream, NEW st, Frames(stream, st), Greets(stream, st),
           UNCHANGED <<sent, magic>>, magic = <<>> => UNCHANGED <<phase, cut>>
    PROVE  Frames(stream, st)' /\ Greets(stream, st)'
  <1>1. Frames(stream, st)'
    BY DEF Frames, Framed, Lies
  <1>2. Greets(stream, st)'
    BY DEF Greets, Lies
  <1> QED  BY <1>1, <1>2

LEMMA DeliverStep ==
    ASSUME FrameInv, Deliver
    PROVE  FrameInv'
  <1>1. UNCHANGED <<sent, cut, phase, header, magic, got>> /\ flying # <<>>
    BY DEF Deliver
  <1>2. PICK k \in {1, Len(flying)} : /\ wire' = wire \o First(flying, k)
                                      /\ flying' = Rest(flying, k)
    BY DEF Deliver, First, Rest
  <1>3. PICK stream, st, r : StreamIs(stream, st, r)
    BY DEF FrameInv
  <1>4. FTypes /\ GotIsSent /\ FailsForCause
    BY DEF FrameInv
  <1>5. /\ stream \in Seq(Nat) /\ r \in Nat /\ Frames(stream, st) /\ Greets(stream, st)
        /\ Remains(stream, r, wire, flying) /\ Stands(st, r)
    BY <1>3 DEF StreamIs, Frames, Framed, Left
  <1>6. wire \in Seq(Nat) /\ flying \in Seq(Nat)
    BY <1>4 DEF FTypes
  <1>7. k \in Nat /\ k <= Len(flying)
    <2>1. Len(flying) \in Nat /\ Len(flying) # 0
      BY <1>1, <1>6, EmptySeq
    <2> QED  BY <2>1
  <1>8. /\ wire' \in Seq(Nat) /\ flying' \in Seq(Nat)
        /\ Remains(stream, r, wire', flying')
    <2>1. /\ wire \o First(flying, k) \in Seq(Nat) /\ Rest(flying, k) \in Seq(Nat)
          /\ Remains(stream, r, wire \o First(flying, k), Rest(flying, k))
      BY <1>5, <1>6, <1>7, RemainsArrive
    <2> QED  BY <1>2, <2>1
  <1>9. FTypes' /\ GotIsSent' /\ FailsForCause'
    BY <1>1, <1>4, <1>8 DEF FTypes, GotIsSent, FailsForCause
  <1>10. Frames(stream, st)' /\ Greets(stream, st)'
    BY <1>1, <1>5, StreamStays
  <1>11. Stands(st, r)'
    BY <1>1, <1>5 DEF Stands
  <1>12. StreamIs(stream, st, r)'
    BY <1>5, <1>8, <1>10, <1>11 DEF StreamIs, Left, Remains, Lies
  <1> QED  BY <1>9, <1>12 DEF FrameInv

\* The connection is cut, a read at the end of it fails, or nothing happens.
LEMMA StillStep ==
    ASSUME FrameInv, Cut \/ ReadFails \/ UNCHANGED fvars
    PROVE  FrameInv'
  <1>1. PICK stream, st, r : StreamIs(stream, st, r)
    BY DEF FrameInv
  <1>2. FTypes /\ GotIsSent /\ FailsForCause
    BY DEF FrameInv
  <1>3. /\ UNCHANGED <<sent, flying, wire, header, magic, got>>
        /\ cut => cut'
        /\ phase' = phase \/ (phase' = "failed" /\ cut)
        /\ cut' = cut \/ magic # <<>>
    BY DEF Cut, ReadFails, fvars
  <1>4. FTypes' /\ GotIsSent' /\ FailsForCause'
    BY <1>2, <1>3 DEF FTypes, GotIsSent, FailsForCause
  <1>5. Frames(stream, st)' /\ Greets(stream, st)'
    <2>1. magic = <<>> => UNCHANGED <<phase, cut>>
      BY <1>1, <1>3 DEF StreamIs, Greets
    <2> QED  BY <1>1, <1>3, <2>1, StreamStays DEF StreamIs
  <1>6. Stands(st, r)'
    BY <1>1, <1>3 DEF StreamIs, Stands
  <1>7. StreamIs(stream, st, r)'
    BY <1>1, <1>3, <1>5, <1>6 DEF StreamIs, Left, Remains, Lies
  <1> QED  BY <1>4, <1>7 DEF FrameInv

\* The reader takes n bytes: what does not depend on its phase.
LEMMA ReadStep ==
    ASSUME FTypes, NEW stream, NEW st, NEW r, StreamIs(stream, st, r),
           NEW n \in Nat, n <= Len(wire), n # 0, wire' = Rest(wire, n),
           UNCHANGED <<sent, flying, cut, magic>>, Stands(st, r + n)'
    PROVE  /\ StreamIs(stream, st, r + n)' /\ wire' \in Seq(Nat) /\ magic # <<>>
  <1>1. /\ stream \in Seq(Nat) /\ r \in Nat /\ Frames(stream, st) /\ Greets(stream, st)
        /\ Left(stream, r)
    BY DEF StreamIs, Frames, Framed
  <1>2. wire' \in Seq(Nat) /\ Left(stream, r + n)'
    BY <1>1, ReadLeaves
  <1>3. magic # <<>>
    <2>1. Len(wire) \in Nat /\ Len(flying) \in Nat
      BY DEF FTypes
    <2>2. r + Len(wire) + Len(flying) = Len(stream)
      BY <1>1 DEF Left, Remains
    <2>3. Len(stream) # 0
      BY <1>1, <2>1, <2>2
    <2> QED  BY <1>1, <2>3 DEF Greets
  <1>4. Frames(stream, st)' /\ Greets(stream, st)'
    BY <1>1, <1>3, StreamStays
  <1>5. r + n \in Nat
    BY <1>1
  <1> QED  BY <1>2, <1>3, <1>4, <1>5 DEF StreamIs

LEMMA LiesThree ==
    ASSUME NEW x \in Seq(Nat), NEW y \in Seq(Nat), NEW h \in Seq(Nat), Len(x) = 4, Len(y) = 2,
           NEW stream \in Seq(Nat), Lies(x \o y \o h, stream, 0)
    PROVE  Lies(x, stream, 0) /\ Lies(y, stream, 4) /\ Lies(h, stream, 4 + 2)
  <1>1. x \o y \in Seq(Nat) /\ Len(x \o y) = 6
    BY ConcatOfThree
  <1>2. Lies(x \o y, stream, 0) /\ Lies(h, stream, 0 + Len(x \o y))
    BY <1>1, LiesConcat
  <1>3. Lies(x, stream, 0) /\ Lies(y, stream, 0 + Len(x))
    BY <1>2, LiesConcat
  <1>4. 0 + Len(x \o y) = 4 + 2 /\ 0 + Len(x) = 4
    BY <1>1
  <1> QED  BY <1>2, <1>3, <1>4

LEMMA HelloParts ==
    ASSUME FTypes, NEW stream \in Seq(Nat), NEW st, Greets(stream, st), magic # <<>>
    PROVE  /\ Lies(magic, stream, 0) /\ magic \in Seq(Nat) /\ Len(magic) = 4
           /\ \E h \in Hellos : /\ h \in Seq(Nat) /\ Len(h) < Limit(2)
                                /\ Lies(Prefix(2, Len(h)), stream, 4)
                                /\ Lies(h, stream, 4 + 2) /\ st[1] = 6 + Len(h)
  <1>1. PICK h \in Hellos : /\ Lies(magic \o ToU16(Len(h)) \o h, stream, 0)
                            /\ st[1] = 6 + Len(h)
    BY DEF Greets
  <1>2. /\ magic \in Seq(Nat) /\ Len(magic) = 4 /\ h \in Seq(Nat) /\ Len(h) < Base * Base
        /\ ToU16(Len(h)) \in Seq(Nat) /\ Len(ToU16(Len(h))) = 2
    BY MagicIs DEF FTypes
  <1>3. /\ Lies(magic, stream, 0) /\ Lies(ToU16(Len(h)), stream, 4)
        /\ Lies(h, stream, 4 + 2)
    BY <1>1, <1>2, LiesThree
  <1>4. Prefix(2, Len(h)) = ToU16(Len(h)) /\ Limit(2) = Base * Base
    BY DEF Prefix, Limit
  <1> QED  BY <1>1, <1>2, <1>3, <1>4

LEMMA MagicStep ==
    ASSUME FrameInv, ReceiveMagic
    PROVE  FrameInv'
  <1>1. /\ UNCHANGED <<sent, flying, cut, header, magic, got>> /\ phase = "magic"
        /\ Len(wire) >= 4 /\ wire' = Rest(wire, 4)
        /\ phase' = IF First(wire, 4) = HELLO_MAGIC THEN "hello" ELSE "failed"
    BY DEF ReceiveMagic, First, Rest
  <1>2. PICK stream, st, r : StreamIs(stream, st, r)
    BY DEF FrameInv
  <1>3. FTypes /\ GotIsSent /\ FailsForCause
    BY DEF FrameInv
  <1>4. r = 0 /\ got = <<>>
    BY <1>1, <1>2 DEF StreamIs, Stands
  <1>5. Stands(st, r + 4)'
    BY <1>1, <1>4 DEF Stands
  <1>6. StreamIs(stream, st, r + 4)' /\ wire' \in Seq(Nat) /\ magic # <<>>
    <2>1. 4 <= Len(wire)
      BY <1>1, <1>3 DEF FTypes
    <2> QED  BY <1>1, <1>2, <1>3, <1>5, <2>1, ReadStep
  <1>7. First(wire, 4) = magic
    <2>1. /\ stream \in Seq(Nat) /\ Lies(wire, stream, 0) /\ Greets(stream, st)
          /\ wire \in Seq(Nat) /\ 4 <= Len(wire)
      BY <1>1, <1>2, <1>3, <1>4 DEF StreamIs, Frames, Framed, Left, Remains, FTypes
    <2>2. Lies(magic, stream, 0) /\ magic \in Seq(Nat) /\ Len(magic) = 4
      BY <1>3, <1>6, <2>1, HelloParts
    <2>3. /\ First(wire, 4) \in Seq(Nat) /\ Len(First(wire, 4)) = 4
          /\ Lies(First(wire, 4), stream, 0)
      BY <2>1, FirstIs
    <2> QED  BY <2>1, <2>2, <2>3, LiesAgree
  <1>8. FailsForCause'
    <2>1. phase' = "failed" => magic = OtherMagic
      BY <1>1, <1>3, <1>6, <1>7 DEF FTypes
    <2> QED  BY <1>1, <2>1 DEF FailsForCause
  <1>9. FTypes' /\ GotIsSent'
    BY <1>1, <1>3, <1>6 DEF FTypes, GotIsSent
  <1> QED  BY <1>6, <1>8, <1>9 DEF FrameInv

LEMMA ReceiveHelloStep ==
    ASSUME FrameInv, ReceiveHello
    PROVE  FrameInv'
  <1>1. /\ UNCHANGED <<sent, flying, cut, header, magic, got>> /\ phase = "hello"
        /\ Prefixed(2) /\ wire' = RestAfter(2) /\ phase' = "header"
    BY DEF ReceiveHello
  <1>2. PICK stream, st, r : StreamIs(stream, st, r)
    BY DEF FrameInv
  <1>3. FTypes /\ GotIsSent /\ FailsForCause
    BY DEF FrameInv
  <1>4. r = 4 /\ got = <<>>
    BY <1>1, <1>2 DEF StreamIs, Stands
  <1>5. /\ stream \in Seq(Nat) /\ Lies(wire, stream, 4) /\ Greets(stream, st)
        /\ wire \in Seq(Nat)
    BY <1>2, <1>3, <1>4 DEF StreamIs, Frames, Framed, Left, Remains, FTypes
  <1>6. magic # <<>>
    BY <1>1, <1>5 DEF Greets
  <1>7. PICK h \in Hellos : /\ h \in Seq(Nat) /\ Len(h) < Limit(2)
                            /\ Lies(Prefix(2, Len(h)), stream, 4)
                            /\ Lies(h, stream, 4 + 2) /\ st[1] = 6 + Len(h)
    BY <1>3, <1>5, <1>6, HelloParts
  <1>8. 2 + Len(h) <= Len(wire) /\ RestAfter(2) = Rest(wire, 2 + Len(h))
    BY <1>1, <1>5, <1>7, ReadsPrefixed
  <1>9. 2 + Len(h) \in Nat /\ 2 + Len(h) # 0 /\ r + (2 + Len(h)) = st[1]
    BY <1>4, <1>7
  <1>10. Stands(st, r + (2 + Len(h)))'
    <2>1. Len(got) + 1 = 1
      BY <1>4
    <2> QED  BY <1>1, <1>9, <2>1 DEF Stands
  <1>11. StreamIs(stream, st, r + (2 + Len(h)))' /\ wire' \in Seq(Nat)
    BY <1>1, <1>2, <1>3, <1>8, <1>9, <1>10, ReadStep
  <1>12. FTypes' /\ GotIsSent' /\ FailsForCause'
    BY <1>1, <1>3, <1>11 DEF FTypes, GotIsSent, FailsForCause
  <1> QED  BY <1>11, <1>12 DEF FrameInv

\* The message after those that the reader has handed on.
LEMMA NextMessage ==
    ASSUME FTypes, GotIsSent, NEW stream, NEW st, Frames(stream, st), Len(got) < Len(sent),
           NEW m, m = sent[Len(got) + 1], NEW p, p = st[Len(got) + 1]
    PROVE  /\ m \in Outgoing /\ p \in Nat
           /\ Lies(EncodeForBep(m), stream, p)
           /\ st[Len(got) + 1 + 1] = p + Len(EncodeForBep(m))
  <1>1. PICK i : i = Len(got) + 1
    OBVIOUS
  <1>2. i \in 1..Len(sent) /\ i \in 1..(Len(sent) + 1)
    BY <1>1 DEF FTypes
  <1>3. m = sent[i] /\ p = st[i]
    BY <1>1
  <1>4. m \in Outgoing /\ p \in Nat
    <2>1. sent \in Seq(Outgoing) /\ st \in [1..(Len(sent) + 1) -> Nat]
      BY DEF FTypes, Frames, Framed
    <2>2. sent[i] \in Outgoing
      BY <1>2, <2>1, ElementOfSeq
    <2>3. st[i] \in Nat
      BY <1>2, <2>1
    <2> QED  BY <1>3, <2>2, <2>3
  <1>5. Lies(EncodeForBep(m), stream, p) /\ st[i + 1] = p + Len(EncodeForBep(m))
    BY <1>2, <1>3 DEF Frames, Framed
  <1> QED  BY <1>1, <1>4, <1>5

LEMMA HeaderStep ==
    ASSUME FrameInv, ReadFrameHeader
    PROVE  FrameInv'
  <1>1. /\ UNCHANGED <<sent, flying, cut, magic, got>> /\ phase = "header"
        /\ Prefixed(2) /\ wire' = RestAfter(2) /\ header' = DecodeHeader(Payload(2))
        /\ phase' = IF header'.compression \in {None, Lz4} /\ header'.type \in Known
                    THEN "message" ELSE "failed"
    BY DEF ReadFrameHeader
  <1>2. PICK stream, st, r : StreamIs(stream, st, r)
    BY DEF FrameInv
  <1>3. FTypes /\ GotIsSent /\ FailsForCause
    BY DEF FrameInv
  <1>4. r = st[Len(got) + 1]
    BY <1>1, <1>2 DEF StreamIs, Stands
  <1>5. /\ stream \in Seq(Nat) /\ Lies(wire, stream, r) /\ Frames(stream, st)
        /\ wire \in Seq(Nat) /\ r \in Nat /\ st[Len(sent) + 1] = Len(stream)
        /\ r + Len(wire) + Len(flying) = Len(stream)
    BY <1>2, <1>3 DEF StreamIs, Frames, Framed, Left, Remains, FTypes
  <1>6. Len(got) < Len(sent)
    <2>1. Len(got) \in Nat /\ Len(sent) \in Nat /\ Len(got) <= Len(sent)
      BY <1>3 DEF FTypes, GotIsSent
    <2>2. Len(wire) \in Nat /\ Len(wire) >= 2 /\ Len(flying) \in Nat
      BY <1>1, <1>3 DEF FTypes, Prefixed
    <2>3. r # Len(stream)
      BY <1>5, <2>2
    <2>4. Len(got) # Len(sent)
      BY <1>4, <1>5, <2>3
    <2> QED  BY <2>1, <2>4
  <1>7. PICK m : m = sent[Len(got) + 1]
    OBVIOUS
  <1>8. m \in Outgoing /\ Lies(EncodeForBep(m), stream, r)
    BY <1>3, <1>4, <1>5, <1>6, <1>7, NextMessage
  <1>9. PICK x : x = EncodeHeader(m)
    OBVIOUS
  <1>10. /\ m \in Message /\ x \in Seq(Nat) /\ Len(x) \in Nat /\ Len(x) < Limit(2)
         /\ DecodeHeader(x) = [type |-> m.type, compression |-> m.compression]
    <2>1. /\ m \in Message /\ EncodeHeader(m) \in Seq(Nat)
          /\ Len(EncodeHeader(m)) \in Nat /\ Len(EncodeHeader(m)) < Base * Base
      BY <1>8, OutgoingIsMessage
    <2>2. DecodeHeader(EncodeHeader(m)) = [type |-> m.type, compression |-> m.compression]
      BY <2>1, HeaderRoundTrip
    <2> QED  BY <1>9, <2>1, <2>2 DEF Limit
  <1>11. Lies(Prefix(2, Len(x)), stream, r) /\ Lies(x, stream, r + 2)
    BY <1>5, <1>8, <1>9, FrameParts
  <1>12. /\ Payload(2) = x /\ 2 + Len(x) <= Len(wire)
         /\ RestAfter(2) = Rest(wire, 2 + Len(x))
    BY <1>1, <1>5, <1>10, <1>11, ReadsPrefixed
  <1>13. header' = [type |-> m.type, compression |-> m.compression]
    BY <1>1, <1>10, <1>12
  <1>14. 2 + Len(x) \in Nat /\ 2 + Len(x) # 0 /\ r + (2 + Len(x)) = r + 2 + Len(x)
    BY <1>5, <1>10
  <1>15. Stands(st, r + (2 + Len(x)))'
    <2>1. phase' \in {"message", "failed"}
      BY <1>1
    <2> QED  BY <1>1, <1>4, <1>6, <1>7, <1>9, <1>13, <1>14, <2>1 DEF Stands
  <1>16. StreamIs(stream, st, r + (2 + Len(x)))' /\ wire' \in Seq(Nat)
    BY <1>1, <1>2, <1>3, <1>12, <1>14, <1>15, ReadStep
  <1>17. FTypes' /\ GotIsSent'
    BY <1>1, <1>3, <1>16 DEF FTypes, GotIsSent
  <1>18. FailsForCause'
    <2>1. phase' = "failed" => m.type \notin Known \/ m.compression \notin {None, Lz4}
      BY <1>1, <1>13
    <2>2. Len(sent) > Len(got)
      BY <1>3, <1>6 DEF FTypes
    <2> QED  BY <1>1, <1>7, <2>1, <2>2 DEF FailsForCause
  <1> QED  BY <1>16, <1>17, <1>18 DEF FrameInv

LEMMA MessageStep ==
    ASSUME FrameInv, ReceiveMessage
    PROVE  FrameInv'
  <1> DEFINE body == IF header.compression = Lz4 THEN Decompressed(Payload(4))
                     ELSE Payload(4)
             new == [type |-> header.type, compression |-> header.compression,
                     body |-> body]
  <1>1. /\ UNCHANGED <<sent, flying, cut, header, magic>> /\ phase = "message"
        /\ Prefixed(4) /\ wire' = RestAfter(4) /\ got' = Append(got, new)
        /\ phase' = IF header.type = Close THEN "closed" ELSE "header"
    BY DEF ReceiveMessage
  <1> HIDE DEF new
  <1>2. PICK stream, st, r : StreamIs(stream, st, r)
    BY DEF FrameInv
  <1>3. FTypes /\ GotIsSent /\ FailsForCause
    BY DEF FrameInv
  <1>4. PICK m, p : m = sent[Len(got) + 1] /\ p = st[Len(got) + 1]
    OBVIOUS
  <1>5. /\ Len(got) < Len(sent) /\ r = p + 2 + Len(EncodeHeader(m))
        /\ header = [type |-> m.type, compression |-> m.compression]
    BY <1>1, <1>2, <1>4 DEF StreamIs, Stands
  <1>6. /\ stream \in Seq(Nat) /\ Lies(wire, stream, r) /\ Frames(stream, st)
        /\ wire \in Seq(Nat) /\ r \in Nat
    BY <1>2, <1>3 DEF StreamIs, Frames, Framed, Left, Remains, FTypes
  <1>7. /\ m \in Outgoing /\ p \in Nat /\ Lies(EncodeForBep(m), stream, p)
        /\ st[Len(got) + 1 + 1] = p + Len(EncodeForBep(m))
    BY <1>3, <1>4, <1>5, <1>6, NextMessage
  <1>8. PICK x : x = Body(m)
    OBVIOUS
  <1>9. /\ m \in Message /\ x \in Seq(Nat) /\ Len(x) \in Nat /\ Len(x) < Limit(4)
        /\ Len(EncodeHeader(m)) \in Nat
    BY <1>7, <1>8, OutgoingIsMessage DEF Limit
  <1>10. Lies(Prefix(4, Len(x)), stream, r) /\ Lies(x, stream, r + 4)
    BY <1>5, <1>6, <1>7, <1>8, FrameParts
  <1>11. /\ Payload(4) = x /\ 4 + Len(x) <= Len(wire)
         /\ RestAfter(4) = Rest(wire, 4 + Len(x))
    BY <1>1, <1>6, <1>9, <1>10, ReadsPrefixed
  <1>12. new = m
    <2>1. body = m.body
      BY <1>5, <1>8, <1>9, <1>11, BodyRoundTrip
    <2> HIDE DEF body
    <2>2. new = [type |-> m.type, compression |-> m.compression, body |-> m.body]
      BY <1>5, <2>1 DEF new
    <2> QED  BY <1>9, <2>2 DEF Message
  <1>13. /\ got' \in Seq(Message) /\ Len(got') = Len(got) + 1 /\ got'[Len(got) + 1] = m
         /\ \A i \in 1..Len(got) : got'[i] = got[i]
    BY <1>1, <1>3, <1>9, <1>12, AppendProperties DEF FTypes
  <1>14. GotIsSent'
    <2>1. Len(got) \in Nat /\ Len(sent) \in Nat
      BY <1>3 DEF FTypes
    <2>2. Len(got) + 1 <= Len(sent)
      BY <1>5, <2>1
    <2>3. ASSUME NEW i \in 1..(Len(got) + 1) PROVE got'[i] = sent[i]
      <3>1. CASE i \in 1..Len(got)
        BY <1>3, <1>13, <3>1 DEF GotIsSent
      <3>2. CASE i = Len(got) + 1
        BY <1>4, <1>13, <3>2
      <3> QED  BY <2>1, <3>1, <3>2
    <2> QED  BY <1>1, <1>13, <2>2, <2>3 DEF GotIsSent
  <1>15. /\ 4 + Len(x) \in Nat /\ 4 + Len(x) # 0
         /\ r + (4 + Len(x)) = st[Len(got) + 1 + 1]
    <2>1. Len(EncodeForBep(m)) = 6 + Len(EncodeHeader(m)) + Len(x)
      BY <1>7, <1>8, FrameIs
    <2> QED  BY <1>5, <1>7, <1>9, <2>1
  <1>16. Stands(st, r + (4 + Len(x)))'
    <2>1. phase' \in {"header", "closed"}
      BY <1>1
    <2> QED  BY <1>13, <1>15, <2>1 DEF Stands
  <1>17. StreamIs(stream, st, r + (4 + Len(x)))' /\ wire' \in Seq(Nat)
    BY <1>1, <1>2, <1>3, <1>11, <1>15, <1>16, ReadStep
  <1>18. FTypes'
    BY <1>1, <1>3, <1>13, <1>17 DEF FTypes
  <1>19. FailsForCause'
    BY <1>1 DEF FailsForCause
  <1> QED  BY <1>14, <1>17, <1>18, <1>19 DEF FrameInv
-----------------------------------------------------------------------------
LEMMA NextFrame == FrameInv /\ [FNext]_fvars => FrameInv'
  BY HelloStep, SendStep, DeliverStep, StillStep, MagicStep, ReceiveHelloStep, HeaderStep,
     MessageStep DEF FNext

LEMMA FrameInvariant == FSpec => []FrameInv
  BY InitFrame, NextFrame, PTL DEF FSpec

\* What the reader hands on is what the peer has sent, in order and without a
\* gap, for every base, Hello and message whose length fits, and however the
\* stream is cut into pieces or ends (receive_message, encode_for_bep).
THEOREM ReadIsSent == FSpec => []ReadsWhatWasSent
  <1>1. ASSUME FrameInv PROVE ReadsWhatWasSent
    <2>1. /\ Len(got) \in Nat /\ Len(sent) \in Nat /\ Len(got) <= Len(sent)
          /\ got \in Seq(Message) /\ sent \in Seq(Outgoing)
          /\ \A i \in 1..Len(got) : got[i] = sent[i]
      BY <1>1 DEF FrameInv, FTypes, GotIsSent
    <2>2. PICK n \in Nat : n = Len(got)
      BY <2>1
    <2>3. PICK t : t = SubSeq(sent, 1, n)
      OBVIOUS
    <2>4. \A i \in 1..n : sent[i] \in Outgoing
      BY <2>1, <2>2
    <2>5. /\ t \in Seq(Outgoing) /\ Len(t) = n
          /\ \A i \in 1..n : t[i] = sent[i]
      BY <2>2, <2>3, <2>4, SubSeqProperties
    <2>6. Outgoing \subseteq Message
      BY FramingAssumption DEF Message
    <2>7. t \in Seq(Message)
      BY <2>5, <2>6
    <2>8. got = t
      BY <2>1, <2>2, <2>5, <2>7, SeqEqual
    <2> QED  BY <2>1, <2>2, <2>3, <2>8 DEF ReadsWhatWasSent
  <1> QED  BY <1>1, FrameInvariant, PTL

\* handle_reading gives up only when the stream has ended, when the peer speaks
\* another protocol, or at a message whose header it does not know.
THEOREM FailsOnlyForCause == FSpec => []FailsForCause
  <1>1. FrameInv => FailsForCause
    BY DEF FrameInv
  <1> QED  BY <1>1, FrameInvariant, PTL

(***************************************************************************)
(*                              Device ids                                 *)
(***************************************************************************)

Alpha == Range(LUHN32)
Chars == Alpha \cup {Unknown, Dash}

(***************************************************************************)
(* Numbers.                                                                *)
(***************************************************************************)

\* Numbers that are less than b apart have different remainders.
LEMMA RemaindersDiffer ==
    ASSUME NEW b \in Nat \ {0}, NEW x \in Nat, NEW y \in Nat, x < y, y < x + b
    PROVE  x % b # y % b
  <1>1. PICK p \in Nat, r \in 0..(b - 1) : x = b * p + r /\ x % b = r
    BY DivisionIs
  <1>2. PICK q \in Nat, t \in 0..(b - 1) : y = b * q + t /\ y % b = t
    BY DivisionIs
  <1> SUFFICES ASSUME r = t PROVE FALSE
    BY <1>1, <1>2
  <1>3. b * p \in Nat /\ b * q \in Nat
    OBVIOUS
  <1>4. b * p < b * q /\ b * q < b * p + b
    BY <1>1, <1>2, <1>3
  <1>5. b * p + b = b * (p + 1)
    OBVIOUS
  <1>6. CASE q <= p
    <2>1. b * q <= b * p
      BY <1>6
    <2> QED  BY <1>3, <1>4, <2>1
  <1>7. CASE q >= p + 1
    <2>1. b * q >= b * (p + 1)
      BY <1>7
    <2> QED  BY <1>3, <1>4, <1>5, <2>1
  <1> QED  BY <1>6, <1>7

(***************************************************************************)
(* Characters.                                                             *)
(***************************************************************************)
LEMMA AlphabetIs ==
    /\ N \in Nat \ {0} /\ N % 2 = 0 /\ LUHN32 \in Seq(Alpha)
    /\ \A i \in 1..N : LUHN32[i] \in Alpha
    /\ \A i, j \in 1..N : LUHN32[i] = LUHN32[j] => i = j
    /\ \A c \in Alpha : \E i \in 1..N : LUHN32[i] = c
    /\ Dash \notin Alpha /\ Unknown \notin Alpha
  <1>1. LUHN32 \in Seq(Alpha) /\ N \in Nat /\ N > 0 /\ N % 2 = 0 /\ DOMAIN LUHN32 = 1..N
    BY IdAssumption DEF Alpha, N
  <1>2. \A i, j \in 1..N : LUHN32[i] = LUHN32[j] => i = j
    BY <1>1, IdAssumption DEF IsInjective
  <1>3. \A c \in Alpha : \E i \in 1..N : LUHN32[i] = c
    BY <1>1 DEF Alpha, Range
  <1>4. Dash \notin Alpha /\ Unknown \notin Alpha
    BY IdAssumption DEF Alpha
  <1> QED  BY <1>1, <1>2, <1>3, <1>4

LEMMA CodepointIs ==
    ASSUME NEW c \in Alpha
    PROVE  Codepoint32(c) \in 0..(N - 1) /\ LUHN32[Codepoint32(c) + 1] = c
  <1>1. PICK i : i = CHOOSE k \in 1..N : LUHN32[k] = c
    OBVIOUS
  <1>2. i \in 1..N /\ LUHN32[i] = c
    BY <1>1, AlphabetIs
  <1>3. Codepoint32(c) = i - 1
    BY <1>1 DEF Codepoint32
  <1>4. N \in Nat
    BY AlphabetIs
  <1>5. (i - 1) + 1 = i /\ i - 1 \in 0..(N - 1)
    BY <1>2, <1>4
  <1> QED  BY <1>2, <1>3, <1>5

LEMMA CodepointInverts ==
    ASSUME NEW g \in 0..(N - 1)
    PROVE  LUHN32[g + 1] \in Alpha /\ Codepoint32(LUHN32[g + 1]) = g
  <1>1. N \in Nat /\ g + 1 \in 1..N
    BY AlphabetIs
  <1>2. LUHN32[g + 1] \in Alpha
    BY <1>1, AlphabetIs
  <1>3. PICK h : h = Codepoint32(LUHN32[g + 1])
    OBVIOUS
  <1>4. h \in 0..(N - 1) /\ LUHN32[h + 1] = LUHN32[g + 1]
    BY <1>2, <1>3, CodepointIs
  <1>5. h + 1 = g + 1
    <2>1. h + 1 \in 1..N
      BY <1>1, <1>4
    <2> QED  BY <1>1, <1>4, <2>1, AlphabetIs
  <1> QED  BY <1>1, <1>2, <1>3, <1>4, <1>5

\* The sum of the digits of twice a number to an even base.
LEMMA DoubledIs ==
    ASSUME NEW n \in Nat \ {0}, n % 2 = 0, NEW c \in 0..(n - 1)
    PROVE  ((2 * c) \div n) + ((2 * c) % n) = IF 2 * c < n THEN 2 * c ELSE 2 * c - n + 1
  <1>1. CASE 2 * c < n
    <2>1. (2 * c) \div n = 0 /\ (2 * c) % n = 2 * c
      <3>1. 2 * c \in 0..(n - 1) /\ 2 * c = n * 0 + 2 * c
        BY <1>1
      <3> QED  BY <3>1, DivisionIsUnique
    <2> QED  BY <1>1, <2>1
  <1>2. CASE ~(2 * c < n)
    <2>1. (2 * c) \div n = 1 /\ (2 * c) % n = 2 * c - n
      <3>1. 2 * c - n \in 0..(n - 1) /\ 2 * c = n * 1 + (2 * c - n)
        BY <1>2
      <3> QED  BY <3>1, DivisionIsUnique
    <2> QED  BY <1>2, <2>1
  <1> QED  BY <1>1, <1>2

LEMMA DoubledDiffer ==
    ASSUME NEW n \in Nat \ {0}, n % 2 = 0, NEW c \in 0..(n - 1), NEW d \in 0..(n - 1), c # d
    PROVE  (IF 2 * c < n THEN 2 * c ELSE 2 * c - n + 1)
              # (IF 2 * d < n THEN 2 * d ELSE 2 * d - n + 1)
  <1>1. PICK h \in Nat : n = 2 * h
    BY DivisionIs
  <1> QED  BY <1>1

LEMMA AddendIs ==
    ASSUME NEW i \in Nat, NEW c \in Alpha
    PROVE  /\ Addend(i, c) \in 0..(N - 1)
           /\ \A d \in Alpha : c # d => Addend(i, c) # Addend(i, d)
  <1>1. N \in Nat \ {0} /\ N % 2 = 0
    BY AlphabetIs
  <1>2. ASSUME NEW d \in Alpha
        PROVE  /\ Codepoint32(d) \in 0..(N - 1)
               /\ i % 2 = 1 => Addend(i, d) = Codepoint32(d)
               /\ i % 2 # 1 => Addend(i, d) =
                     IF 2 * Codepoint32(d) < N THEN 2 * Codepoint32(d)
                     ELSE 2 * Codepoint32(d) - N + 1
    <2>1. PICK e : e = Codepoint32(d)
      OBVIOUS
    <2>2. e \in 0..(N - 1)
      BY <2>1, CodepointIs
    <2>3. CASE i % 2 = 1
      <3>1. e \div N = 0 /\ e % N = e
        <4>1. e \in Nat /\ e = N * 0 + e
          BY <1>1, <2>2
        <4> QED  BY <1>1, <2>2, <4>1, DivisionIsUnique
      <3>2. Addend(i, d) = (e \div N) + (e % N)
        BY <2>1, <2>2, <2>3 DEF Addend
      <3> QED  BY <2>1, <2>2, <2>3, <3>1, <3>2
    <2>4. CASE i % 2 # 1
      <3>1. Addend(i, d) = ((2 * e) \div N) + ((2 * e) % N)
        BY <2>1, <2>4 DEF Addend
      <3> QED  BY <1>1, <2>1, <2>2, <2>4, <3>1, DoubledIs
    <2> QED  BY <2>3, <2>4
  <1>3. Addend(i, c) \in 0..(N - 1)
    BY <1>1, <1>2
  <1>4. ASSUME NEW d \in Alpha, c # d PROVE Addend(i, c) # Addend(i, d)
    <2>1. PICK e, f : e = Codepoint32(c) /\ f = Codepoint32(d)
      OBVIOUS
    <2>2. e \in 0..(N - 1) /\ f \in 0..(N - 1) /\ e # f
      BY <1>4, <2>1, CodepointIs
    <2>3. CASE i % 2 = 1
      BY <1>2, <2>1, <2>2, <2>3
    <2>4. CASE i % 2 # 1
      BY <1>1, <1>2, <2>1, <2>2, <2>4, DoubledDiffer
    <2> QED  BY <2>3, <2>4
  <1> QED  BY <1>3, <1>4

(***************************************************************************)
(* Check characters.                                                       *)
(***************************************************************************)

\* Induction over a set of numbers.
LEMMA Climb ==
    ASSUME NEW n \in Nat, NEW T, 0 \in T,
           \A k \in 0..(n - 1) : k \in T => k + 1 \in T
    PROVE  \A k \in 0..n : k \in T
  <1> DEFINE F == {k \in 0..n : k \notin T}
  <1> SUFFICES ASSUME F # {} PROVE FALSE
    OBVIOUS
  <1>1. F \in SUBSET Nat
    OBVIOUS
  <1>2. PICK k \in F : \A m \in F : k <= m
    <2> HIDE DEF F
    <2> QED  BY <1>1, LeastNumber
  <1>3. k \in 0..n /\ k \notin T /\ k # 0
    OBVIOUS
  <1>4. k - 1 \in 0..(n - 1) /\ k - 1 \in 0..n /\ (k - 1) + 1 = k /\ ~(k <= k - 1)
    BY <1>3
  <1>5. k - 1 \in T
    BY <1>2, <1>4
  <1>6. (k - 1) + 1 \in T
    BY <1>4, <1>5
  <1> QED  BY <1>3, <1>4, <1>6

Adds(f, n, a) == f[0] = 0 /\ \A k \in 1..n : f[k] = f[k - 1] + a[k]

LEMMA SumsExist ==
    ASSUME NEW n \in Nat, NEW a \in [1..n -> Nat]
    PROVE  \E f \in [0..n -> Nat] : Adds(f, n, a)
  <1> DEFINE T == {m \in 0..n : \E f \in [0..m -> Nat] : Adds(f, m, a)}
  <1>1. 0 \in T
    <2>1. [k \in 0..0 |-> 0] \in [0..0 -> Nat] /\ Adds([k \in 0..0 |-> 0], 0, a)
      BY DEF Adds
    <2>2. 0 \in 0..n
      OBVIOUS
    <2> QED  BY <2>1, <2>2
  <1>2. ASSUME NEW m \in 0..(n - 1), m \in T PROVE m + 1 \in T
    <2>1. PICK f \in [0..m -> Nat] : Adds(f, m, a)
      BY <1>2
    <2>2. PICK g : g = [k \in 0..(m + 1) |-> IF k = m + 1 THEN f[m] + a[m + 1] ELSE f[k]]
      OBVIOUS
    <2>3. m \in 0..m /\ m + 1 \in 1..n /\ m + 1 \in 0..n
      OBVIOUS
    <2>4. f[m] \in Nat /\ a[m + 1] \in Nat
      BY <2>3
    <2>5. g \in [0..(m + 1) -> Nat] /\ (\A k \in 0..m : g[k] = f[k])
          /\ g[m + 1] = f[m] + a[m + 1]
      BY <2>2, <2>4
    <2>6. ASSUME NEW k \in 1..(m + 1) PROVE g[k] = g[k - 1] + a[k]
      <3>1. CASE k \in 1..m
        <4>1. k \in 0..m /\ k - 1 \in 0..m
          BY <3>1
        <4> QED  BY <2>1, <2>5, <3>1, <4>1 DEF Adds
      <3>2. CASE k = m + 1
        <4>1. k - 1 = m
          BY <3>2
        <4> QED  BY <2>3, <2>5, <3>2, <4>1
      <3> QED  BY <3>1, <3>2
    <2>7. g[0] = 0
      <3>1. 0 \in 0..m
        OBVIOUS
      <3> QED  BY <2>1, <2>5, <3>1 DEF Adds
    <2>8. Adds(g, m + 1, a)
      BY <2>6, <2>7 DEF Adds
    <2> QED  BY <2>3, <2>5, <2>8
  <1>3. n \in T
    <2>1. n \in 0..n
      OBVIOUS
    <2> HIDE DEF T
    <2> QED  BY <1>1, <1>2, <2>1, Climb
  <1> QED  BY <1>3

Addends(s) == [k \in 1..Len(s) |-> Addend(k, s[k])]

LEMMA AddendsAre ==
    ASSUME NEW s \in Seq(Alpha)
    PROVE  Len(s) \in Nat /\ Addends(s) \in [1..Len(s) -> Nat]
  <1>1. ASSUME NEW k \in 1..Len(s) PROVE Addend(k, s[k]) \in Nat
    <2>1. s[k] \in Alpha /\ k \in Nat
      OBVIOUS
    <2>2. Addend(k, s[k]) \in 0..(N - 1)
      BY <2>1, AddendIs
    <2> QED  BY <2>2, AlphabetIs
  <1> QED  BY <1>1 DEF Addends

\* The recursive definition in syncthing_luhn32's loop is what it says.
LEMMA SumsAre ==
    ASSUME NEW s \in Seq(Alpha)
    PROVE  Sums(s) \in [0..Len(s) -> Nat] /\ Adds(Sums(s), Len(s), Addends(s))
  <1> DEFINE D(f) == [k \in 0..Len(s) |->
                        IF k = 0 THEN 0 ELSE f[k - 1] + Addend(k, s[k])]
  <1>1. Sums(s) = CHOOSE f : f = D(f)
    BY DEF Sums
  <1>2. PICK n \in Nat : n = Len(s)
    OBVIOUS
  <1>3. \E f : f = D(f)
    <2>1. PICK f \in [0..n -> Nat] : Adds(f, n, Addends(s))
      BY <1>2, AddendsAre, SumsExist
    <2>2. \A k \in 0..n : f[k] = IF k = 0 THEN 0 ELSE f[k - 1] + Addend(k, s[k])
      BY <1>2, <2>1 DEF Adds, Addends
    <2>3. f = D(f)
      BY <1>2, <2>1, <2>2
    <2> QED  BY <2>3
  <1>4. Sums(s) = D(Sums(s))
    <2> HIDE DEF D
    <2> QED  BY <1>1, <1>3
  <1>5. PICK f : f = Sums(s)
    OBVIOUS
  <1>6. f = D(f)
    BY <1>4, <1>5
  <1>7. /\ DOMAIN f = 0..n /\ f = [k \in 0..n |-> f[k]] /\ f[0] = 0
        /\ \A k \in 1..n : f[k] = f[k - 1] + Addend(k, s[k])
    BY <1>2, <1>6
  <1>8. Adds(f, n, Addends(s))
    BY <1>2, <1>7 DEF Adds, Addends
  <1>9. f \in [0..n -> Nat]
    <2> DEFINE T == {k \in 0..n : f[k] \in Nat}
    <2>1. 0 \in T
      BY <1>7
    <2>2. ASSUME NEW k \in 0..(n - 1), k \in T PROVE k + 1 \in T
      <3>1. k + 1 \in 1..n /\ (k + 1) - 1 = k /\ k + 1 \in 0..n
        OBVIOUS
      <3>2. Addends(s)[k + 1] \in Nat
        BY <1>2, <3>1, AddendsAre
      <3>3. f[k + 1] = f[k] + Addends(s)[k + 1]
        BY <1>8, <3>1 DEF Adds
      <3> QED  BY <2>2, <3>1, <3>2, <3>3
    <2>3. \A k \in 0..n : k \in T
      <3> HIDE DEF T
      <3> QED  BY <2>1, <2>2, Climb
    <2> QED  BY <1>7, <2>3
  <1> QED  BY <1>2, <1>5, <1>8, <1>9

\* Two parts that differ in one place have sums that differ as much as the
\* addends of that place.
LEMMA SumsDiffer ==
    ASSUME NEW n \in Nat, NEW a \in [1..n -> Nat], NEW b \in [1..n -> Nat],
           NEW j \in 1..n, \A i \in 1..n : i # j => a[i] = b[i],
           NEW f \in [0..n -> Nat], Adds(f, n, a), NEW g \in [0..n -> Nat], Adds(g, n, b)
    PROVE  f[n] + b[j] = g[n] + a[j]
  <1> DEFINE Same(k) == f[k] = g[k]
             Apart(k) == f[k] + b[j] = g[k] + a[j]
             T == {k \in 0..n : (k < j => Same(k)) /\ (k >= j => Apart(k))}
  <1>1. 0 \in T
    BY DEF Adds
  <1>2. ASSUME NEW k \in 0..(n - 1), k \in T PROVE k + 1 \in T
    <2>1. /\ k + 1 \in 1..n /\ k + 1 \in 0..n /\ (k + 1) - 1 = k /\ k \in 0..n
      OBVIOUS
    <2>2. f[k + 1] = f[k] + a[k + 1] /\ g[k + 1] = g[k] + b[k + 1]
      BY <2>1 DEF Adds
    <2>3. /\ f[k] \in Nat /\ g[k] \in Nat /\ a[k + 1] \in Nat /\ b[k + 1] \in Nat
          /\ a[j] \in Nat /\ b[j] \in Nat /\ f[k + 1] \in Nat /\ g[k + 1] \in Nat
      BY <2>1
    <2> DEFINE u == f[k]
               v == g[k]
               x == f[k + 1]
               y == g[k + 1]
               p == a[k + 1]
               q == b[k + 1]
               c == a[j]
               d == b[j]
    <2>4. x = u + p /\ y = v + q
      BY <2>2
    <2>5. /\ u \in Nat /\ v \in Nat /\ x \in Nat /\ y \in Nat
          /\ p \in Nat /\ q \in Nat /\ c \in Nat /\ d \in Nat
      BY <2>3
    <2>6. (k < j => u = v) /\ (k >= j => u + d = v + c)
      BY <1>2
    <2>7. (k + 1 # j => p = q) /\ (k + 1 = j => p = c /\ q = d)
      BY <2>1
    <2> HIDE DEF u, v, x, y, p, q, c, d
    <2>8. (k + 1 < j => x = y) /\ (k + 1 >= j => x + d = y + c)
      BY <2>4, <2>5, <2>6, <2>7
    <2>9. (k + 1 < j => Same(k + 1)) /\ (k + 1 >= j => Apart(k + 1))
      BY <2>8 DEF x, y, c, d
    <2> QED  BY <2>1, <2>9
  <1>3. n \in T
    <2>1. n \in 0..n
      OBVIOUS
    <2> HIDE DEF T
    <2> QED  BY <1>1, <1>2, <2>1, Climb
  <1> QED  BY <1>3

Index(x) == ((N - (x % N)) % N) + 1

LEMMA IndexIs ==
    ASSUME NEW x \in Nat
    PROVE  /\ Index(x) \in 1..N
           /\ Index(x) = IF x % N = 0 THEN 1 ELSE N - (x % N) + 1
  <1>1. N \in Nat \ {0}
    BY AlphabetIs
  <1>2. PICK r \in 0..(N - 1) : r = x % N
    BY <1>1, DivisionIs
  <1>3. CASE r = 0
    <2>1. N % N = 0
      <3>1. N = N * 1 + 0 /\ 0 \in 0..(N - 1)
        BY <1>1
      <3> QED  BY <1>1, <3>1, DivisionIsUnique
    <2> QED  BY <1>1, <1>2, <1>3, <2>1 DEF Index
  <1>4. CASE r # 0
    <2>1. (N - r) % N = N - r
      <3>1. N - r = N * 0 + (N - r) /\ N - r \in 0..(N - 1) /\ N - r \in Nat
        BY <1>1, <1>4
      <3> QED  BY <1>1, <3>1, DivisionIsUnique
    <2> QED  BY <1>1, <1>2, <1>4, <2>1 DEF Index
  <1> QED  BY <1>3, <1>4

LEMMA CheckIs ==
    ASSUME NEW s \in Seq(Alpha)
    PROVE  /\ SyncthingLuhn32(s) = LUHN32[Index(Sums(s)[Len(s)])]
           /\ Sums(s)[Len(s)] \in Nat /\ SyncthingLuhn32(s) \in Alpha
  <1>1. Sums(s)[Len(s)] \in Nat
    <2>1. Len(s) \in 0..Len(s)
      OBVIOUS
    <2> QED  BY <2>1, SumsAre
  <1>2. SyncthingLuhn32(s) = LUHN32[Index(Sums(s)[Len(s)])]
    BY DEF SyncthingLuhn32, Index
  <1>3. Index(Sums(s)[Len(s)]) \in 1..N
    BY <1>1, IndexIs
  <1> QED  BY <1>1, <1>2, <1>3, AlphabetIs

\* The check character tells apart what differs in one place.
LEMMA CheckDiffers ==
    ASSUME NEW s \in Seq(Alpha), NEW t \in Seq(Alpha), Len(s) = Len(t),
           NEW j \in 1..Len(s), s[j] # t[j],
           \A i \in 1..Len(s) : i # j => s[i] = t[i]
    PROVE  SyncthingLuhn32(s) # SyncthingLuhn32(t)
  <1> DEFINE x == Sums(s)[Len(s)]
             y == Sums(t)[Len(t)]
             a == Addends(s)
             b == Addends(t)
  <1>1. x \in Nat /\ y \in Nat
    BY CheckIs
  <1>2. PICK n \in Nat : n = Len(s)
    OBVIOUS
  <1>3. /\ a \in [1..n -> Nat] /\ b \in [1..n -> Nat]
        /\ a[j] \in 0..(N - 1) /\ b[j] \in 0..(N - 1) /\ a[j] # b[j]
        /\ \A i \in 1..n : i # j => a[i] = b[i]
    <2>1. a \in [1..n -> Nat] /\ b \in [1..n -> Nat]
      BY <1>2, AddendsAre
    <2>2. a[j] = Addend(j, s[j]) /\ b[j] = Addend(j, t[j])
      BY DEF Addends
    <2>3. s[j] \in Alpha /\ t[j] \in Alpha /\ j \in Nat
      OBVIOUS
    <2>4. a[j] \in 0..(N - 1) /\ b[j] \in 0..(N - 1) /\ a[j] # b[j]
      BY <2>2, <2>3, AddendIs
    <2>5. \A i \in 1..n : i # j => a[i] = b[i]
      BY <1>2 DEF Addends
    <2> QED  BY <2>1, <2>4, <2>5
  <1>4. x + b[j] = y + a[j]
    <2>1. /\ Sums(s) \in [0..n -> Nat] /\ Adds(Sums(s), n, a)
          /\ Sums(t) \in [0..n -> Nat] /\ Adds(Sums(t), n, b)
      BY <1>2, SumsAre
    <2>2. x = Sums(s)[n] /\ y = Sums(t)[n] /\ j \in 1..n
      BY <1>2
    <2> HIDE DEF x, y, a, b
    <2> QED  BY <1>3, <2>1, <2>2, SumsDiffer
  <1>5. SyncthingLuhn32(s) = LUHN32[Index(x)] /\ SyncthingLuhn32(t) = LUHN32[Index(y)]
    BY CheckIs
  <1> HIDE DEF x, y, a, b
  <1>6. N \in Nat \ {0}
    BY AlphabetIs
  <1>7. (x < y /\ y < x + N) \/ (y < x /\ x < y + N)
    <2>1. PICK u \in 0..(N - 1), v \in 0..(N - 1) : u = a[j] /\ v = b[j]
      BY <1>3
    <2>2. x + v = y + u /\ u # v
      BY <1>3, <1>4, <2>1
    <2> QED  BY <1>1, <1>6, <2>2
  <1>8. x % N # y % N
    BY <1>1, <1>6, <1>7, RemaindersDiffer
  <1>9. Index(x) # Index(y)
    <2>1. PICK u \in 0..(N - 1), v \in 0..(N - 1) : u = x % N /\ v = y % N
      BY <1>1, <1>6, DivisionIs
    <2>2. /\ Index(x) = IF u = 0 THEN 1 ELSE N - u + 1
          /\ Index(y) = IF v = 0 THEN 1 ELSE N - v + 1
      BY <1>1, <2>1, IndexIs
    <2> QED  BY <1>6, <1>8, <2>1, <2>2
  <1>10. Index(x) \in 1..N /\ Index(y) \in 1..N
    BY <1>1, IndexIs
  <1> QED  BY <1>5, <1>9, <1>10, AlphabetIs

(***************************************************************************)
(* Parts.                                                                  *)
(***************************************************************************)

\* The place j in the part q of a text in parts of one length.
At(q, len, j) == q * len + j

LEMMA PlaceIs ==
    ASSUME NEW parts \in Nat, NEW len \in Nat \ {0}, NEW q \in 0..(parts - 1),
           NEW j \in 1..len
    PROVE  /\ At(q, len, j) \in 1..(parts * len)
           /\ (At(q, len, j) - 1) \div len = q
           /\ At(q, len, j) % len = IF j = len THEN 0 ELSE j
  <1>1. q * len \in Nat /\ q * len = len * q
    OBVIOUS
  <1>2. q * len + len <= parts * len
    <2>1. (q + 1) * len <= parts * len
      <3>1. q + 1 <= parts /\ q + 1 \in Nat
        OBVIOUS
      <3> QED  BY <3>1
    <2>2. (q + 1) * len = q * len + len
      OBVIOUS
    <2> QED  BY <2>1, <2>2
  <1>3. PICK x \in Nat : x = q * len
    BY <1>1
  <1>4. At(q, len, j) = x + j
    BY <1>3 DEF At
  <1>5. x + j \in 1..(parts * len)
    <2>1. parts * len \in Nat
      OBVIOUS
    <2> QED  BY <1>2, <1>3, <2>1
  <1>6. (x + j - 1) \div len = q
    <2>1. x + j - 1 = len * q + (j - 1) /\ x + j - 1 \in Nat /\ j - 1 \in 0..(len - 1)
      BY <1>1, <1>3
    <2> QED  BY <2>1, DivisionIsUnique
  <1>7. CASE j = len
    <2>1. x + j = len * (q + 1) + 0 /\ 0 \in 0..(len - 1) /\ x + j \in Nat /\ q + 1 \in Nat
      BY <1>1, <1>3, <1>7
    <2>2. (x + j) % len = 0
      BY <2>1, DivisionIsUnique
    <2> QED  BY <1>4, <1>5, <1>6, <1>7, <2>2
  <1>8. CASE j # len
    <2>1. /\ x + j = len * q + j /\ j \in 0..(len - 1) /\ x + j \in Nat /\ q \in Nat
          /\ len \in Nat \ {0}
      BY <1>1, <1>3, <1>8
    <2>2. (x + j) % len = j
      BY <2>1, DivisionIsUnique
    <2> QED  BY <1>4, <1>5, <1>6, <1>8, <2>2
  <1> QED  BY <1>7, <1>8

LEMMA PlaceOf ==
    ASSUME NEW parts \in Nat, NEW len \in Nat \ {0}, NEW i \in 1..(parts * len)
    PROVE  \E q \in 0..(parts - 1), j \in 1..len : i = At(q, len, j)
  <1>1. parts * len \in Nat /\ i - 1 \in Nat
    OBVIOUS
  <1>2. PICK q \in Nat, r \in 0..(len - 1) : i - 1 = len * q + r
    BY <1>1, DivisionIs
  <1>3. len * q = q * len /\ q * len \in Nat
    OBVIOUS
  <1>4. i = q * len + (r + 1) /\ r + 1 \in 1..len
    BY <1>1, <1>2, <1>3
  <1>5. q < parts
    <2> SUFFICES ASSUME q >= parts PROVE FALSE
      OBVIOUS
    <2>1. q * len >= parts * len
      OBVIOUS
    <2> QED  BY <1>1, <1>3, <1>4, <2>1
  <1>6. q \in 0..(parts - 1)
    BY <1>5
  <1> QED  BY <1>4, <1>6 DEF At

IsPart(t, S, s, q, len) == /\ t \in Seq(S) /\ Len(t) = len
                           /\ \A j \in 1..len : t[j] = s[At(q, len, j)]

LEMMA PartIs ==
    ASSUME NEW S, NEW s \in Seq(S), NEW parts \in Nat, NEW len \in Nat \ {0},
           parts * len <= Len(s), NEW q \in 0..(parts - 1)
    PROVE  IsPart(Part(s, q, len), S, s, q, len)
  <1>1. PICK x \in Nat : x = q * len
    OBVIOUS
  <1>2. (q + 1) * len = x + len
    BY <1>1
  <1>3. x + len <= Len(s)
    <2>1. At(q, len, len) \in 1..(parts * len)
      BY PlaceIs
    <2>2. At(q, len, len) = x + len
      BY <1>1 DEF At
    <2>3. parts * len \in Nat /\ Len(s) \in Nat
      OBVIOUS
    <2> QED  BY <2>1, <2>2, <2>3
  <1>4. Part(s, q, len) = SubSeq(s, x + 1, x + len)
    BY <1>1, <1>2 DEF Part
  <1>5. \A i \in (x + 1)..(x + len) : s[i] \in S
    BY <1>3, ElementOfSeq
  <1>6. PICK t : t = SubSeq(s, x + 1, x + len)
    OBVIOUS
  <1>7. /\ t \in Seq(S)
        /\ Len(t) = IF x + 1 <= x + len THEN (x + len) - (x + 1) + 1 ELSE 0
        /\ \A i \in 1..((x + len) - (x + 1) + 1) : t[i] = s[(x + 1) + i - 1]
    BY <1>5, <1>6, SubSeqProperties
  <1>8. Len(t) = len /\ (x + len) - (x + 1) + 1 = len
    BY <1>7
  <1>9. ASSUME NEW j \in 1..len PROVE t[j] = s[At(q, len, j)]
    <2>1. (x + 1) + j - 1 = x + j
      OBVIOUS
    <2> QED  BY <1>1, <1>7, <1>8, <2>1 DEF At
  <1> QED  BY <1>4, <1>6, <1>7, <1>8, <1>9 DEF IsPart

LEMMA LengthsAre ==
    /\ Parts \in Nat \ {0} /\ PartLen \in Nat \ {0} /\ ChunkLen \in Nat \ {0}
    /\ PartLen + 1 \in Nat \ {0} /\ Parts * PartLen \in Nat \ {0}
    /\ Parts * (PartLen + 1) \in Nat \ {0}
    /\ (Parts * (PartLen + 1)) % ChunkLen = 0
  <1>1. /\ Parts \in Nat \ {0} /\ PartLen \in Nat \ {0} /\ ChunkLen \in Nat \ {0}
        /\ (Parts * (PartLen + 1)) % ChunkLen = 0
    BY IdAssumption
  <1>2. Parts * PartLen \in Nat \ {0} /\ Parts * (PartLen + 1) \in Nat \ {0}
    BY <1>1
  <1> QED  BY <1>1, <1>2

\* What luhnify makes: part after part, each before its check character.
LEMMA LuhnifyIs ==
    ASSUME NEW s \in Seq(Alpha), Len(s) = Parts * PartLen
    PROVE  /\ Luhnify(s) \in Seq(Alpha) /\ Len(Luhnify(s)) = Parts * (PartLen + 1)
           /\ \A q \in 0..(Parts - 1) :
                 /\ \A j \in 1..PartLen :
                       Luhnify(s)[At(q, PartLen + 1, j)] = s[At(q, PartLen, j)]
                 /\ Luhnify(s)[At(q, PartLen + 1, PartLen + 1)] =
                       SyncthingLuhn32(Part(s, q, PartLen))
  <1> DEFINE E(i) == LET k == (i - 1) \div (PartLen + 1)
                     IN  IF i % (PartLen + 1) = 0 THEN SyncthingLuhn32(Part(s, k, PartLen))
                         ELSE s[i - k]
             n == Parts * (PartLen + 1)
  <1>1. Luhnify(s) = [i \in 1..n |-> E(i)]
    BY DEF Luhnify
  <1>2. ASSUME NEW q \in 0..(Parts - 1), NEW j \in 1..PartLen
        PROVE  /\ At(q, PartLen + 1, j) \in 1..n
               /\ E(At(q, PartLen + 1, j)) = s[At(q, PartLen, j)]
               /\ s[At(q, PartLen, j)] \in Alpha
    <2>1. /\ Parts \in Nat /\ PartLen + 1 \in Nat \ {0} /\ j \in 1..(PartLen + 1)
          /\ j # PartLen + 1 /\ j # 0 /\ PartLen \in Nat \ {0}
      BY LengthsAre
    <2>2. PICK i : i = At(q, PartLen + 1, j)
      OBVIOUS
    <2>3. i \in 1..n /\ (i - 1) \div (PartLen + 1) = q /\ i % (PartLen + 1) = j
      BY <2>1, <2>2, PlaceIs
    <2>4. i - q = At(q, PartLen, j)
      <3>1. q * (PartLen + 1) = q * PartLen + q /\ q * PartLen \in Nat
        BY <2>1
      <3> QED  BY <2>2, <3>1 DEF At
    <2>5. E(i) = s[i - q]
      BY <2>1, <2>3
    <2>6. At(q, PartLen, j) \in 1..Len(s)
      BY <2>1, PlaceIs
    <2>7. s[At(q, PartLen, j)] \in Alpha
      BY <2>6, ElementOfSeq
    <2> QED  BY <2>2, <2>3, <2>4, <2>5, <2>7
  <1>3. ASSUME NEW q \in 0..(Parts - 1)
        PROVE  /\ At(q, PartLen + 1, PartLen + 1) \in 1..n
               /\ E(At(q, PartLen + 1, PartLen + 1)) = SyncthingLuhn32(Part(s, q, PartLen))
               /\ SyncthingLuhn32(Part(s, q, PartLen)) \in Alpha
    <2>1. /\ Parts \in Nat /\ PartLen + 1 \in Nat \ {0} /\ PartLen + 1 \in 1..(PartLen + 1)
          /\ PartLen \in Nat \ {0} /\ Parts * PartLen <= Len(s)
      BY LengthsAre
    <2>2. PICK i : i = At(q, PartLen + 1, PartLen + 1)
      OBVIOUS
    <2>3. i \in 1..n /\ (i - 1) \div (PartLen + 1) = q /\ i % (PartLen + 1) = 0
      BY <2>1, <2>2, PlaceIs
    <2>4. E(i) = SyncthingLuhn32(Part(s, q, PartLen))
      BY <2>3
    <2>5. Part(s, q, PartLen) \in Seq(Alpha)
      BY <2>1, PartIs DEF IsPart
    <2> QED  BY <2>2, <2>3, <2>4, <2>5, CheckIs
  <1> HIDE DEF E
  <1>4. ASSUME NEW i \in 1..n PROVE E(i) \in Alpha
    <2>1. PICK q \in 0..(Parts - 1), j \in 1..(PartLen + 1) : i = At(q, PartLen + 1, j)
      BY LengthsAre, PlaceOf
    <2>2. CASE j = PartLen + 1
      BY <1>3, <2>1, <2>2
    <2>3. CASE j # PartLen + 1
      <3>1. j \in 1..PartLen
        BY <2>3, LengthsAre
      <3> QED  BY <1>2, <2>1, <3>1
    <2> QED  BY <2>2, <2>3
  <1>5. Luhnify(s) \in Seq(Alpha) /\ Len(Luhnify(s)) = n
    BY <1>1, <1>4, LengthsAre
  <1>6. ASSUME NEW q \in 0..(Parts - 1), NEW j \in 1..PartLen
        PROVE  Luhnify(s)[At(q, PartLen + 1, j)] = s[At(q, PartLen, j)]
    BY <1>1, <1>2
  <1>7. ASSUME NEW q \in 0..(Parts - 1)
        PROVE  Luhnify(s)[At(q, PartLen + 1, PartLen + 1)] =
                  SyncthingLuhn32(Part(s, q, PartLen))
    BY <1>1, <1>3
  <1> QED  BY <1>5, <1>6, <1>7

Checked(t, q)  == Front(Part(t, q, PartLen + 1))
CheckOf(t, q)  == Last(Part(t, q, PartLen + 1))

LEMMA CheckedIs ==
    ASSUME NEW t \in Seq(Chars), Len(t) = Parts * (PartLen + 1), NEW q \in 0..(Parts - 1)
    PROVE  /\ Checked(t, q) \in Seq(Chars) /\ Len(Checked(t, q)) = PartLen
           /\ \A j \in 1..PartLen : Checked(t, q)[j] = t[At(q, PartLen + 1, j)]
           /\ CheckOf(t, q) = t[At(q, PartLen + 1, PartLen + 1)]
  <1> DEFINE part == Part(t, q, PartLen + 1)
  <1>1. /\ Parts \in Nat /\ PartLen \in Nat \ {0} /\ PartLen + 1 \in Nat \ {0}
        /\ Parts * (PartLen + 1) <= Len(t)
    BY LengthsAre
  <1>2. /\ part \in Seq(Chars) /\ Len(part) = PartLen + 1
        /\ \A j \in 1..(PartLen + 1) : part[j] = t[At(q, PartLen + 1, j)]
    <2>1. IsPart(part, Chars, t, q, PartLen + 1)
      BY <1>1, PartIs
    <2> QED  BY <2>1 DEF IsPart
  <1> HIDE DEF part
  <1>3. CheckOf(t, q) = t[At(q, PartLen + 1, PartLen + 1)]
    <2>1. PartLen + 1 \in 1..(PartLen + 1)
      BY <1>1
    <2> QED  BY <1>2, <2>1 DEF CheckOf, Last, part
  <1>4. Checked(t, q) = SubSeq(part, 1, PartLen)
    <2>1. Len(part) - 1 = PartLen
      BY <1>1, <1>2
    <2> QED  BY <2>1 DEF Checked, Front, part
  <1>5. PICK f : f = SubSeq(part, 1, PartLen)
    OBVIOUS
  <1>6. \A i \in 1..PartLen : part[i] \in Chars
    BY <1>1, <1>2, ElementOfSeq
  <1>7. f \in Seq(Chars) /\ Len(f) = PartLen /\ \A j \in 1..PartLen : f[j] = part[j]
    BY <1>1, <1>5, <1>6, SubSeqProperties
  <1>8. \A j \in 1..PartLen : f[j] = t[At(q, PartLen + 1, j)]
    BY <1>1, <1>2, <1>7
  <1> QED  BY <1>3, <1>4, <1>5, <1>7, <1>8

LEMMA LuhnifiedIs ==
    ASSUME NEW t \in Seq(Chars), Len(t) = Parts * (PartLen + 1)
    PROVE  Luhnified(t) <=> \A q \in 0..(Parts - 1) :
              InAlphabet(Checked(t, q)) /\ CheckOf(t, q) = SyncthingLuhn32(Checked(t, q))
  <1>1. Parts \in Nat /\ Parts * (PartLen + 1) \in Nat /\ Len(t) >= Parts * (PartLen + 1)
    BY LengthsAre
  <1> DEFINE Good(q) == InAlphabet(Checked(t, q)) /\ CheckOf(t, q) = SyncthingLuhn32(Checked(t, q))
  <1>2. Luhnified(t) <=> \A k \in 1..Parts : Good(k - 1)
    BY <1>1 DEF Luhnified, Checked, CheckOf
  <1> HIDE DEF Good
  <1>3. (\A k \in 1..Parts : Good(k - 1)) <=> \A q \in 0..(Parts - 1) : Good(q)
    <2>1. ASSUME \A k \in 1..Parts : Good(k - 1), NEW q \in 0..(Parts - 1) PROVE Good(q)
      <3>1. q + 1 \in 1..Parts /\ (q + 1) - 1 = q
        BY <1>1
      <3>2. Good((q + 1) - 1)
        BY <2>1, <3>1
      <3> QED  BY <3>1, <3>2
    <2>2. ASSUME \A q \in 0..(Parts - 1) : Good(q), NEW k \in 1..Parts PROVE Good(k - 1)
      <3>1. k - 1 \in 0..(Parts - 1)
        BY <1>1
      <3> QED  BY <2>2, <3>1
    <2> QED  BY <2>1, <2>2
  <1> QED  BY <1>2, <1>3 DEF Good

LEMMA AlphaIsChars == ASSUME NEW s \in Seq(Alpha) PROVE s \in Seq(Chars)
  BY DEF Chars

\* The parts of the text are those of the id, and unluhnify gives them back.
LEMMA TextIsLuhnified ==
    ASSUME NEW s \in Seq(Alpha), Len(s) = Parts * PartLen
    PROVE  /\ Luhnified(Luhnify(s))
           /\ \A q \in 0..(Parts - 1) : Checked(Luhnify(s), q) = Part(s, q, PartLen)
           /\ \A i \in 1..(Parts * PartLen) : Unluhnify(Luhnify(s))[i] = s[i]
  <1> DEFINE t == Luhnify(s)
  <1>1. /\ t \in Seq(Alpha) /\ Len(t) = Parts * (PartLen + 1)
        /\ \A q \in 0..(Parts - 1) :
              /\ \A j \in 1..PartLen : t[At(q, PartLen + 1, j)] = s[At(q, PartLen, j)]
              /\ t[At(q, PartLen + 1, PartLen + 1)] = SyncthingLuhn32(Part(s, q, PartLen))
    BY LuhnifyIs
  <1> HIDE DEF t
  <1>2. t \in Seq(Chars)
    BY <1>1, AlphaIsChars
  <1>3. ASSUME NEW q \in 0..(Parts - 1)
        PROVE  /\ Checked(t, q) = Part(s, q, PartLen) /\ InAlphabet(Checked(t, q))
               /\ CheckOf(t, q) = SyncthingLuhn32(Checked(t, q))
    <2>1. /\ Checked(t, q) \in Seq(Chars) /\ Len(Checked(t, q)) = PartLen
          /\ \A j \in 1..PartLen : Checked(t, q)[j] = t[At(q, PartLen + 1, j)]
          /\ CheckOf(t, q) = t[At(q, PartLen + 1, PartLen + 1)]
      BY <1>1, <1>2, CheckedIs
    <2>2. /\ Part(s, q, PartLen) \in Seq(Alpha) /\ Len(Part(s, q, PartLen)) = PartLen
          /\ \A j \in 1..PartLen : Part(s, q, PartLen)[j] = s[At(q, PartLen, j)]
      <3>1. Parts \in Nat /\ PartLen \in Nat \ {0} /\ Parts * PartLen <= Len(s)
        BY LengthsAre
      <3>2. IsPart(Part(s, q, PartLen), Alpha, s, q, PartLen)
        BY <3>1, PartIs
      <3> QED  BY <3>2 DEF IsPart
    <2>3. Part(s, q, PartLen) \in Seq(Chars)
      BY <2>2, AlphaIsChars
    <2>4. \A j \in 1..PartLen : Checked(t, q)[j] = Part(s, q, PartLen)[j]
      BY <1>1, <2>1, <2>2
    <2>5. Checked(t, q) = Part(s, q, PartLen)
      BY <2>1, <2>2, <2>3, <2>4, SeqEqual
    <2>6. InAlphabet(Part(s, q, PartLen))
      BY <2>2 DEF InAlphabet, Range, Alpha
    <2> QED  BY <1>1, <2>1, <2>5, <2>6
  <1>4. Luhnified(t)
    BY <1>1, <1>2, <1>3, LuhnifiedIs
  <1>5. ASSUME NEW i \in 1..(Parts * PartLen) PROVE Unluhnify(t)[i] = s[i]
    <2>1. PICK q \in 0..(Parts - 1), j \in 1..PartLen : i = At(q, PartLen, j)
      BY LengthsAre, PlaceOf
    <2>2. (i - 1) \div PartLen = q
      BY <2>1, LengthsAre, PlaceIs
    <2>3. i + q = At(q, PartLen + 1, j)
      <3>1. PartLen \in Nat /\ q \in Nat /\ q * (PartLen + 1) = q * PartLen + q
            /\ q * PartLen \in Nat
        BY LengthsAre
      <3> QED  BY <2>1, <3>1 DEF At
    <2>4. Unluhnify(t)[i] = t[i + q]
      BY <2>2 DEF Unluhnify
    <2> QED  BY <1>1, <2>1, <2>3, <2>4
  <1> QED  BY <1>3, <1>4, <1>5 DEF t

\* One wrong character, and the text is no longer what luhnify makes.
LEMMA WrongIsRejected ==
    ASSUME NEW s \in Seq(Alpha), Len(s) = Parts * PartLen,
           NEW p \in 1..(Parts * (PartLen + 1)), NEW c \in Chars, c # Luhnify(s)[p]
    PROVE  ~Luhnified([Luhnify(s) EXCEPT ![p] = c])
  <1> DEFINE L == Luhnify(s)
             t == [L EXCEPT ![p] = c]
  <1>1. L \in Seq(Alpha) /\ L \in Seq(Chars) /\ Len(L) = Parts * (PartLen + 1)
    BY LuhnifyIs, AlphaIsChars
  <1>2. Luhnified(L) /\ \A q \in 0..(Parts - 1) : Checked(L, q) = Part(s, q, PartLen)
    BY TextIsLuhnified
  <1>3. c # L[p]
    OBVIOUS
  <1> HIDE DEF L
  <1>4. /\ t \in Seq(Chars) /\ Len(t) = Parts * (PartLen + 1)
        /\ \A i \in 1..Len(L) : t[i] = IF i = p THEN c ELSE L[i]
    BY <1>1, ExceptSeq
  <1> HIDE DEF t
  <1>5. PICK q \in 0..(Parts - 1), j \in 1..(PartLen + 1) : p = At(q, PartLen + 1, j)
    BY LengthsAre, PlaceOf
  <1> DEFINE f == Checked(t, q)
             g == Checked(L, q)
  <1>6. /\ f \in Seq(Chars) /\ Len(f) = PartLen
        /\ \A i \in 1..PartLen : f[i] = t[At(q, PartLen + 1, i)]
        /\ CheckOf(t, q) = t[At(q, PartLen + 1, PartLen + 1)]
    BY <1>4, CheckedIs
  <1>7. /\ g \in Seq(Chars) /\ Len(g) = PartLen
        /\ \A i \in 1..PartLen : g[i] = L[At(q, PartLen + 1, i)]
        /\ CheckOf(L, q) = L[At(q, PartLen + 1, PartLen + 1)]
    BY <1>1, CheckedIs
  <1>8. g \in Seq(Alpha) /\ CheckOf(L, q) = SyncthingLuhn32(g)
    <2>1. CheckOf(L, q) = SyncthingLuhn32(g)
      BY <1>1, <1>2, LuhnifiedIs
    <2>2. Part(s, q, PartLen) \in Seq(Alpha)
      BY LengthsAre, PartIs DEF IsPart
    <2> QED  BY <1>2, <2>1, <2>2
  <1> HIDE DEF f, g
  <1>9. PartLen \in Nat \ {0} /\ PartLen + 1 \in Nat \ {0} /\ Parts \in Nat
    BY LengthsAre
  <1>10. ASSUME NEW i \in 1..(PartLen + 1)
         PROVE  t[At(q, PartLen + 1, i)] =
                   IF i = j THEN c ELSE L[At(q, PartLen + 1, i)]
    <2>1. At(q, PartLen + 1, i) \in 1..Len(L)
      BY <1>1, <1>9, PlaceIs
    <2>2. At(q, PartLen + 1, i) = p <=> i = j
      BY <1>5, <1>9 DEF At
    <2> QED  BY <1>4, <2>1, <2>2
  <1>11. CASE j = PartLen + 1
    <2>1. \A i \in 1..PartLen : f[i] = g[i]
      BY <1>6, <1>7, <1>9, <1>10, <1>11
    <2>2. f = g
      BY <1>6, <1>7, <2>1, SeqEqual
    <2>3. CheckOf(t, q) = c /\ c # SyncthingLuhn32(g)
      BY <1>3, <1>5, <1>6, <1>7, <1>8, <1>10, <1>11
    <2> QED  BY <1>4, <2>2, <2>3, LuhnifiedIs DEF f, t, L
  <1>12. CASE j # PartLen + 1
    <2>1. j \in 1..PartLen /\ PartLen + 1 \in 1..(PartLen + 1)
      BY <1>9, <1>12
    <2>2. CheckOf(t, q) = SyncthingLuhn32(g)
      BY <1>6, <1>7, <1>8, <1>10, <1>12, <2>1
    <2>3. f[j] = c /\ g[j] # c
      BY <1>3, <1>5, <1>6, <1>7, <1>10, <2>1
    <2>4. \A i \in 1..PartLen : i # j => f[i] = g[i]
      BY <1>6, <1>7, <1>9, <1>10
    <2>5. CASE InAlphabet(f)
      <3>1. f \in Seq(Alpha)
        <4>1. ASSUME NEW i \in 1..Len(f) PROVE f[i] \in Alpha
          <5>1. i \in DOMAIN f
            BY <1>6
          <5> QED  BY <2>5, <5>1, Zenon DEF InAlphabet, Range, Alpha
        <4> QED  BY <1>6, <4>1
      <3>2. SyncthingLuhn32(f) # SyncthingLuhn32(g)
        BY <1>6, <1>7, <1>8, <2>1, <2>3, <2>4, <3>1, CheckDiffers
      <3> QED  BY <1>4, <2>2, <3>2, LuhnifiedIs DEF f, t, L
    <2>6. CASE ~InAlphabet(f)
      BY <1>4, <2>6, LuhnifiedIs DEF f, t, L
    <2> QED  BY <2>5, <2>6
  <1> QED  BY <1>11, <1>12

(***************************************************************************)
(* Dashes.                                                                 *)
(***************************************************************************)
OneKept(x, c) == IF c = Dash THEN x ELSE Append(x, c)
Keeps(f, n, s) == f[0] = <<>> /\ \A k \in 1..n : f[k] = OneKept(f[k - 1], s[k])

LEMMA OneKeptIs ==
    ASSUME NEW x \in Seq(Chars), NEW c \in Chars
    PROVE  OneKept(x, c) \in Seq(Chars)
  <1>1. Append(x, c) \in Seq(Chars)
    BY AppendProperties
  <1> QED  BY <1>1 DEF OneKept

LEMMA KeptExist ==
    ASSUME NEW s \in Seq(Chars), NEW n \in Nat, n = Len(s)
    PROVE  \E f \in [0..n -> Seq(Chars)] : Keeps(f, n, s)
  <1> DEFINE T == {m \in 0..n : \E f \in [0..m -> Seq(Chars)] : Keeps(f, m, s)}
  <1>1. 0 \in T
    <2>1. PICK f : f = [k \in 0..0 |-> <<>>]
      OBVIOUS
    <2>2. <<>> \in Seq(Chars)
      BY EmptySeq
    <2>3. f \in [0..0 -> Seq(Chars)] /\ f[0] = <<>>
      BY <2>1, <2>2
    <2>4. Keeps(f, 0, s) /\ 0 \in 0..n
      BY <2>3 DEF Keeps
    <2> QED  BY <2>3, <2>4
  <1>2. ASSUME NEW m \in 0..(n - 1), m \in T PROVE m + 1 \in T
    <2>1. PICK f \in [0..m -> Seq(Chars)] : Keeps(f, m, s)
      BY <1>2
    <2>2. PICK e : e = OneKept(f[m], s[m + 1])
      OBVIOUS
    <2>3. m \in 0..m /\ m + 1 \in 1..n /\ m + 1 \in 0..n
      OBVIOUS
    <2>4. e \in Seq(Chars)
      <3>1. f[m] \in Seq(Chars) /\ s[m + 1] \in Chars
        BY <2>3
      <3> QED  BY <2>2, <3>1, OneKeptIs
    <2>5. PICK g : g = [k \in 0..(m + 1) |-> IF k = m + 1 THEN e ELSE f[k]]
      OBVIOUS
    <2>6. g \in [0..(m + 1) -> Seq(Chars)] /\ (\A k \in 0..m : g[k] = f[k]) /\ g[m + 1] = e
      BY <2>4, <2>5
    <2>7. ASSUME NEW k \in 1..(m + 1)
          PROVE  g[k] = OneKept(g[k - 1], s[k])
      <3>1. CASE k \in 1..m
        <4>1. k \in 0..m /\ k - 1 \in 0..m
          BY <3>1
        <4>2. g[k] = f[k] /\ g[k - 1] = f[k - 1]
          BY <2>6, <4>1
        <4>3. f[k] = OneKept(f[k - 1], s[k])
          BY <2>1, <3>1 DEF Keeps
        <4> QED  BY <4>2, <4>3
      <3>2. CASE k = m + 1
        <4>1. k - 1 = m
          BY <3>2
        <4>2. g[k - 1] = f[m] /\ g[k] = e
          BY <2>3, <2>6, <3>2, <4>1
        <4> QED  BY <2>2, <3>2, <4>2
      <3> QED  BY <3>1, <3>2
    <2>8. g[0] = <<>>
      <3>1. 0 \in 0..m
        OBVIOUS
      <3> QED  BY <2>1, <2>6, <3>1 DEF Keeps
    <2>9. Keeps(g, m + 1, s)
      BY <2>7, <2>8 DEF Keeps
    <2> QED  BY <2>3, <2>6, <2>9
  <1>3. n \in T
    <2>1. n \in 0..n
      OBVIOUS
    <2> HIDE DEF T
    <2> QED  BY <1>1, <1>2, <2>1, Climb
  <1> QED  BY <1>3

LEMMA KeptAre ==
    ASSUME NEW s \in Seq(Chars), NEW n \in Nat, n = Len(s)
    PROVE  Kept(s) \in [0..n -> Seq(Chars)] /\ Keeps(Kept(s), n, s)
  <1> DEFINE D(f) == [k \in 0..Len(s) |->
                        IF k = 0 THEN <<>> ELSE OneKept(f[k - 1], s[k])]
  <1>1. Kept(s) = CHOOSE f : f = D(f)
    BY DEF Kept, OneKept
  <1>2. \E f : f = D(f)
    <2>1. PICK f \in [0..n -> Seq(Chars)] : Keeps(f, n, s)
      BY KeptExist
    <2>2. \A k \in 0..n : f[k] = IF k = 0 THEN <<>> ELSE OneKept(f[k - 1], s[k])
      BY <2>1 DEF Keeps
    <2>3. f = D(f)
      BY <2>1, <2>2
    <2> QED  BY <2>3
  <1>3. Kept(s) = D(Kept(s))
    <2> HIDE DEF D
    <2> QED  BY <1>1, <1>2
  <1>4. PICK f : f = Kept(s)
    OBVIOUS
  <1>5. f = D(f)
    BY <1>3, <1>4
  <1>6. /\ DOMAIN f = 0..n /\ f = [k \in 0..n |-> f[k]] /\ f[0] = <<>>
        /\ \A k \in 1..n : f[k] = OneKept(f[k - 1], s[k])
    BY <1>5
  <1>7. Keeps(f, n, s)
    BY <1>6 DEF Keeps
  <1>8. f \in [0..n -> Seq(Chars)]
    <2> DEFINE T == {k \in 0..n : f[k] \in Seq(Chars)}
    <2>1. 0 \in T
      BY <1>6, EmptySeq
    <2>2. ASSUME NEW k \in 0..(n - 1), k \in T PROVE k + 1 \in T
      <3>1. k + 1 \in 1..n /\ (k + 1) - 1 = k /\ k + 1 \in 0..n /\ s[k + 1] \in Chars
        OBVIOUS
      <3>2. f[k] \in Seq(Chars)
        BY <2>2
      <3>3. OneKept(f[k], s[k + 1]) \in Seq(Chars)
        BY <3>1, <3>2, OneKeptIs
      <3>4. f[k + 1] = OneKept(f[k], s[k + 1])
        BY <1>7, <3>1 DEF Keeps
      <3> QED  BY <3>1, <3>2, <3>3, <3>4
    <2>3. \A k \in 0..n : k \in T
      <3> HIDE DEF T
      <3> QED  BY <2>1, <2>2, Climb
    <2> QED  BY <1>6, <2>3
  <1> QED  BY <1>4, <1>7, <1>8

\* A dash less is the same text.
LEMMA DashLess ==
    ASSUME NEW t \in Seq(Chars), NEW i \in 1..Len(t), t[i] = Dash
    PROVE  /\ RemoveAt(t, i) \in Seq(Chars)
           /\ Unchunkify(RemoveAt(t, i)) = Unchunkify(t)
  <1> DEFINE n == Len(t) - 1
             a == SubSeq(t, 1, i - 1)
             b == SubSeq(t, i + 1, Len(t))
             u == RemoveAt(t, i)
  <1>1. n \in Nat /\ n + 1 = Len(t) /\ i \in 1..(n + 1) /\ Len(t) \in Nat
    OBVIOUS
  <1>2. /\ a \in Seq(Chars) /\ Len(a) = i - 1
        /\ \A k \in 1..(i - 1) : a[k] = t[k]
    <2>1. \A k \in 1..(i - 1) : t[k] \in Chars
      BY <1>1, ElementOfSeq
    <2> QED  BY <2>1, SubSeqProperties
  <1>3. /\ b \in Seq(Chars) /\ Len(b) = (n + 1) - i
        /\ \A k \in 1..((n + 1) - i) : b[k] = t[i + k]
    <2>1. \A k \in (i + 1)..Len(t) : t[k] \in Chars
      BY <1>1, ElementOfSeq
    <2>2. /\ b \in Seq(Chars)
          /\ Len(b) = IF i + 1 <= Len(t) THEN Len(t) - (i + 1) + 1 ELSE 0
          /\ \A k \in 1..(Len(t) - (i + 1) + 1) : b[k] = t[(i + 1) + k - 1]
      BY <1>1, <2>1, SubSeqProperties
    <2> HIDE DEF b
    <2>3. Len(b) = (n + 1) - i /\ Len(t) - (i + 1) + 1 = (n + 1) - i
      <3> HIDE DEF n
      <3>1. PICK l \in Nat : l = Len(t)
        BY <1>1
      <3>2. n + 1 = l /\ i \in 1..l
        BY <1>1, <3>1
      <3>3. Len(b) = IF i + 1 <= l THEN l - (i + 1) + 1 ELSE 0
        BY <2>2, <3>1
      <3>4. l - (i + 1) + 1 = l - i /\ (~(i + 1 <= l) => l - i = 0)
        BY <3>2
      <3>5. Len(b) = l - i
        BY <3>3, <3>4
      <3> QED  BY <3>1, <3>2, <3>4, <3>5
    <2>4. ASSUME NEW k \in 1..((n + 1) - i) PROVE b[k] = t[i + k]
      <3>1. (i + 1) + k - 1 = i + k
        BY <1>1
      <3> QED  BY <2>2, <2>3, <3>1
    <2> QED  BY <2>2, <2>3, <2>4
  <1>4. u = a \o b
    BY DEF RemoveAt
  <1> HIDE DEF a, b, u
  <1>5. u \in Seq(Chars) /\ Len(u) = n
    <2>1. a \o b \in Seq(Chars) /\ Len(a \o b) = Len(a) + Len(b)
      BY <1>2, <1>3, ConcatProperties
    <2>2. (i - 1) + ((n + 1) - i) = n
      BY <1>1
    <2> QED  BY <1>2, <1>3, <1>4, <2>1, <2>2
  <1>6. ASSUME NEW k \in 1..n PROVE u[k] = IF k < i THEN t[k] ELSE t[k + 1]
    <2>1. k \in 1..(Len(a) + Len(b))
      BY <1>1, <1>2, <1>3
    <2>2. u[k] = IF k <= Len(a) THEN a[k] ELSE b[k - Len(a)]
      BY <1>2, <1>3, <1>4, <2>1, ConcatProperties
    <2>3. CASE k < i
      <3>1. k \in 1..(i - 1)
        BY <1>1, <2>3
      <3> QED  BY <1>2, <2>2, <2>3, <3>1
    <2>4. CASE ~(k < i)
      <3>1. /\ ~(k <= i - 1) /\ k - (i - 1) \in 1..((n + 1) - i)
            /\ i + (k - (i - 1)) = k + 1
        BY <1>1, <2>4
      <3>2. u[k] = b[k - (i - 1)]
        BY <1>2, <2>2, <3>1
      <3> QED  BY <1>3, <2>4, <3>1, <3>2
    <2> QED  BY <2>3, <2>4
  <1> DEFINE f == Kept(t)
             g == Kept(u)
             J(k) == IF k < i THEN k ELSE k + 1
             T == {k \in 0..n : g[k] = f[J(k)]}
  <1>7. /\ f[0] = <<>>
        /\ \A k \in 1..(n + 1) : f[k] = OneKept(f[k - 1], t[k])
    BY <1>1, KeptAre DEF Keeps
  <1>8. g[0] = <<>> /\ \A k \in 1..n : g[k] = OneKept(g[k - 1], u[k])
    BY <1>1, <1>5, KeptAre DEF Keeps
  <1>9. Unchunkify(t) = f[n + 1] /\ Unchunkify(u) = g[n]
    BY <1>1, <1>5 DEF Unchunkify
  <1> HIDE DEF n, f, g
  <1>10. f[i] = f[i - 1]
    BY <1>1, <1>7 DEF OneKept
  <1>11. 0 \in T
    BY <1>1, <1>7, <1>8
  <1>12. ASSUME NEW k \in 0..(n - 1), k \in T PROVE k + 1 \in T
    <2>1. /\ k + 1 \in 1..n /\ k + 1 \in 0..n /\ (k + 1) - 1 = k
          /\ k + 1 \in 1..(n + 1) /\ (k + 1) + 1 \in 1..(n + 1)
          /\ ((k + 1) + 1) - 1 = k + 1 /\ k \in Nat
      BY <1>1
    <2>2. /\ g[k + 1] = OneKept(g[k], u[k + 1])
          /\ f[k + 1] = OneKept(f[k], t[k + 1])
          /\ f[(k + 1) + 1] = OneKept(f[k + 1], t[(k + 1) + 1])
          /\ u[k + 1] = IF k + 1 < i THEN t[k + 1] ELSE t[(k + 1) + 1]
      <3>1. g[k + 1] = OneKept(g[k], u[k + 1])
        BY <1>8, <2>1
      <3>2. f[k + 1] = OneKept(f[k], t[k + 1])
        BY <1>7, <2>1
      <3>3. f[(k + 1) + 1] = OneKept(f[k + 1], t[(k + 1) + 1])
        BY <1>7, <2>1
      <3> QED  BY <1>6, <2>1, <3>1, <3>2, <3>3
    <2>3. g[k] = f[J(k)]
      BY <1>12
    <2>4. CASE k + 1 < i
      <3>1. g[k] = f[k]
        BY <1>1, <2>1, <2>3, <2>4
      <3>2. g[k + 1] = f[k + 1]
        BY <2>2, <2>4, <3>1
      <3> QED  BY <2>1, <2>4, <3>2
    <2>5. CASE k + 1 = i
      <3>1. g[k] = f[k] /\ f[k + 1] = f[k]
        <4>1. k < i /\ i - 1 = k
          BY <1>1, <2>1, <2>5
        <4> QED  BY <1>10, <2>3, <2>5, <4>1
      <3>2. g[k + 1] = f[(k + 1) + 1]
        BY <2>2, <2>5, <3>1
      <3> QED  BY <2>1, <2>5, <3>2
    <2>6. CASE k + 1 > i
      <3>1. ~(k < i) /\ ~(k + 1 < i)
        BY <1>1, <2>1, <2>6
      <3>2. g[k] = f[k + 1]
        BY <2>3, <3>1
      <3>3. g[k + 1] = f[(k + 1) + 1]
        BY <2>2, <3>1, <3>2
      <3> QED  BY <2>1, <3>1, <3>3
    <2> QED  BY <1>1, <2>1, <2>4, <2>5, <2>6
  <1>13. n \in T
    <2>1. n \in 0..n
      BY <1>1
    <2> HIDE DEF T
    <2> QED  BY <1>1, <1>11, <1>12, <2>1, Climb
  <1>14. g[n] = f[n + 1]
    <2>1. CASE n < i
      <3>1. i = n + 1 /\ i - 1 = n
        BY <1>1, <2>1
      <3> QED  BY <1>10, <1>13, <2>1, <3>1
    <2>2. CASE ~(n < i)
      BY <1>13, <2>2
    <2> QED  BY <2>1, <2>2
  <1> QED  BY <1>5, <1>9, <1>14 DEF u

\* A wrong character is wrong in the text without dashes, and nothing else is.
Differ(a, b, p, x, c) ==
    /\ a \in Seq(Chars) /\ b \in Seq(Chars) /\ Len(a) = Len(b) /\ p \in 1..Len(a)
    /\ a[p] = x /\ b[p] = c /\ \A k \in 1..Len(a) : k # p => a[k] = b[k]

LEMMA DifferStarts ==
    ASSUME NEW a \in Seq(Chars), NEW x \in Chars, NEW c \in Chars
    PROVE  Differ(Append(a, x), Append(a, c), Len(a) + 1, x, c)
  <1>1. PICK d, e : d = Append(a, x) /\ e = Append(a, c)
    OBVIOUS
  <1>2. /\ d \in Seq(Chars) /\ Len(d) = Len(a) + 1 /\ d[Len(a) + 1] = x
        /\ \A k \in 1..Len(a) : d[k] = a[k]
    BY <1>1, AppendProperties
  <1>3. /\ e \in Seq(Chars) /\ Len(e) = Len(a) + 1 /\ e[Len(a) + 1] = c
        /\ \A k \in 1..Len(a) : e[k] = a[k]
    BY <1>1, AppendProperties
  <1>4. PICK n \in Nat : n = Len(a)
    OBVIOUS
  <1>5. Differ(d, e, n + 1, x, c)
    <2>1. n + 1 \in 1..Len(d)
      BY <1>2, <1>4
    <2>2. ASSUME NEW k \in 1..(n + 1), k # n + 1 PROVE d[k] = e[k]
      <3>1. k \in 1..n
        BY <2>2
      <3> QED  BY <1>2, <1>3, <1>4, <3>1
    <2> QED  BY <1>2, <1>3, <1>4, <2>1, <2>2 DEF Differ
  <1> QED  BY <1>1, <1>4, <1>5

LEMMA DifferStays ==
    ASSUME NEW a, NEW b, NEW p, NEW x, NEW c, Differ(a, b, p, x, c), NEW y \in Chars
    PROVE  Differ(OneKept(a, y), OneKept(b, y), p, x, c)
  <1>1. CASE y = Dash
    BY <1>1 DEF OneKept
  <1>2. CASE y # Dash
    <2>1. PICK d, e : d = Append(a, y) /\ e = Append(b, y)
      OBVIOUS
    <2>2. /\ a \in Seq(Chars) /\ b \in Seq(Chars) /\ Len(a) = Len(b) /\ p \in 1..Len(a)
          /\ a[p] = x /\ b[p] = c /\ \A k \in 1..Len(a) : k # p => a[k] = b[k]
      BY DEF Differ
    <2>3. /\ d \in Seq(Chars) /\ Len(d) = Len(a) + 1 /\ d[Len(a) + 1] = y
          /\ \A k \in 1..Len(a) : d[k] = a[k]
      BY <2>1, <2>2, AppendProperties
    <2>4. /\ e \in Seq(Chars) /\ Len(e) = Len(b) + 1 /\ e[Len(b) + 1] = y
          /\ \A k \in 1..Len(b) : e[k] = b[k]
      BY <2>1, <2>2, AppendProperties
    <2>5. PICK n \in Nat : n = Len(a)
      BY <2>2
    <2>6. ASSUME NEW k \in 1..(n + 1), k # p PROVE d[k] = e[k]
      <3>1. CASE k = n + 1
        BY <2>2, <2>3, <2>4, <2>5, <3>1
      <3>2. CASE k \in 1..n
        BY <2>2, <2>3, <2>4, <2>5, <2>6, <3>2
      <3> QED  BY <3>1, <3>2
    <2>7. p \in 1..(n + 1) /\ d[p] = x /\ e[p] = c
      BY <2>2, <2>3, <2>4, <2>5
    <2>8. Differ(d, e, p, x, c)
      BY <2>2, <2>3, <2>4, <2>5, <2>6, <2>7 DEF Differ
    <2> QED  BY <1>2, <2>1, <2>8 DEF OneKept
  <1> QED  BY <1>1, <1>2

\* t is u with another character at one place.
OneWrong(u, t) == \E p \in 1..Len(u), c \in Chars : c # u[p] /\ t = [u EXCEPT ![p] = c]

LEMMA WrongOne ==
    ASSUME NEW t \in Seq(Chars), NEW i \in 1..Len(t), t[i] # Dash,
           NEW c \in Chars, c # Dash, c # t[i]
    PROVE  /\ [t EXCEPT ![i] = c] \in Seq(Chars)
           /\ OneWrong(Unchunkify(t), Unchunkify([t EXCEPT ![i] = c]))
  <1> DEFINE u == [t EXCEPT ![i] = c]
             f == Kept(t)
             g == Kept(u)
             n == Len(t)
  <1>1. /\ u \in Seq(Chars) /\ Len(u) = n /\ n \in Nat /\ i \in 1..n
        /\ u[i] = c /\ \A k \in 1..n : k # i => u[k] = t[k]
    BY ExceptSeq
  <1> HIDE DEF u
  <1>2. /\ f \in [0..n -> Seq(Chars)] /\ f[0] = <<>>
        /\ \A k \in 1..n : f[k] = OneKept(f[k - 1], t[k])
    BY <1>1, KeptAre DEF Keeps
  <1>3. /\ g \in [0..n -> Seq(Chars)] /\ g[0] = <<>>
        /\ \A k \in 1..n : g[k] = OneKept(g[k - 1], u[k])
    BY <1>1, KeptAre DEF Keeps
  <1>4. Unchunkify(t) = f[n] /\ Unchunkify(u) = g[n]
    BY <1>1 DEF Unchunkify
  <1>5. \A k \in 1..n : t[k] \in Chars
    BY ElementOfSeq
  <1> HIDE DEF f, g, n
  <1> DEFINE p == Len(f[i - 1]) + 1
             After(k) == Differ(f[k], g[k], p, t[i], c)
             T == {k \in 0..n : (k < i => g[k] = f[k]) /\ (k >= i => After(k))}
  <1>6. 0 \in T
    BY <1>1, <1>2, <1>3
  <1>7. ASSUME NEW k \in 0..(n - 1), k \in T PROVE k + 1 \in T
    <2>1. k + 1 \in 1..n /\ k + 1 \in 0..n /\ (k + 1) - 1 = k /\ k \in 0..n
      BY <1>1
    <2>2. f[k + 1] = OneKept(f[k], t[k + 1]) /\ g[k + 1] = OneKept(g[k], u[k + 1])
      <3>1. f[k + 1] = OneKept(f[k], t[k + 1])
        BY <1>2, <2>1
      <3>2. g[k + 1] = OneKept(g[k], u[k + 1])
        BY <1>3, <2>1
      <3> QED  BY <3>1, <3>2
    <2>3. (k < i => g[k] = f[k]) /\ (k >= i => After(k))
      BY <1>7
    <2>4. CASE k + 1 < i
      <3>1. g[k + 1] = f[k + 1]
        <4>1. k < i /\ k + 1 # i
          BY <1>1, <2>1, <2>4
        <4> QED  BY <1>1, <2>1, <2>2, <2>3, <4>1
      <3>2. ~(k + 1 >= i)
        BY <1>1, <2>1, <2>4
      <3> QED  BY <2>1, <3>1, <3>2
    <2>5. CASE k + 1 = i
      <3>1. k < i /\ i - 1 = k
        BY <1>1, <2>1, <2>5
      <3>2. /\ f[k] \in Seq(Chars) /\ g[k] = f[k]
            /\ f[i] = Append(f[k], t[i]) /\ g[i] = Append(f[k], c)
        <4>1. f[k] \in Seq(Chars) /\ g[k] = f[k]
          BY <1>2, <2>1, <2>3, <3>1
        <4>2. f[i] = OneKept(f[k], t[i]) /\ g[i] = OneKept(f[k], c)
          BY <1>1, <2>2, <2>5, <4>1
        <4> QED  BY <4>1, <4>2 DEF OneKept
      <3>3. Differ(Append(f[k], t[i]), Append(f[k], c), Len(f[k]) + 1, t[i], c)
        <4>1. t[i] \in Chars
          BY <1>1, <1>5
        <4> QED  BY <3>2, <4>1, DifferStarts
      <3>4. After(i)
        BY <3>1, <3>2, <3>3
      <3>5. ~(k + 1 < i) /\ After(k + 1)
        BY <1>1, <2>1, <2>5, <3>4
      <3> QED  BY <2>1, <3>5
    <2>6. CASE k + 1 > i
      <3>1. k >= i /\ ~(k + 1 < i) /\ k + 1 # i
        BY <1>1, <2>1, <2>6
      <3>2. u[k + 1] = t[k + 1] /\ t[k + 1] \in Chars
        BY <1>1, <1>5, <2>1, <3>1
      <3>3. Differ(OneKept(f[k], t[k + 1]), OneKept(g[k], t[k + 1]), p, t[i], c)
        BY <2>3, <3>1, <3>2, DifferStays
      <3>4. After(k + 1)
        BY <2>2, <3>2, <3>3
      <3> QED  BY <2>1, <3>1, <3>4
    <2> QED  BY <1>1, <2>1, <2>4, <2>5, <2>6
  <1>8. n \in T
    <2>1. n \in 0..n
      BY <1>1
    <2> HIDE DEF T
    <2> QED  BY <1>1, <1>6, <1>7, <2>1, Climb
  <1>9. Differ(f[n], g[n], p, t[i], c)
    <2>1. n >= i
      BY <1>1
    <2> QED  BY <1>8, <2>1
  <1> HIDE DEF p
  <1>10. PICK a, b : a = f[n] /\ b = g[n]
    OBVIOUS
  <1>11. /\ a \in Seq(Chars) /\ b \in Seq(Chars) /\ Len(a) = Len(b) /\ p \in 1..Len(a)
         /\ a[p] = t[i] /\ b[p] = c /\ \A k \in 1..Len(a) : k # p => a[k] = b[k]
    BY <1>9, <1>10 DEF Differ
  <1>12. b = [a EXCEPT ![p] = c]
    <2>1. PICK d : d = [a EXCEPT ![p] = c]
      OBVIOUS
    <2>2. /\ d \in Seq(Chars) /\ Len(d) = Len(a)
          /\ \A k \in 1..Len(a) : d[k] = IF k = p THEN c ELSE a[k]
      BY <1>11, <2>1, ExceptSeq
    <2>3. \A k \in 1..Len(b) : b[k] = d[k]
      BY <1>11, <2>2
    <2>4. b = d
      BY <1>11, <2>2, <2>3, SeqEqual
    <2> QED  BY <2>1, <2>4
  <1>13. OneWrong(a, b)
    BY <1>11, <1>12 DEF OneWrong
  <1> QED  BY <1>1, <1>4, <1>10, <1>13 DEF u

(***************************************************************************)
(* Chunks.                                                                 *)
(***************************************************************************)

\* Where character i of a text of m chunks comes from.
LEMMA ChunkPlace ==
    ASSUME NEW m \in Nat, NEW c \in Nat \ {0}, NEW i \in 1..(m * (c + 1))
    PROVE  /\ i \div (c + 1) \in Nat /\ (i - 1) \div (c + 1) \in Nat
           /\ i % (c + 1) = 0 => i \div (c + 1) = (i - 1) \div (c + 1) + 1
           /\ i % (c + 1) # 0 => /\ i \div (c + 1) = (i - 1) \div (c + 1)
                                 /\ i - i \div (c + 1) \in 1..(m * c)
  <1>1. c + 1 \in Nat \ {0}
    OBVIOUS
  <1>2. PICK q \in 0..(m - 1), j \in 1..(c + 1) : i = At(q, c + 1, j)
    BY <1>1, PlaceOf
  <1>3. (i - 1) \div (c + 1) = q /\ i % (c + 1) = IF j = c + 1 THEN 0 ELSE j
    BY <1>1, <1>2, PlaceIs
  <1>4. /\ q * (c + 1) = q * c + q /\ q * (c + 1) = (c + 1) * q /\ q * c \in Nat
        /\ q * (c + 1) \in Nat /\ i = q * (c + 1) + j
    BY <1>2 DEF At
  <1>5. CASE j = c + 1
    <2>1. i = (c + 1) * (q + 1) + 0 /\ q + 1 \in Nat /\ 0 \in 0..((c + 1) - 1) /\ i \in Nat
      BY <1>4, <1>5
    <2>2. i \div (c + 1) = q + 1
      BY <1>1, <2>1, DivisionIsUnique
    <2> QED  BY <1>3, <1>5, <2>2
  <1>6. CASE j # c + 1
    <2>1. i = (c + 1) * q + j /\ q \in Nat /\ j \in 0..((c + 1) - 1) /\ i \in Nat
      BY <1>4, <1>6
    <2>2. i \div (c + 1) = q
      BY <1>1, <2>1, DivisionIsUnique
    <2>3. i - q = At(q, c, j)
      BY <1>4 DEF At
    <2>4. j \in 1..c
      BY <1>6
    <2>5. At(q, c, j) \in 1..(m * c)
      BY <2>4, PlaceIs
    <2> QED  BY <1>3, <1>6, <2>2, <2>3, <2>5
  <1> QED  BY <1>5, <1>6

Copies(x, s, h) == /\ x \in Seq(Chars) /\ Len(x) = h
                   /\ \A k \in 1..h : x[k] = s[k]

LEMMA CopiesOneMore ==
    ASSUME NEW s \in Seq(Chars), NEW h \in Nat, NEW x, Copies(x, s, h),
           h + 1 \in 1..Len(s), s[h + 1] # Dash
    PROVE  Copies(OneKept(x, s[h + 1]), s, h + 1)
  <1>1. s[h + 1] \in Chars /\ x \in Seq(Chars) /\ Len(x) = h /\ \A k \in 1..h : x[k] = s[k]
    BY ElementOfSeq DEF Copies
  <1>2. PICK y : y = Append(x, s[h + 1])
    OBVIOUS
  <1>3. /\ y \in Seq(Chars) /\ Len(y) = h + 1 /\ y[h + 1] = s[h + 1]
        /\ \A k \in 1..h : y[k] = x[k]
    BY <1>1, <1>2, AppendProperties
  <1>4. ASSUME NEW k \in 1..(h + 1) PROVE y[k] = s[k]
    <2>1. CASE k = h + 1
      BY <1>3, <2>1
    <2>2. CASE k \in 1..h
      BY <1>1, <1>3, <2>2
    <2> QED  BY <2>1, <2>2
  <1> QED  BY <1>2, <1>3, <1>4 DEF Copies, OneKept

\* unchunkify undoes chunkify.
LEMMA ChunksAreUndone ==
    ASSUME NEW s \in Seq(Alpha), Len(s) # 0, Len(s) % ChunkLen = 0
    PROVE  /\ Chunkify(s) \in Seq(Chars) /\ Chunkify(s) # <<>>
           /\ Unchunkify(Chunkify(s)) = s
  <1> DEFINE c == ChunkLen
             m == Len(s) \div c
             n == m * (c + 1) - 1
             t == Chunkify(s)
             H(k) == k - k \div (c + 1)
  <1>1. c \in Nat \ {0} /\ m \in Nat /\ Len(s) = m * c /\ m # 0
    <2>1. Len(s) \in Nat /\ c \in Nat \ {0}
      BY LengthsAre
    <2>2. m \in Nat /\ Len(s) = c * m + (Len(s) % c)
      BY <2>1, DivisionIs
    <2>3. c * m = m * c /\ m * c \in Nat
      BY <2>1, <2>2
    <2>4. Len(s) = m * c
      BY <2>2, <2>3
    <2> HIDE DEF m
    <2> QED  BY <2>1, <2>2, <2>4
  <1>2. t = [i \in 1..n |-> IF i % (c + 1) = 0 THEN Dash ELSE s[i - i \div (c + 1)]]
    BY DEF Chunkify
  <1>3. /\ \A i \in 1..Len(s) : s[i] \in Alpha /\ s[i] # Dash
        /\ s \in Seq(Chars) /\ Len(s) \in Nat
    BY AlphabetIs, AlphaIsChars, ElementOfSeq
  <1> HIDE DEF c, m, t
  <1>4. n \in Nat /\ n # 0 /\ n < m * (c + 1)
    <2>1. m * (c + 1) >= 1 * (c + 1)
      BY <1>1
    <2> QED  BY <1>1, <2>1
  <1>5. ASSUME NEW i \in 1..n
        PROVE  /\ i \div (c + 1) \in Nat /\ (i - 1) \div (c + 1) \in Nat
               /\ i % (c + 1) = 0 => /\ i \div (c + 1) = (i - 1) \div (c + 1) + 1
                                     /\ t[i] = Dash
               /\ i % (c + 1) # 0 => /\ i \div (c + 1) = (i - 1) \div (c + 1)
                                     /\ H(i) \in 1..Len(s) /\ t[i] = s[H(i)]
    <2>1. i \in 1..(m * (c + 1))
      BY <1>1, <1>4
    <2>2. t[i] = IF i % (c + 1) = 0 THEN Dash ELSE s[H(i)]
      BY <1>2
    <2> QED  BY <1>1, <2>1, <2>2, ChunkPlace
  <1>6. t \in Seq(Chars) /\ Len(t) = n
    <2>1. ASSUME NEW i \in 1..n
          PROVE  (IF i % (c + 1) = 0 THEN Dash ELSE s[H(i)]) \in Chars
      <3>1. CASE i % (c + 1) = 0
        BY <3>1 DEF Chars
      <3>2. CASE i % (c + 1) # 0
        <4>1. s[H(i)] \in Alpha
          BY <1>3, <1>5, <3>2
        <4> QED  BY <3>2, <4>1 DEF Chars
      <3> QED  BY <3>1, <3>2
    <2> QED  BY <1>2, <1>4, <2>1
  <1> DEFINE f == Kept(t)
  <1>7. f[0] = <<>> /\ \A k \in 1..n : f[k] = OneKept(f[k - 1], t[k])
    BY <1>4, <1>6, KeptAre DEF Keeps
  <1>8. Unchunkify(t) = f[n]
    BY <1>6 DEF Unchunkify
  <1> HIDE DEF f, n
  <1> DEFINE T == {k \in 0..n : Copies(f[k], s, H(k))}
  <1>9. 0 \in T
    <2>1. 0 \div (c + 1) = 0
      <3>1. c + 1 \in Nat \ {0} /\ 0 = (c + 1) * 0 + 0 /\ 0 \in 0..((c + 1) - 1)
        BY <1>1
      <3> QED  BY <3>1, DivisionIsUnique
    <2>2. Copies(f[0], s, 0)
      BY <1>7, EmptySeq DEF Copies
    <2>3. H(0) = 0
      BY <2>1
    <2>4. 0 \in 0..n
      BY <1>4
    <2> QED  BY <2>2, <2>3, <2>4
  <1>10. ASSUME NEW k \in 0..(n - 1), k \in T PROVE k + 1 \in T
    <2>1. k + 1 \in 1..n /\ k + 1 \in 0..n /\ (k + 1) - 1 = k /\ k \in Nat
      BY <1>4
    <2>2. f[k + 1] = OneKept(f[k], t[k + 1])
      BY <1>7, <2>1
    <2>3. Copies(f[k], s, H(k))
      BY <1>10
    <2>4. CASE (k + 1) % (c + 1) = 0
      <3>1. H(k + 1) = H(k) /\ t[k + 1] = Dash
        <4>1. /\ (k + 1) \div (c + 1) = k \div (c + 1) + 1 /\ t[k + 1] = Dash
              /\ k \div (c + 1) \in Nat
          BY <1>5, <2>1, <2>4
        <4>2. PICK q \in Nat : q = k \div (c + 1)
          BY <4>1
        <4>3. (k + 1) - (q + 1) = k - q
          BY <2>1
        <4> QED  BY <4>1, <4>2, <4>3
      <3>2. f[k + 1] = f[k]
        BY <2>2, <3>1 DEF OneKept
      <3> HIDE DEF H
      <3> QED  BY <2>1, <2>3, <3>1, <3>2
    <2>5. CASE (k + 1) % (c + 1) # 0
      <3>1. /\ H(k + 1) = H(k) + 1 /\ H(k) \in Int
            /\ H(k + 1) \in 1..Len(s) /\ t[k + 1] = s[H(k + 1)]
        <4>1. /\ (k + 1) \div (c + 1) = k \div (c + 1)
              /\ H(k + 1) \in 1..Len(s) /\ t[k + 1] = s[H(k + 1)]
              /\ k \div (c + 1) \in Nat
          BY <1>5, <2>1, <2>5
        <4>2. PICK q \in Nat : q = k \div (c + 1)
          BY <4>1
        <4>3. (k + 1) - q = (k - q) + 1 /\ k - q \in Int
          BY <2>1
        <4> QED  BY <4>1, <4>2, <4>3
      <3> HIDE DEF H
      <3>2. H(k) \in Nat /\ H(k) + 1 \in 1..Len(s) /\ s[H(k) + 1] # Dash
        BY <1>3, <3>1
      <3>3. Copies(OneKept(f[k], s[H(k) + 1]), s, H(k) + 1)
        BY <1>3, <2>3, <3>2, CopiesOneMore
      <3> QED  BY <2>1, <2>2, <3>1, <3>3
    <2> QED  BY <2>4, <2>5
  <1>11. n \in T
    <2>1. n \in 0..n
      BY <1>4
    <2> HIDE DEF T
    <2> QED  BY <1>4, <1>9, <1>10, <2>1, Climb
  <1>12. H(n) = Len(s)
    <2>1. /\ n = (c + 1) * (m - 1) + c /\ m - 1 \in Nat /\ c \in 0..((c + 1) - 1)
          /\ c + 1 \in Nat \ {0}
      BY <1>1 DEF n
    <2>2. n \div (c + 1) = m - 1
      BY <1>4, <2>1, DivisionIsUnique
    <2>3. n - (m - 1) = m * c
      BY <1>1 DEF n
    <2> QED  BY <1>1, <2>2, <2>3
  <1>13. Copies(f[n], s, Len(s))
    BY <1>11, <1>12
  <1>14. f[n] = s
    BY <1>3, <1>13, SeqEqual DEF Copies
  <1>15. t # <<>>
    BY <1>4, <1>6, EmptySeq
  <1> QED  BY <1>6, <1>8, <1>14, <1>15 DEF t

(***************************************************************************)
(* The specification.                                                      *)
(***************************************************************************)
Groups == [1..(Parts * PartLen) -> 0..(N - 1)]
Text(i) == Luhnify(Base32(i))

\* The text t, dashes apart, is that of the id i with n wrong characters.
Passes(i, t, n) == /\ i \in Groups
                   /\ n = 0 => Unchunkify(t) = Text(i)
                   /\ n = 1 => OneWrong(Text(i), Unchunkify(t))

\* What is returned for it.
Outcome(i, n, p) == p # Waiting => /\ n = 0 => p = Read(i)
                                   /\ n = 1 => p = Rejected

IdInv == /\ typed \in Seq(Chars) /\ slips \in {0, 1}
         /\ \/ id = <<>> /\ typed = <<>> /\ slips = 0 /\ parsed = Waiting
            \/ Passes(id, typed, slips) /\ Outcome(id, slips, parsed)

LEMMA Base32Is ==
    ASSUME NEW i \in Groups
    PROVE  /\ Base32(i) \in Seq(Alpha) /\ Len(Base32(i)) = Parts * PartLen
           /\ \A k \in 1..(Parts * PartLen) : Codepoint32(Base32(i)[k]) = i[k]
  <1> DEFINE n == Parts * PartLen
             b == Base32(i)
  <1>1. n \in Nat /\ DOMAIN i = 1..n /\ \A k \in 1..n : i[k] \in 0..(N - 1)
    BY LengthsAre DEF Groups
  <1>2. b = [k \in 1..n |-> LUHN32[i[k] + 1]]
    BY <1>1 DEF Base32
  <1>3. ASSUME NEW k \in 1..n
        PROVE  LUHN32[i[k] + 1] \in Alpha /\ Codepoint32(LUHN32[i[k] + 1]) = i[k]
    BY <1>1, CodepointInverts
  <1> HIDE DEF n, b
  <1>4. b \in Seq(Alpha) /\ Len(b) = n
    BY <1>1, <1>2, <1>3
  <1>5. \A k \in 1..n : Codepoint32(b[k]) = i[k]
    BY <1>2, <1>3
  <1> QED  BY <1>4, <1>5 DEF n, b

LEMMA TextIs ==
    ASSUME NEW i \in Groups
    PROVE  /\ Text(i) \in Seq(Alpha) /\ Len(Text(i)) = Parts * (PartLen + 1)
           /\ Luhnified(Text(i))
           /\ [k \in 1..(Parts * PartLen) |-> Codepoint32(Unluhnify(Text(i))[k])] = i
           /\ \A t : OneWrong(Text(i), t) => ~Luhnified(t)
  <1>1. PICK s : s = Base32(i)
    OBVIOUS
  <1>2. /\ s \in Seq(Alpha) /\ Len(s) = Parts * PartLen
        /\ \A k \in 1..(Parts * PartLen) : Codepoint32(s[k]) = i[k]
    BY <1>1, Base32Is
  <1>3. Text(i) = Luhnify(s)
    BY <1>1 DEF Text
  <1>4. Luhnify(s) \in Seq(Alpha) /\ Len(Luhnify(s)) = Parts * (PartLen + 1)
    BY <1>2, LuhnifyIs
  <1>5. /\ Luhnified(Luhnify(s))
        /\ \A k \in 1..(Parts * PartLen) : Unluhnify(Luhnify(s))[k] = s[k]
    BY <1>2, TextIsLuhnified
  <1>6. [k \in 1..(Parts * PartLen) |-> Codepoint32(Unluhnify(Luhnify(s))[k])] = i
    <2>1. i = [k \in 1..(Parts * PartLen) |-> i[k]]
      BY DEF Groups
    <2>2. \A k \in 1..(Parts * PartLen) : Codepoint32(Unluhnify(Luhnify(s))[k]) = i[k]
      BY <1>2, <1>5
    <2> QED  BY <2>1, <2>2, Zenon
  <1>7. ASSUME NEW t, OneWrong(Luhnify(s), t) PROVE ~Luhnified(t)
    <2>1. PICK p \in 1..Len(Luhnify(s)), c \in Chars :
             c # Luhnify(s)[p] /\ t = [Luhnify(s) EXCEPT ![p] = c]
      BY <1>7 DEF OneWrong
    <2>2. p \in 1..(Parts * (PartLen + 1))
      BY <1>4, <2>1
    <2> QED  BY <1>2, <2>1, <2>2, WrongIsRejected
  <1> QED  BY <1>3, <1>4, <1>5, <1>6, <1>7

LEMMA IdInvInit == IInit => IdInv
  <1> SUFFICES ASSUME IInit PROVE IdInv
    OBVIOUS
  <1>1. typed \in Seq(Chars)
    BY EmptySeq DEF IInit
  <1> QED  BY <1>1 DEF IInit, IdInv

LEMMA IdInvShown == IdInv /\ DeviceidToString => IdInv'
  <1> SUFFICES ASSUME IdInv, DeviceidToString PROVE IdInv'
    OBVIOUS
  <1>1. PICK i \in Groups : i = id'
    BY DEF DeviceidToString, Groups
  <1>2. i # <<>> /\ ~(<<>> \in Groups)
    <2>1. DOMAIN <<>> = {} /\ 1 \in 1..(Parts * PartLen)
      BY LengthsAre
    <2> QED  BY <2>1 DEF Groups
  <1>3. slips = 0 /\ parsed = Waiting
    BY <1>2 DEF IdInv, DeviceidToString, Passes
  <1>4. PICK t : t = Text(i)
    OBVIOUS
  <1>5. /\ t \in Seq(Alpha) /\ Len(t) = Parts * (PartLen + 1)
    BY <1>4, TextIs
  <1>6. Len(t) # 0 /\ Len(t) % ChunkLen = 0
    BY <1>5, LengthsAre
  <1>7. Chunkify(t) \in Seq(Chars) /\ Unchunkify(Chunkify(t)) = t
    BY <1>5, <1>6, ChunksAreUndone
  <1>8. typed' = Chunkify(t) /\ slips' = 0 /\ parsed' = Waiting /\ id' = i
    BY <1>1, <1>3, <1>4 DEF DeviceidToString, Text
  <1>9. Passes(i, Chunkify(t), 0) /\ Outcome(i, 0, Waiting)
    BY <1>4, <1>7 DEF Passes, Outcome
  <1> QED  BY <1>7, <1>8, <1>9 DEF IdInv

LEMMA IdInvMistyped == IdInv /\ Mistype => IdInv'
  <1> SUFFICES ASSUME IdInv, Mistype PROVE IdInv'
    OBVIOUS
  <1>1. /\ typed \in Seq(Chars) /\ slips = 0 /\ parsed = Waiting
        /\ id' = id /\ parsed' = Waiting
        /\ id \in Groups /\ Unchunkify(typed) = Text(id)
    BY DEF IdInv, Mistype, Passes
  <1>2. PICK i \in 1..Len(typed) :
           \/ /\ typed[i] # Dash
              /\ \E c \in (Range(LUHN32) \cup {Unknown}) \ {typed[i]} :
                    typed' = [typed EXCEPT ![i] = c]
              /\ slips' = 1
           \/ /\ typed[i] = Dash
              /\ typed' = RemoveAt(typed, i)
              /\ slips' = slips
    BY DEF Mistype
  <1>3. \A n : Outcome(id, n, Waiting)
    BY DEF Outcome
  <1>4. CASE /\ typed[i] # Dash
             /\ \E c \in (Range(LUHN32) \cup {Unknown}) \ {typed[i]} :
                   typed' = [typed EXCEPT ![i] = c]
             /\ slips' = 1
    <2>1. PICK c \in (Range(LUHN32) \cup {Unknown}) \ {typed[i]} :
             typed' = [typed EXCEPT ![i] = c]
      BY <1>4
    <2>2. c \in Chars /\ c # Dash /\ c # typed[i]
      BY <2>1, IdAssumption DEF Chars, Alpha
    <2>3. PICK t \in Seq(Chars) : t = typed
      BY <1>1
    <2>4. i \in 1..Len(t) /\ t[i] # Dash /\ c # t[i]
      BY <1>4, <2>2, <2>3
    <2>5. typed' \in Seq(Chars) /\ OneWrong(Text(id), Unchunkify(typed'))
      <3>1. typed' = [t EXCEPT ![i] = c] /\ Unchunkify(t) = Text(id)
        BY <1>1, <2>1, <2>3
      <3>2. /\ [t EXCEPT ![i] = c] \in Seq(Chars)
            /\ OneWrong(Unchunkify(t), Unchunkify([t EXCEPT ![i] = c]))
        BY <2>2, <2>4, WrongOne
      <3> QED  BY <3>1, <3>2, Zenon
    <2>6. Passes(id, typed', 1)
      BY <1>1, <2>5 DEF Passes
    <2> QED  BY <1>1, <1>3, <1>4, <2>5, <2>6 DEF IdInv
  <1>5. CASE typed[i] = Dash /\ typed' = RemoveAt(typed, i) /\ slips' = slips
    <2>1. typed' \in Seq(Chars) /\ Unchunkify(typed') = Text(id)
      BY <1>1, <1>5, DashLess
    <2>2. Passes(id, typed', 0)
      BY <1>1, <2>1 DEF Passes
    <2> QED  BY <1>1, <1>3, <1>5, <2>1, <2>2 DEF IdInv
  <1> QED  BY <1>2, <1>4, <1>5

LEMMA IdInvRead == IdInv /\ DeviceidFromString => IdInv'
  <1> SUFFICES ASSUME IdInv, DeviceidFromString PROVE IdInv'
    OBVIOUS
  <1>1. /\ typed \in Seq(Chars) /\ slips \in {0, 1}
        /\ Passes(id, typed, slips) /\ typed # <<>> /\ parsed = Waiting
        /\ id' = id /\ typed' = typed /\ slips' = slips
    BY DEF IdInv, DeviceidFromString
  <1>2. PICK s : s = Unchunkify(typed)
    OBVIOUS
  <1>3. parsed' = IF Luhnified(s)
                  THEN Read([i \in 1..(Parts * PartLen) |-> Codepoint32(Unluhnify(s)[i])])
                  ELSE Rejected
    BY <1>2 DEF DeviceidFromString
  <1>4. id \in Groups
    BY <1>1 DEF Passes
  <1>5. ASSUME slips = 0 PROVE parsed' = Read(id)
    <2>1. s = Text(id)
      BY <1>1, <1>2, <1>5 DEF Passes
    <2>2. /\ Luhnified(s)
          /\ [k \in 1..(Parts * PartLen) |-> Codepoint32(Unluhnify(s)[k])] = id
      BY <1>4, <2>1, TextIs
    <2> QED  BY <1>3, <2>2
  <1>6. ASSUME slips = 1 PROVE parsed' = Rejected
    <2>1. OneWrong(Text(id), s)
      BY <1>1, <1>2, <1>6 DEF Passes
    <2>2. ~Luhnified(s)
      BY <1>4, <2>1, TextIs
    <2> QED  BY <1>3, <2>2
  <1>7. Outcome(id, slips, parsed')
    BY <1>5, <1>6 DEF Outcome
  <1> QED  BY <1>1, <1>7 DEF IdInv

LEMMA IdInvNext == IdInv /\ [INext]_ivars => IdInv'
  <1> SUFFICES ASSUME IdInv, [INext]_ivars PROVE IdInv'
    OBVIOUS
  <1>1. CASE DeviceidToString
    BY <1>1, IdInvShown
  <1>2. CASE Mistype
    BY <1>2, IdInvMistyped
  <1>3. CASE DeviceidFromString
    BY <1>3, IdInvRead
  <1>4. CASE UNCHANGED ivars
    BY <1>4 DEF ivars, IdInv
  <1> QED  BY <1>1, <1>2, <1>3, <1>4 DEF INext

LEMMA IdInvAlways == ISpec => []IdInv
  BY IdInvInit, IdInvNext, PTL DEF ISpec

\* Any id that deviceid_to_string shows is what deviceid_from_string reads from
\* the text, whichever of the dashes were left out: chunkify and luhnify are
\* undone whatever the alphabet and the lengths.
THEOREM ShownIsRead == ISpec => []IdRoundTrip
  <1>1. IdInv => IdRoundTrip
    BY DEF IdInv, IdRoundTrip, Outcome
  <1> QED  BY <1>1, IdInvAlways, PTL

\* deviceid_from_string refuses every text that differs from that of an id in
\* one character, in a part or a check character: for an even alphabet the
\* addends of syncthing_luhn32 differ at both factors.
THEOREM OneSlipIsNoticed == ISpec => []MistypedIdRejected
  <1>1. IdInv => MistypedIdRejected
    BY DEF IdInv, MistypedIdRejected, Outcome
  <1> QED  BY <1>1, IdInvAlways, PTL
=============================================================================
