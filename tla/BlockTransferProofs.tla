------------------------- MODULE BlockTransferProofs -------------------------
(***************************************************************************)
(* A transfer that ends well is exact, for files of any length, any table  *)
(* of block sizes, any width of the integers and any number of changes.    *)
(***************************************************************************)
EXTENDS BlockTransfer, SequenceTheorems, WellFoundedInduction, TLAPS

Byte  == Nat \X Nat
Block == [offset : Nat, size : Int, hash : Seq(Byte)]

(***************************************************************************)
(* Numbers and sequences.                                                  *)
(***************************************************************************)

\* A set of natural numbers has a least one.
LEMMA LeastNumber ==
    ASSUME NEW T \in SUBSET Nat, T # {}
    PROVE  \E n \in T : \A m \in T : n <= m
  <1>1. PICK n \in T : \A m \in T : ~(<<m, n>> \in OpToRel(<, Nat))
    BY NatLessThanWellFounded, WFMin
  <1>2. \A m \in Nat, k \in Nat : m < k => <<m, k>> \in OpToRel(<, Nat)
    <2> SUFFICES ASSUME NEW m \in Nat, NEW k \in Nat, m < k
                 PROVE  <<m, k>> \in OpToRel(<, Nat)
      OBVIOUS
    <2> DEFINE p == <<m, k>>
    <2>1. p \in Nat \X Nat /\ p[1] = m /\ p[2] = k
      OBVIOUS
    <2>2. p[1] < p[2]
      BY <2>1
    <2> HIDE DEF p
    <2>3. p \in OpToRel(<, Nat)
      BY <2>1, <2>2, Zenon DEF OpToRel
    <2> QED  BY <2>3, Zenon DEF p
  <1>3. \A m \in T : ~(m < n)
    BY <1>1, <1>2, Zenon
  <1>4. \A m \in T : n <= m
    BY <1>3
  <1> QED  BY <1>4

LEMMA MinIsMember ==
    ASSUME NEW T \in SUBSET Nat, T # {}
    PROVE  Min(T) \in T
  BY LeastNumber DEF Min

LEMMA MaxOfTwo ==
    ASSUME NEW a \in Nat, NEW b \in Nat
    PROVE  Max({a, b}) = IF a >= b THEN a ELSE b
  <1> DEFINE m == IF a >= b THEN a ELSE b
  <1>1. m \in {a, b} /\ \A y \in {a, b} : m >= y
    OBVIOUS
  <1>2. \A x \in {a, b} : (\A y \in {a, b} : x >= y) => x = m
    OBVIOUS
  <1> QED  BY <1>1, <1>2 DEF Max

LEMMA SliceIs ==
    ASSUME NEW s \in Seq(Byte), NEW o \in Nat, NEW n \in Nat, o + n <= Len(s)
    PROVE  /\ Slice(s, o, n) \in Seq(Byte) /\ Len(Slice(s, o, n)) = n
           /\ \A i \in 1..n : Slice(s, o, n)[i] = s[o + i]
  <1>1. \A i \in (o + 1)..(o + n) : s[i] \in Byte
    BY ElementOfSeq
  <1>2. /\ SubSeq(s, o + 1, o + n) \in Seq(Byte)
        /\ Len(SubSeq(s, o + 1, o + n)) = IF o + 1 <= o + n THEN (o + n) - (o + 1) + 1 ELSE 0
        /\ \A i \in 1..((o + n) - (o + 1) + 1) : SubSeq(s, o + 1, o + n)[i] = s[(o + 1) + i - 1]
    BY <1>1, SubSeqProperties
  <1> QED  BY <1>2 DEF Slice

\* write_block leaves what is before and after the block.
LEMMA WriteBytesIs ==
    ASSUME NEW c \in Seq(Byte), NEW o \in Nat, o <= Len(c), NEW d \in Seq(Byte)
    PROVE  LET w == WriteBytes(c, o, d)
           IN  /\ w \in Seq(Byte)
               /\ Len(w) = IF Len(c) >= o + Len(d) THEN Len(c) ELSE o + Len(d)
               /\ \A i \in 1..Len(d) : w[o + i] = d[i]
               /\ \A i \in 1..o : w[i] = c[i]
  <1> DEFINE n == IF Len(c) >= o + Len(d) THEN Len(c) ELSE o + Len(d)
             w == [i \in 1..n |-> IF i \in (o + 1)..(o + Len(d)) THEN d[i - o] ELSE c[i]]
  <1>1. Len(c) \in Nat /\ Len(d) \in Nat /\ n \in Nat
    OBVIOUS
  <1>2. WriteBytes(c, o, d) = w
    BY <1>1, MaxOfTwo DEF WriteBytes
  <1>3. \A i \in 1..n : w[i] \in Byte
    <2> SUFFICES ASSUME NEW i \in 1..n
                 PROVE  (IF i \in (o + 1)..(o + Len(d)) THEN d[i - o] ELSE c[i]) \in Byte
      OBVIOUS
    <2>1. CASE i \in (o + 1)..(o + Len(d))
      <3>1. i - o \in 1..Len(d)
        BY <1>1, <2>1
      <3> QED  BY <2>1, <3>1, ElementOfSeq
    <2>2. CASE i \notin (o + 1)..(o + Len(d))
      <3>1. i \in 1..Len(c)
        BY <1>1, <2>2
      <3> QED  BY <2>2, <3>1, ElementOfSeq
    <2> QED  BY <2>1, <2>2
  <1>4. w \in Seq(Byte) /\ Len(w) = n
    BY <1>1, <1>3, IsASeq
  <1>5. \A i \in 1..Len(d) : w[o + i] = d[i]
    <2> SUFFICES ASSUME NEW i \in 1..Len(d) PROVE w[o + i] = d[i]
      OBVIOUS
    <2>1. o + i \in 1..n /\ o + i \in (o + 1)..(o + Len(d)) /\ (o + i) - o = i
      BY <1>1
    <2> QED  BY <2>1
  <1>6. \A i \in 1..o : w[i] = c[i]
    BY <1>1
  <1> QED  BY <1>2, <1>4, <1>5, <1>6, Zenon

(***************************************************************************)
(* gen_blocks.                                                             *)
(***************************************************************************)
LEMMA BlockSizePositive ==
    ASSUME NEW n \in Nat
    PROVE  BlockSize(n) \in Nat \ {0}
  <1> DEFINE fits == {k \in 1..Len(Tiers) : n < Tiers[k].below}
  <1>1. \A k \in 1..Len(Tiers) : Tiers[k].block \in Nat \ {0}
    <2>1. Tiers \in Seq([below : Nat, block : Nat \ {0}])
      BY BlockAssumption
    <2>2. \A k \in 1..Len(Tiers) : Tiers[k] \in [below : Nat, block : Nat \ {0}]
      BY <2>1, ElementOfSeq
    <2> QED  BY <2>2
  <1>2. CASE fits = {}
    BY <1>2, BlockAssumption DEF BlockSize
  <1>3. CASE fits # {}
    <2>1. fits \in SUBSET Nat
      OBVIOUS
    <2>2. Min(fits) \in fits
      BY <1>3, <2>1, MinIsMember
    <2> QED  BY <1>1, <1>3, <2>2 DEF BlockSize
  <1> QED  BY <1>2, <1>3

LEMMA DivisionIs ==
    ASSUME NEW a \in Nat, NEW b \in Nat \ {0}
    PROVE  /\ a \div b \in Nat /\ a % b \in 0..(b - 1)
           /\ a = b * (a \div b) + (a % b)
  OBVIOUS

LEMMA LengthIs ==
    ASSUME NEW n \in Nat
    PROVE  AsU32(n) \in Nat /\ AsU32(n) <= n /\ (n < U32 => AsU32(n) = n)
  <1>1. U32 \in Nat \ {0}
    BY BlockAssumption
  <1>2. n % U32 \in Nat /\ n % U32 <= n /\ (n < U32 => n % U32 = n)
    <2>1. /\ n \div U32 \in Nat /\ n % U32 \in 0..(U32 - 1)
          /\ n = U32 * (n \div U32) + (n % U32)
      BY <1>1, DivisionIs
    <2>2. U32 * (n \div U32) \in Nat
      BY <1>1, <2>1
    <2>3. n < U32 => n % U32 = n
      BY <1>1
    <2> QED  BY <2>1, <2>2, <2>3
  <1> QED  BY <1>2 DEF AsU32

\* The blocks but the last are shorter than the file, with the last they are not.
LEMMA NumBlocksIs ==
    ASSUME NEW n \in Nat
    PROVE  LET b == BlockSize(n)
               q == NumBlocks(n)
           IN  /\ b \in Nat \ {0} /\ q \in Nat
               /\ b * (q - 1) < n /\ n <= b * q
               /\ n > 0 => q > 0
  <1> DEFINE b == BlockSize(n)
             a == n + b - 1
             q == a \div b
  <1>1. b \in Nat \ {0}
    BY BlockSizePositive
  <1> HIDE DEF b
  <1>2. a \in Nat
    BY <1>1
  <1>3. q \in Nat /\ a % b \in 0..(b - 1) /\ a = b * q + (a % b)
    BY <1>1, <1>2, DivisionIs
  <1>4. q = NumBlocks(n)
    BY DEF NumBlocks, b
  <1> HIDE DEF q
  <1>5. b * q \in Nat /\ b * (q - 1) = b * q - b
    BY <1>1, <1>3
  <1>6. b * (q - 1) < n /\ n <= b * q
    BY <1>1, <1>3, <1>5
  <1>7. n > 0 => q > 0
    <2>1. q = 0 => b * q = 0
      BY <1>1
    <2> QED  BY <1>3, <1>6, <2>1
  <1> QED  BY <1>1, <1>3, <1>4, <1>6, <1>7 DEF b

\* The blocks x lie next to each other and cover the bytes s.
Tiles(x, s) ==
    /\ x \in Seq(Block) /\ Len(x) > 0 /\ x[1].offset = 0
    /\ \A k \in 1..Len(x) :
          /\ Len(x[k].hash) > 0 /\ x[k].offset + Len(x[k].hash) <= Len(s)
          /\ \A i \in 1..Len(x[k].hash) : x[k].hash[i] = s[x[k].offset + i]
    /\ \A k \in 1..(Len(x) - 1) : x[k + 1].offset = x[k].offset + Len(x[k].hash)
    /\ \A k \in 2..Len(x) : x[k].offset >= Len(x[1].hash)
    /\ x[Len(x)].offset + Len(x[Len(x)].hash) = Len(s)

LEMMA GenBlocksTiles ==
    ASSUME NEW s \in Seq(Byte), CanSplit(s)
    PROVE  Tiles(GenBlocks(s), s)
  <1> DEFINE len == AsU32(Len(s))
             b == BlockSize(len)
             n == NumBlocks(len)
             x == GenBlocks(s)
             o(k) == b * (k - 1)
             tail == SubSeq(s, o(n) + 1, Len(s))
  <1>1. len \in Nat /\ len <= Len(s) /\ Len(s) \in Nat
    BY LengthIs
  <1>2. b \in Nat \ {0} /\ n \in Nat \ {0} /\ o(n) < len
    BY <1>1, NumBlocksIs DEF CanSplit
  <1>3. x = [k \in 1..n |->
               IF k < n THEN [offset |-> o(k), size |-> b, hash |-> Slice(s, o(k), b)]
               ELSE [offset |-> o(n), size |-> Rem(AsI32(len), b), hash |-> tail]]
    BY DEF GenBlocks
  <1>4. Rem(AsI32(len), b) \in Int
    <2>1. AsI32(len) \in Int
      BY <1>1, BlockAssumption DEF AsI32
    <2> QED  BY <1>2, <2>1 DEF Rem
  <1> HIDE DEF len, b, n, x
  <1>5. o(1) = 0 /\ \A k \in 1..n : /\ o(k) \in Nat
                                    /\ k > 1 => o(k) >= b
                                    /\ o(k + 1) = o(k) + b
                                    /\ k < n => o(k) + b <= o(n)
    <2>0. o(1) = 0
      BY <1>2
    <2> SUFFICES ASSUME NEW k \in 1..n
                 PROVE  /\ o(k) \in Nat
                        /\ k > 1 => o(k) >= b
                        /\ o(k + 1) = o(k) + b
                        /\ k < n => o(k) + b <= o(n)
      BY <2>0
    <2>1. o(k) \in Nat /\ o(k + 1) = o(k) + b
      BY <1>2
    <2>2. k > 1 => o(k) >= b
      <3>1. o(k) = b * (k - 2) + b
        BY <1>2
      <3>2. k > 1 => b * (k - 2) >= 0
        BY <1>2
      <3> QED  BY <1>2, <3>1, <3>2
    <2>3. k < n => o(k) + b <= o(n)
      <3>1. o(n) = o(k) + b + b * (n - 1 - k)
        BY <1>2
      <3>2. k < n => b * (n - 1 - k) >= 0
        BY <1>2
      <3> QED  BY <1>2, <2>1, <3>1, <3>2
    <2> QED  BY <2>1, <2>2, <2>3
  <1> HIDE DEF o
  <1>6. o(n) \in Nat /\ o(n) < Len(s)
    BY <1>1, <1>2, <1>5
  <1>7. /\ tail \in Seq(Byte) /\ Len(tail) = Len(s) - o(n)
        /\ \A i \in 1..Len(tail) : tail[i] = s[o(n) + i]
    <2>1. \A i \in (o(n) + 1)..Len(s) : s[i] \in Byte
      BY <1>6, ElementOfSeq
    <2>2. /\ tail \in Seq(Byte)
          /\ Len(tail) = IF o(n) + 1 <= Len(s) THEN Len(s) - (o(n) + 1) + 1 ELSE 0
          /\ \A i \in 1..(Len(s) - (o(n) + 1) + 1) : tail[i] = s[(o(n) + 1) + i - 1]
      BY <1>1, <1>6, <2>1, SubSeqProperties
    <2> HIDE DEF tail
    <2>3. Len(tail) = Len(s) - o(n)
      BY <1>1, <1>6, <2>2
    <2>4. ASSUME NEW i \in 1..Len(tail) PROVE tail[i] = s[o(n) + i]
      <3>1. i \in 1..(Len(s) - (o(n) + 1) + 1) /\ (o(n) + 1) + i - 1 = o(n) + i
        BY <1>1, <1>6, <2>3
      <3> QED  BY <2>2, <3>1
    <2> QED  BY <2>2, <2>3, <2>4
  <1> HIDE DEF tail
  <1>8. ASSUME NEW k \in 1..n
        PROVE  /\ x[k] \in Block /\ x[k].offset = o(k)
               /\ Len(x[k].hash) = IF k < n THEN b ELSE Len(s) - o(n)
               /\ \A i \in 1..Len(x[k].hash) : x[k].hash[i] = s[o(k) + i]
    <2>0. o(k) \in Nat
      BY <1>5
    <2>1. CASE k < n
      <3> DEFINE h == Slice(s, o(k), b)
      <3>1. h \in Seq(Byte) /\ Len(h) = b /\ \A i \in 1..b : h[i] = s[o(k) + i]
        <4>1. o(k) + b <= Len(s)
          BY <1>1, <1>2, <1>5, <1>6, <2>0, <2>1
        <4> QED  BY <1>2, <2>0, <4>1, SliceIs
      <3>2. x[k] = [offset |-> o(k), size |-> b, hash |-> h]
        BY <1>3, <2>1
      <3> HIDE DEF h
      <3>3. x[k] \in Block /\ x[k].offset = o(k) /\ x[k].hash = h
        BY <1>2, <2>0, <3>1, <3>2 DEF Block
      <3> QED  BY <2>1, <3>1, <3>3
    <2>2. CASE k = n
      <3>1. x[k] = [offset |-> o(n), size |-> Rem(AsI32(len), b), hash |-> tail]
        BY <1>2, <1>3, <2>2
      <3>2. x[k] \in Block /\ x[k].offset = o(n) /\ x[k].hash = tail
        BY <1>4, <1>6, <1>7, <3>1 DEF Block
      <3> QED  BY <1>2, <1>7, <2>2, <3>2
    <2> QED  BY <1>2, <2>1, <2>2
  <1>9. x \in Seq(Block) /\ Len(x) = n
    <2>1. \A k \in 1..n : x[k] \in Block
      BY <1>8
    <2>2. x = [k \in 1..n |-> x[k]]
      BY <1>3
    <2> QED  BY <1>2, <2>1, <2>2, IsASeq
  <1>10. x[1].offset = 0
    BY <1>2, <1>5, <1>8
  <1>11. ASSUME NEW k \in 1..n
         PROVE  /\ Len(x[k].hash) > 0 /\ x[k].offset + Len(x[k].hash) <= Len(s)
                /\ \A i \in 1..Len(x[k].hash) : x[k].hash[i] = s[x[k].offset + i]
    <2>1. Len(x[k].hash) > 0 /\ o(k) + Len(x[k].hash) <= Len(s)
      <3>1. Len(x[k].hash) = IF k < n THEN b ELSE Len(s) - o(n)
        BY <1>8
      <3>2. CASE k < n
        <4>1. o(k) \in Nat /\ o(k) + b <= o(n) /\ Len(x[k].hash) = b
          BY <1>5, <3>1, <3>2
        <4> QED  BY <1>1, <1>2, <1>6, <4>1
      <3>3. CASE k = n
        BY <1>1, <1>2, <1>6, <3>1, <3>3
      <3> QED  BY <1>2, <3>2, <3>3
    <2> QED  BY <1>8, <2>1
  <1>12. ASSUME NEW k \in 1..(n - 1)
         PROVE  x[k + 1].offset = x[k].offset + Len(x[k].hash)
    <2>1. k \in 1..n /\ k < n /\ k + 1 \in 1..n
      BY <1>2
    <2> QED  BY <1>5, <1>8, <2>1
  <1>13. ASSUME NEW k \in 2..n
         PROVE  x[k].offset >= Len(x[1].hash)
    <2>1. 1 \in 1..n /\ 1 < n /\ k \in 1..n /\ k > 1
      BY <1>2
    <2> QED  BY <1>2, <1>5, <1>8, <2>1
  <1>14. x[n].offset + Len(x[n].hash) = Len(s)
    <2>1. n \in 1..n /\ ~(n < n)
      BY <1>2
    <2> QED  BY <1>1, <1>6, <1>8, <2>1
  <1>15. Tiles(x, s)
    <2>1. \A k \in 1..Len(x) :
             /\ Len(x[k].hash) > 0 /\ x[k].offset + Len(x[k].hash) <= Len(s)
             /\ \A i \in 1..Len(x[k].hash) : x[k].hash[i] = s[x[k].offset + i]
      BY <1>9, <1>11
    <2>2. \A k \in 1..(Len(x) - 1) : x[k + 1].offset = x[k].offset + Len(x[k].hash)
      BY <1>9, <1>12
    <2>3. \A k \in 2..Len(x) : x[k].offset >= Len(x[1].hash)
      BY <1>9, <1>13
    <2>4. x[Len(x)].offset + Len(x[Len(x)].hash) = Len(s) /\ Len(x) > 0
      BY <1>2, <1>9, <1>14
    <2> QED  BY <1>9, <1>10, <2>1, <2>2, <2>3, <2>4, Zenon DEF Tiles
  <1> QED  BY <1>15 DEF x

\* The size that goes with a block is its length, if the length of the file can be
\* expressed.
LEMMA GenBlocksSizes ==
    ASSUME NEW s \in Seq(Byte), Expressible(Len(s))
    PROVE  /\ CanSplit(s)
           /\ \A k \in 1..Len(GenBlocks(s)) :
                 GenBlocks(s)[k].size = Len(GenBlocks(s)[k].hash)
  <1> DEFINE len == Len(s)
             b == BlockSize(len)
             n == NumBlocks(len)
             tail == SubSeq(s, b * (n - 1) + 1, Len(s))
  <1>1. len \in Nat /\ len > 0 /\ len <= I32Max /\ len % b # 0
    BY DEF Expressible
  <1>2. AsU32(len) = len /\ AsI32(len) = len
    <2>1. U32 \in Nat \ {0} /\ I32Max < U32
      BY BlockAssumption DEF I32Max
    <2> QED  BY <1>1, <2>1, LengthIs, BlockAssumption DEF AsI32, I32Max
  <1>3. b \in Nat \ {0} /\ n \in Nat \ {0} /\ b * (n - 1) < len /\ len <= b * n
    BY <1>1, NumBlocksIs
  <1>4. CanSplit(s)
    BY <1>2, <1>3 DEF CanSplit
  <1>5. GenBlocks(s) = [k \in 1..n |->
               IF k < n THEN [offset |-> b * (k - 1), size |-> b,
                              hash |-> Slice(s, b * (k - 1), b)]
               ELSE [offset |-> b * (n - 1), size |-> Rem(len, b), hash |-> tail]]
    BY <1>2 DEF GenBlocks
  <1> HIDE DEF b, n
  <1>6. Rem(len, b) = len - b * (n - 1)
    <2>1. len \div b \in Nat /\ len % b \in 0..(b - 1) /\ len = b * (len \div b) + (len % b)
      BY <1>1, <1>3, DivisionIs
    <2>2. len \div b = n - 1
      <3> DEFINE q == len \div b
      <3>1. q \in Nat /\ b * q < len /\ len < b * q + b
        BY <1>1, <1>3, <2>1
      <3> HIDE DEF q
      <3>2. ~(q >= n)
        <4>1. q >= n => b * q >= b * n
          BY <1>3, <3>1
        <4> QED  BY <1>1, <1>3, <3>1, <4>1
      <3>3. ~(q + 1 <= n - 1)
        <4>1. q + 1 <= n - 1 => b * (q + 1) <= b * (n - 1)
          BY <1>3, <3>1
        <4>2. b * (q + 1) = b * q + b
          BY <1>3, <3>1
        <4> QED  BY <1>1, <1>3, <3>1, <4>1, <4>2
      <3> QED  BY <1>3, <3>1, <3>2, <3>3 DEF q
    <2>3. Rem(len, b) = len % b
      BY <1>1 DEF Rem
    <2> QED  BY <1>1, <1>3, <2>1, <2>2, <2>3
  <1>7. Tiles(GenBlocks(s), s)
    BY <1>4, GenBlocksTiles
  <1>8. Len(GenBlocks(s)) = n
    BY <1>3, <1>5
  <1>9. ASSUME NEW k \in 1..n PROVE GenBlocks(s)[k].size = Len(GenBlocks(s)[k].hash)
    <2>1. CASE k < n
      <3>1. GenBlocks(s)[k].offset = b * (k - 1) /\ GenBlocks(s)[k].size = b
        BY <1>5, <2>1
      <3>2. GenBlocks(s)[k + 1].offset = b * ((k + 1) - 1)
        <4>1. k + 1 \in 1..n
          BY <1>3, <2>1
        <4> QED  BY <1>3, <1>5, <4>1
      <3>3. GenBlocks(s)[k + 1].offset = GenBlocks(s)[k].offset + Len(GenBlocks(s)[k].hash)
        BY <1>3, <1>7, <1>8, <2>1 DEF Tiles
      <3>4. b * ((k + 1) - 1) = b * (k - 1) + b
        BY <1>3
      <3>5. Len(GenBlocks(s)[k].hash) \in Nat
        BY <1>7, <1>8, ElementOfSeq DEF Tiles, Block
      <3> QED  BY <1>3, <3>1, <3>2, <3>3, <3>4, <3>5
    <2>2. CASE k = n
      <3>1. GenBlocks(s)[n].offset = b * (n - 1) /\ GenBlocks(s)[n].size = Rem(len, b)
        BY <1>3, <1>5
      <3>2. GenBlocks(s)[n].offset + Len(GenBlocks(s)[n].hash) = len
        BY <1>7, <1>8 DEF Tiles
      <3>3. Len(GenBlocks(s)[n].hash) \in Nat
        BY <1>3, <1>7, <1>8, ElementOfSeq DEF Tiles, Block
      <3>4. b * (n - 1) \in Nat
        BY <1>3
      <3> QED  BY <1>1, <1>6, <2>2, <3>1, <3>2, <3>3, <3>4
    <2> QED  BY <1>3, <2>1, <2>2
  <1> QED  BY <1>4, <1>8, <1>9
-----------------------------------------------------------------------------
(***************************************************************************)
(* The inductive invariant.                                                *)
(***************************************************************************)
BTypes == /\ source \in Seq(Byte) /\ copy \in Seq(Byte) /\ meant \in Seq(Byte)
          /\ at \in Nat /\ changes \in Nat /\ synced \in BOOLEAN

\* There is no Index yet, or it has the blocks of what was announced.
Indexed ==
    \/ index = <<>> /\ meant = <<>> /\ at = 0 /\ ~synced /\ ended # "Ok"
    \/ index = GenBlocks(meant) /\ Tiles(index, meant) /\ at \in 0..Len(index)

\* The copy begins with the first k bytes of what was announced.
BeginsWith(k) == Len(copy) >= k /\ \A i \in 1..k : copy[i] = meant[i]

\* The blocks before the one that is asked for are there, and the first one is
\* once the row says that the version is synced.
Written  == at # 0 => BeginsWith(index[at].offset)
HasFirst == synced => at # 1 /\ BeginsWith(Len(index[1].hash))
HasAll   == ended = "Ok" => synced /\ at = 0 /\ BeginsWith(Len(meant))

\* Nothing becomes shorter.
Grows == ~Shrinks => Len(copy) <= Len(meant) /\ Len(meant) <= Len(source)

\* A file that nobody has changed and whose length can be expressed is what was
\* announced, and every Response is good.
Steady ==
    /\ answer # <<>> => at # 0
    /\ changes = 0 => index = <<>> \/ meant = source
    /\ (changes = 0 /\ Expressible(Len(source))) =>
          /\ ended \notin {"Err", "unsplit"}
          /\ answer # <<>> => /\ answer[1].code = "NoError"
                              /\ answer[1].data = index[at].hash

TransferInv == BTypes /\ Indexed /\ Written /\ HasFirst /\ HasAll /\ Grows /\ Steady

LEMMA BytesIsSeq ==
    ASSUME NEW e \in Nat, NEW n \in Nat
    PROVE  Bytes(e, n) \in Seq(Byte) /\ Len(Bytes(e, n)) = n
  <1>1. \A i \in 1..n : <<e, i>> \in Byte
    BY DEF Byte
  <1> QED  BY <1>1, IsASeq DEF Bytes

LEMMA InitTransfer == BInit => TransferInv
  <1> SUFFICES ASSUME BInit PROVE TransferInv
    OBVIOUS
  <1>1. source \in Seq(Byte)
    <2>1. PICK n \in Sizes : source = Bytes(1, n)
      BY DEF BInit
    <2>2. n \in Nat
      BY BlockAssumption
    <2> QED  BY <2>1, <2>2, BytesIsSeq
  <1>2. BTypes
    <2>1. <<>> \in Seq(Byte)
      BY EmptySeq
    <2> QED  BY <1>1, <2>1 DEF BInit, BTypes
  <1>3. Indexed /\ Written /\ HasFirst /\ HasAll /\ Steady
    BY DEF BInit, Indexed, Written, HasFirst, HasAll, Steady
  <1>4. Grows
    BY <1>1 DEF BInit, Grows
  <1> QED  BY <1>2, <1>3, <1>4 DEF TransferInv

LEMMA ChangeStep ==
    ASSUME TransferInv, Change
    PROVE  TransferInv'
  <1>1. /\ UNCHANGED <<copy, index, meant, at, answer, ended, synced>>
        /\ changes' = changes + 1 /\ changes \in Nat
    BY DEF TransferInv, BTypes, Change
  <1>2. PICK n \in Sizes :
           \/ (n >= Len(source) \/ Shrinks) /\ source' = Bytes(changes + 2, n)
           \/ source' = source \o Bytes(changes + 2, n)
    BY DEF Change
  <1>3. /\ Bytes(changes + 2, n) \in Seq(Byte) /\ Len(Bytes(changes + 2, n)) = n
        /\ n \in Nat /\ source \in Seq(Byte) /\ Len(source) \in Nat
    <2>1. n \in Nat /\ changes + 2 \in Nat
      BY <1>1, BlockAssumption
    <2>2. source \in Seq(Byte) /\ Len(source) \in Nat
      BY DEF TransferInv, BTypes
    <2> QED  BY <2>1, <2>2, BytesIsSeq
  <1>4. source' \in Seq(Byte) /\ (~Shrinks => Len(source') >= Len(source))
    <2>1. CASE (n >= Len(source) \/ Shrinks) /\ source' = Bytes(changes + 2, n)
      BY <1>3, <2>1
    <2>2. CASE source' = source \o Bytes(changes + 2, n)
      BY <1>3, <2>2, ConcatProperties
    <2> QED  BY <1>2, <2>1, <2>2
  <1>5. BTypes'
    BY <1>1, <1>4 DEF TransferInv, BTypes
  <1>6. Indexed' /\ Written' /\ HasFirst' /\ HasAll'
    BY <1>1 DEF TransferInv, Indexed, Written, HasFirst, HasAll, BeginsWith
  <1>7. Grows'
    <2>1. Len(copy) \in Nat /\ Len(meant) \in Nat /\ Len(source) \in Nat /\ Len(source') \in Nat
      BY <1>4 DEF TransferInv, BTypes
    <2> QED  BY <1>1, <1>4, <2>1 DEF TransferInv, Grows
  <1>8. Steady'
    BY <1>1 DEF TransferInv, Steady
  <1> QED  BY <1>5, <1>6, <1>7, <1>8 DEF TransferInv

LEMMA AnnounceStep ==
    ASSUME TransferInv, Announce
    PROVE  TransferInv'
  <1>1. /\ UNCHANGED <<source, copy, at, answer, changes>> /\ at = 0
        /\ index' = GenBlocks(source) /\ meant' = source /\ CanSplit(source)
        /\ synced' = FALSE /\ ended' = "never"
    BY DEF Announce
  <1>2. source \in Seq(Byte) /\ copy \in Seq(Byte) /\ meant \in Seq(Byte)
    BY DEF TransferInv, BTypes
  <1>3. Tiles(index', meant')
    BY <1>1, <1>2, GenBlocksTiles
  <1>4. BTypes'
    BY <1>1, <1>2 DEF TransferInv, BTypes
  <1>5. Indexed'
    <2>1. Len(index') \in Nat
      BY <1>3 DEF Tiles
    <2> QED  BY <1>1, <1>3, <2>1 DEF Indexed
  <1>6. Written' /\ HasFirst' /\ HasAll'
    BY <1>1 DEF Written, HasFirst, HasAll
  <1>7. Grows'
    <2>1. Len(copy) \in Nat /\ Len(meant) \in Nat /\ Len(source) \in Nat
      BY <1>2
    <2> QED  BY <1>1, <2>1 DEF TransferInv, Grows
  <1>8. Steady'
    BY <1>1 DEF TransferInv, Steady
  <1> QED  BY <1>4, <1>5, <1>6, <1>7, <1>8 DEF TransferInv

LEMMA AnnounceFailsStep ==
    ASSUME TransferInv, AnnounceFails
    PROVE  TransferInv'
  <1>1. /\ UNCHANGED <<source, copy, index, meant, at, answer, synced, changes>> /\ at = 0
        /\ ~CanSplit(source) /\ ended' = "unsplit"
    BY DEF AnnounceFails
  <1>2. ~Expressible(Len(source))
    BY <1>1, GenBlocksSizes DEF TransferInv, BTypes
  <1>3. BTypes' /\ Written' /\ HasFirst' /\ HasAll' /\ Grows'
    BY <1>1 DEF TransferInv, BTypes, Written, HasFirst, HasAll, Grows, BeginsWith
  <1>4. Indexed'
    BY <1>1 DEF TransferInv, Indexed
  <1>5. Steady'
    BY <1>1, <1>2 DEF TransferInv, Steady
  <1> QED  BY <1>3, <1>4, <1>5 DEF TransferInv

\* A file that is there has its first block, which is not empty.
LEMMA StartGetFileStep ==
    ASSUME TransferInv, StartGetFile
    PROVE  TransferInv'
  <1>1. /\ UNCHANGED <<source, copy, index, meant, answer, ended, synced, changes>>
        /\ at = 0 /\ at' = 1 /\ index # <<>> /\ (copy = <<>> \/ ~synced)
    BY DEF StartGetFile
  <1>2. index = GenBlocks(meant) /\ Tiles(index, meant)
    BY <1>1 DEF TransferInv, Indexed
  <1>3. 1 \in 1..Len(index) /\ Len(index[1].hash) > 0 /\ index[1].offset = 0
    BY <1>2 DEF Tiles
  <1>4. ~synced
    <2>1. SUFFICES ASSUME synced, copy = <<>> PROVE FALSE
      BY <1>1
    <2>2. Len(copy) >= Len(index[1].hash) /\ Len(index[1].hash) \in Nat
      <3>1. index[1] \in Block
        BY <1>2, <1>3, ElementOfSeq DEF Tiles
      <3>2. Len(index[1].hash) \in Nat
        BY <3>1 DEF Block
      <3> QED  BY <2>1, <3>2 DEF TransferInv, HasFirst, BeginsWith
    <2> QED  BY <1>3, <2>1, <2>2
  <1>5. ended # "Ok"
    BY <1>4 DEF TransferInv, HasAll
  <1>6. BTypes' /\ HasFirst' /\ HasAll' /\ Grows'
    BY <1>1, <1>4, <1>5 DEF TransferInv, BTypes, HasFirst, HasAll, Grows
  <1>7. Indexed'
    BY <1>1, <1>2, <1>3 DEF Indexed
  <1>8. Written'
    BY <1>1, <1>3 DEF TransferInv, BTypes, Written, BeginsWith
  <1>9. Steady'
    BY <1>1 DEF TransferInv, Steady
  <1> QED  BY <1>6, <1>7, <1>8, <1>9 DEF TransferInv

LEMMA AnswerStep ==
    ASSUME TransferInv, Answer
    PROVE  TransferInv'
  <1> DEFINE b == index[at]
  <1>1. /\ UNCHANGED <<source, copy, index, meant, at, ended, synced, changes>>
        /\ at # 0 /\ answer = <<>>
        /\ answer' = IF ~CanRead(source, b.offset, b.size)
                     THEN <<[code |-> "NoSuchFile", data |-> <<>>]>>
                     ELSE LET data == Slice(source, b.offset, b.size)
                          IN <<[code |-> IF data # b.hash THEN "InvalidFile" ELSE "NoError",
                                data |-> data]>>
    BY DEF Answer
  <1>2. /\ index = GenBlocks(meant) /\ Tiles(index, meant) /\ at \in 1..Len(index)
    BY <1>1 DEF TransferInv, Indexed
  <1>3. BTypes' /\ Indexed' /\ Written' /\ HasFirst' /\ HasAll' /\ Grows'
    BY <1>1 DEF TransferInv, BTypes, Indexed, Written, HasFirst, HasAll, Grows, BeginsWith
  <1>4. ASSUME changes = 0, Expressible(Len(source))
        PROVE  answer'[1].code = "NoError" /\ answer'[1].data = b.hash
    <2>1. meant = source /\ source \in Seq(Byte)
      BY <1>2, <1>4 DEF TransferInv, Steady, BTypes, Tiles
    <2>2. b.size = Len(b.hash)
      BY <1>2, <1>4, <2>1, GenBlocksSizes
    <2>3. b \in Block
      BY <1>2, ElementOfSeq DEF Tiles
    <2> DEFINE h == b.hash
               o == b.offset
               data == Slice(source, o, Len(h))
    <2>4. h \in Seq(Byte) /\ o \in Nat /\ Len(h) \in Nat
      BY <2>3 DEF Block
    <2>5. /\ o + Len(h) <= Len(source) /\ Len(h) > 0
          /\ \A i \in 1..Len(h) : h[i] = source[o + i]
      BY <1>2, <2>1 DEF Tiles
    <2> HIDE DEF h, o
    <2>6. /\ data \in Seq(Byte) /\ Len(data) = Len(h)
          /\ \A i \in 1..Len(h) : data[i] = source[o + i]
      BY <2>1, <2>4, <2>5, SliceIs
    <2>7. data = h
      <3> HIDE DEF data
      <3> QED  BY <2>4, <2>5, <2>6, SeqEqual
    <2>8. CanRead(source, o, Len(h))
      BY <2>1, <2>4, <2>5 DEF CanRead
    <2>9. answer' = <<[code |-> "NoError", data |-> h]>>
      BY <1>1, <2>2, <2>7, <2>8 DEF h, o
    <2> QED  BY <2>9 DEF h
  <1>5. Steady'
    <2>1. changes = 0 => index = <<>> \/ meant = source
      BY DEF TransferInv, Steady
    <2>2. (changes = 0 /\ Expressible(Len(source))) => ended \notin {"Err", "unsplit"}
      BY DEF TransferInv, Steady
    <2> QED  BY <1>1, <1>4, <2>1, <2>2 DEF Steady
  <1> QED  BY <1>3, <1>5 DEF TransferInv

LEMMA GotBlockStep ==
    ASSUME TransferInv, GotBlock
    PROVE  TransferInv'
  <1> DEFINE a == answer[1]
             good == a.code = "NoError" /\ a.data = index[at].hash
             last == at = Len(index)
  <1>1. /\ UNCHANGED <<source, index, meant, changes>> /\ answer' = <<>>
        /\ at # 0 /\ answer # <<>>
    BY DEF GotBlock
  <1>2. /\ index = GenBlocks(meant) /\ Tiles(index, meant) /\ at \in 1..Len(index)
        /\ at \in Nat /\ Len(index) \in Nat
    <2>1. index = GenBlocks(meant) /\ Tiles(index, meant) /\ at \in 1..Len(index)
      BY <1>1 DEF TransferInv, Indexed
    <2> QED  BY <2>1 DEF Tiles
  <1>3. CASE ~good
    <2>1. UNCHANGED <<copy, synced>> /\ at' = 0 /\ ended' = "Err"
      BY <1>3 DEF GotBlock
    <2>2. BTypes' /\ Indexed'
      BY <1>1, <1>2, <2>1 DEF TransferInv, BTypes, Indexed
    <2>3. Written' /\ HasAll' /\ Grows'
      BY <1>1, <2>1 DEF TransferInv, Written, HasAll, Grows
    <2>4. HasFirst'
      BY <1>1, <2>1 DEF TransferInv, HasFirst, BeginsWith
    <2>5. Steady'
      BY <1>1, <1>3, <2>1 DEF TransferInv, Steady
    <2> QED  BY <2>2, <2>3, <2>4, <2>5 DEF TransferInv
  <1>4. CASE good
    <2> DEFINE h == index[at].hash
               o == index[at].offset
    <2>1. /\ copy' = WriteBytes(copy, o, h) /\ synced' = TRUE
          /\ at' = IF last THEN 0 ELSE at + 1
          /\ ended' = IF last THEN "Ok" ELSE ended
      BY <1>4 DEF GotBlock
    <2>2. \A k \in 1..Len(index) : /\ index[k].hash \in Seq(Byte) /\ index[k].offset \in Nat
                                   /\ Len(index[k].hash) \in Nat
      <3> SUFFICES ASSUME NEW k \in 1..Len(index)
                   PROVE  /\ index[k].hash \in Seq(Byte) /\ index[k].offset \in Nat
                          /\ Len(index[k].hash) \in Nat
        OBVIOUS
      <3>1. index[k] \in Block
        BY <1>2, ElementOfSeq DEF Tiles
      <3> QED  BY <3>1 DEF Block
    <2>3. h \in Seq(Byte) /\ o \in Nat /\ Len(h) \in Nat /\ Len(h) > 0
      BY <1>2, <2>2 DEF Tiles
    <2>4. /\ copy \in Seq(Byte) /\ meant \in Seq(Byte) /\ Len(copy) \in Nat
          /\ Len(meant) \in Nat /\ Len(source) \in Nat
      BY DEF TransferInv, BTypes
    <2>5. Len(copy) >= o /\ \A i \in 1..o : copy[i] = meant[i]
      BY <1>1 DEF TransferInv, Written, BeginsWith
    <2>6. o + Len(h) <= Len(meant) /\ \A i \in 1..Len(h) : h[i] = meant[o + i]
      BY <1>2 DEF Tiles
    <2> HIDE DEF h, o
    <2>7. /\ copy' \in Seq(Byte)
          /\ Len(copy') = IF Len(copy) >= o + Len(h) THEN Len(copy) ELSE o + Len(h)
          /\ \A i \in 1..Len(h) : copy'[o + i] = h[i]
          /\ \A i \in 1..o : copy'[i] = copy[i]
      BY <2>1, <2>3, <2>4, <2>5, WriteBytesIs
    <2>8. \A i \in 1..(o + Len(h)) : copy'[i] = meant[i]
      <3> SUFFICES ASSUME NEW i \in 1..(o + Len(h)) PROVE copy'[i] = meant[i]
        OBVIOUS
      <3>1. CASE i <= o
        <4>1. i \in 1..o
          BY <2>3, <3>1
        <4> QED  BY <2>5, <2>7, <4>1
      <3>2. CASE i > o
        <4>1. i - o \in 1..Len(h) /\ o + (i - o) = i
          BY <2>3, <3>2
        <4> QED  BY <2>6, <2>7, <4>1
      <3> QED  BY <2>3, <3>1, <3>2
    <2>9. \A k \in 0..(o + Len(h)) : BeginsWith(k)'
      <3> SUFFICES ASSUME NEW k \in 0..(o + Len(h))
                   PROVE  Len(copy') >= k /\ \A i \in 1..k : copy'[i] = meant[i]
        BY <1>1 DEF BeginsWith
      <3>1. Len(copy') >= o + Len(h) /\ Len(copy') \in Nat
        BY <2>3, <2>4, <2>7
      <3>2. k <= o + Len(h) /\ \A i \in 1..k : i \in 1..(o + Len(h))
        BY <2>3
      <3> QED  BY <2>3, <2>8, <3>1, <3>2
    <2>10. BTypes' /\ Indexed'
      BY <1>1, <1>2, <2>1, <2>7 DEF TransferInv, BTypes, Indexed
    <2>11. Written'
      <3>1. CASE last
        BY <2>1, <3>1 DEF Written
      <3>2. CASE ~last
        <4>1. at' = at + 1 /\ at \in 1..(Len(index) - 1)
          BY <1>2, <2>1, <3>2
        <4>2. index[at + 1].offset = o + Len(h)
          BY <1>2, <4>1 DEF Tiles, h, o
        <4>3. o + Len(h) \in 0..(o + Len(h))
          BY <2>3
        <4> QED  BY <1>1, <2>9, <4>1, <4>2, <4>3 DEF Written
      <3> QED  BY <3>1, <3>2
    <2>12. HasFirst'
      <3>1. at' # 1
        BY <1>2, <2>1
      <3>2. Len(index[1].hash) \in 0..(o + Len(h))
        <4>1. CASE at = 1
          BY <1>2, <2>2, <2>3, <4>1 DEF h
        <4>2. CASE at # 1
          <5>1. at \in 2..Len(index) /\ 1 \in 1..Len(index)
            BY <1>2, <4>2
          <5>2. o >= Len(index[1].hash)
            BY <1>2, <5>1 DEF Tiles, o
          <5> QED  BY <2>2, <2>3, <5>1, <5>2
        <4> QED  BY <4>1, <4>2
      <3> QED  BY <1>1, <2>9, <3>1, <3>2 DEF HasFirst
    <2>13. HasAll'
      <3>1. CASE last
        <4>1. o + Len(h) = Len(meant)
          BY <1>2, <3>1 DEF Tiles, h, o
        <4>2. BeginsWith(Len(meant))'
          <5>1. Len(copy') >= Len(meant) /\ \A i \in 1..Len(meant) : copy'[i] = meant[i]
            BY <2>3, <2>4, <2>7, <2>8, <4>1
          <5> QED  BY <1>1, <5>1 DEF BeginsWith
        <4> QED  BY <1>1, <2>1, <3>1, <4>2 DEF HasAll
      <3>2. CASE ~last
        BY <1>1, <2>1, <3>2 DEF TransferInv, HasAll
      <3> QED  BY <3>1, <3>2
    <2>14. Grows'
      BY <1>1, <2>3, <2>4, <2>6, <2>7 DEF TransferInv, Grows
    <2>15. Steady'
      BY <1>1, <2>1 DEF TransferInv, Steady
    <2> QED  BY <2>10, <2>11, <2>12, <2>13, <2>14, <2>15 DEF TransferInv
  <1> QED  BY <1>3, <1>4

LEMMA NextTransfer ==
    ASSUME TransferInv, [BNext]_bvars
    PROVE  TransferInv'
  <1>1. CASE UNCHANGED bvars
    <2>1. UNCHANGED <<source, copy, index, meant, at, answer, ended, synced, changes>>
      BY <1>1 DEF bvars
    <2>2. BTypes' /\ Indexed' /\ Written' /\ HasFirst' /\ HasAll' /\ Grows'
      BY <2>1 DEF TransferInv, BTypes, Indexed, Written, HasFirst, HasAll, Grows, BeginsWith
    <2>3. Steady'
      BY <2>1 DEF TransferInv, Steady
    <2> QED  BY <2>2, <2>3 DEF TransferInv
  <1>2. CASE BNext
    BY <1>2, ChangeStep, AnnounceStep, AnnounceFailsStep, StartGetFileStep, AnswerStep,
       GotBlockStep DEF BNext
  <1> QED  BY <1>1, <1>2

LEMMA TransferInvariant == BSpec => []TransferInv
  <1>1. BInit => TransferInv
    BY InitTransfer
  <1>2. TransferInv /\ [BNext]_bvars => TransferInv'
    BY NextTransfer
  <1> QED  BY <1>1, <1>2, PTL DEF BSpec

\* Two sequences that begin alike and are equally long are the same.
LEMMA AllOfIt ==
    ASSUME TransferInv, ~Shrinks, BeginsWith(Len(meant))
    PROVE  copy = meant
  <1>1. copy \in Seq(Byte) /\ meant \in Seq(Byte) /\ Len(copy) = Len(meant)
    <2>1. /\ copy \in Seq(Byte) /\ meant \in Seq(Byte)
          /\ Len(copy) \in Nat /\ Len(meant) \in Nat
      BY DEF TransferInv, BTypes
    <2> QED  BY <2>1 DEF TransferInv, Grows, BeginsWith
  <1>2. \A i \in 1..Len(copy) : copy[i] = meant[i]
    BY <1>1 DEF BeginsWith
  <1> QED  BY <1>1, <1>2, SeqEqual

(***************************************************************************)
(* A get_file that returns Ok has left the bytes that were announced: if   *)
(* no change makes the file shorter, for write_block never truncates.      *)
(***************************************************************************)
THEOREM OkMeansExact ==
    ASSUME ~Shrinks
    PROVE  BSpec => []CopyIsExact
  <1>1. TransferInv => CopyIsExact
    BY AllOfIt DEF TransferInv, HasAll, CopyIsExact
  <1> QED  BY <1>1, TransferInvariant, PTL

(***************************************************************************)
(* A version that is recorded as synced has its first block on the disk,   *)
(* and all of a file of one block: under the same condition.               *)
(***************************************************************************)
THEOREM SyncedMeansFirstBlock ==
    ASSUME ~Shrinks
    PROVE  BSpec => []SyncedHasFirstBlock
  <1>1. TransferInv => SyncedHasFirstBlock
    <2> SUFFICES ASSUME TransferInv, synced
                 PROVE  /\ Len(copy) >= Len(index[1].hash)
                        /\ Slice(copy, 0, Len(index[1].hash)) = index[1].hash
                        /\ Len(index) = 1 => copy = meant
      BY DEF SyncedHasFirstBlock
    <2> DEFINE h == index[1].hash
    <2>1. Tiles(index, meant) /\ 1 \in 1..Len(index) /\ index[1].offset = 0
      BY DEF TransferInv, Indexed, Tiles
    <2>2. h \in Seq(Byte) /\ Len(h) \in Nat
      <3>1. index[1] \in Block
        BY <2>1, ElementOfSeq DEF Tiles
      <3> QED  BY <3>1 DEF Block
    <2>3. \A i \in 1..Len(h) : h[i] = meant[i]
      BY <2>1, <2>2 DEF Tiles
    <2>4. BeginsWith(Len(h)) /\ copy \in Seq(Byte)
      BY DEF TransferInv, HasFirst, BTypes
    <2>5. Len(index) = 1 => Len(h) = Len(meant)
      BY <2>1, <2>2 DEF Tiles
    <2> HIDE DEF h
    <2>6. Len(copy) >= Len(h) /\ \A i \in 1..Len(h) : copy[i] = meant[i]
      BY <2>4 DEF BeginsWith
    <2> DEFINE data == Slice(copy, 0, Len(h))
    <2>7. /\ data \in Seq(Byte) /\ Len(data) = Len(h)
          /\ \A i \in 1..Len(h) : data[i] = copy[0 + i]
      BY <2>2, <2>4, <2>6, SliceIs
    <2>8. data = h
      <3> HIDE DEF data
      <3>1. \A i \in 1..Len(data) : data[i] = h[i]
        BY <2>2, <2>3, <2>6, <2>7
      <3> QED  BY <2>2, <2>7, <3>1, SeqEqual
    <2>9. Len(index) = 1 => copy = meant
      BY <2>4, <2>5, AllOfIt
    <2> QED  BY <2>6, <2>8, <2>9 DEF h
  <1> QED  BY <1>1, TransferInvariant, PTL

(***************************************************************************)
(* No download fails of a file that nobody changes and whose length        *)
(* gen_blocks can express: for any file, table of block sizes and width.   *)
(***************************************************************************)
THEOREM ExpressibleFilesSync == BSpec => []ExpressibleSizesSync
  <1>1. TransferInv => ExpressibleSizesSync
    BY DEF TransferInv, Steady, ExpressibleSizesSync
  <1> QED  BY <1>1, TransferInvariant, PTL
=============================================================================
