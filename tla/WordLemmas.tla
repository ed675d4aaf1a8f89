------------------------------ MODULE WordLemmas -----------------------------
(***************************************************************************)
(* Facts about the fixed-width operations of Words, for every value, about *)
(* the bytes of a buffer, and induction over the natural numbers.          *)
(***************************************************************************)
EXTENDS Words, SequenceTheorems, NaturalsInduction, WellFoundedInduction, TLAPS

\* Induction for a set in the place of a predicate: a set that holds 0 and,
\* with each number, the next one, holds every number.
LEMMA SetInduction ==
  ASSUME NEW T, 0 \in T, \A n \in Nat : n \in T => n + 1 \in T
  PROVE  Nat \subseteq T
<1> DEFINE U == Nat \ T
<1>1. SUFFICES ASSUME U # {} PROVE FALSE
  OBVIOUS
<1>2. PICK x \in U : \A y \in U : ~ (<<y, x>> \in OpToRel(<, Nat))
  BY <1>1, NatLessThanWellFounded, WFMin, Zenon
<1>3. x \in Nat /\ x # 0 /\ x \notin T
  OBVIOUS
<1>4. x - 1 \in Nat /\ x - 1 < x
  BY <1>3
<1>5. x - 1 \notin T
  BY <1>3, <1>4
<1>6. <<x - 1, x>> \in OpToRel(<, Nat)
  BY <1>3, <1>4, SMTT(30) DEF OpToRel
<1> QED
  BY <1>2, <1>4, <1>5, <1>6

\* A set of natural numbers that is not empty has a least one.
LEMMA LeastNumber ==
  ASSUME NEW S \in SUBSET Nat, S # {}
  PROVE  \E m \in S : \A n \in S : m <= n
<1>1. PICK m \in S : \A n \in S : ~ (<<n, m>> \in OpToRel(<, Nat))
  BY NatLessThanWellFounded, WFMin, Zenon
<1>2. ASSUME NEW n \in S PROVE m <= n
  <2>1. m \in Nat /\ n \in Nat
    OBVIOUS
  <2>2. n < m => <<n, m>> \in OpToRel(<, Nat)
    BY <2>1, SMTT(30) DEF OpToRel
  <2>3. ~(n < m)
    BY <1>1, <2>2
  <2> QED
    BY <2>1, <2>3
<1> QED
  BY <1>1, <1>2

\* An address is a number.
LEMMA WordIsInt ==
  ASSUME NEW w \in Word16
  PROVE  w \in Nat /\ w \in Int
BY SMTT(60) DEF Word16

\* Wrapping arithmetic stays within a u16.
LEMMA WrapIsWord ==
  ASSUME NEW n \in Int
  PROVE  Wrap16(n) \in Word16 /\ Wrap16(n) \in Int
<1>1. PICK r \in Nat : r = n % 65536 /\ r <= 65535
  BY SMTT(60)
<1>2. r \in Word16
  BY <1>1, SMTT(60) DEF Word16
<1> QED
  BY <1>1, <1>2 DEF Wrap16

\* An address that is one already is left alone.
LEMMA WrapOfWord ==
  ASSUME NEW n \in Word16
  PROVE  n \in Int /\ Wrap16(n) = n
<1>1. n \in Nat /\ n < 65536
  BY SMTT(60) DEF Word16
<1>2. n % 65536 = n
  BY <1>1
<1> QED
  BY <1>1, <1>2 DEF Wrap16

\* Storing a byte's value gives the byte.
LEMMA ByteRoundTrip ==
  ASSUME NEW b \in Byte
  PROVE  b \in 0..255 /\ LoByte(b) = b
BY DEF LoByte, Byte

\* Reading a byte as signed and storing the low byte gives the byte back.
LEMMA SignedByteRoundTrip ==
  ASSUME NEW b \in Byte
  PROVE  AsI8(b) \in -128..127 /\ LoByte(AsI8(b)) = b
BY DEF AsI8, LoByte, Byte

\* A word read from two bytes splits into the same two bytes.
LEMMA WordRoundTrip ==
  ASSUME NEW lo \in Byte, NEW hi \in Byte
  PROVE  /\ WordOf(lo, hi) \in Word16
         /\ LoByte(WordOf(lo, hi)) = lo
         /\ HiByte(WordOf(lo, hi)) = hi
<1>1. WordOf(lo, hi) \in Word16
  <2>1. PICK l \in Nat : l = lo /\ l <= 255
    BY DEF Byte
  <2>2. PICK h \in Nat : h = hi /\ h <= 255
    BY DEF Byte
  <2>3. PICK w \in Nat : w = l + 256 * h /\ w <= 65535
    BY <2>1, <2>2
  <2>4. w \in Word16
    BY <2>3, SMTT(60) DEF Word16
  <2> QED
    BY <2>1, <2>2, <2>3, <2>4 DEF WordOf
<1>2. /\ (lo + 256 * hi) % 256 = lo
      /\ (lo + 256 * hi) \div 256 = hi
  BY DEF Byte
<1>3. HiByte(WordOf(lo, hi)) = hi
  BY <1>2 DEF HiByte, WordOf, Byte
<1>4. LoByte(WordOf(lo, hi)) = lo
  BY <1>2 DEF LoByte, WordOf
<1> QED
  BY <1>1, <1>3, <1>4

\* The distance from an instruction's end to a branch target printed as a
\* wrapped 16-bit address gives the branch's offset back, wherever the
\* instruction lies in the address space.
LEMMA BranchRoundTrip ==
  ASSUME NEW next \in Int, NEW d \in -128..127
  PROVE  AsI16(Wrap16(Wrap16(next + d) - Wrap16(next))) = d
BY DEF AsI16, Wrap16

\* A branch printed as its target goes back to its offset, whether the target
\* was formed by one wrapping addition or by two.
LEMMA OffsetOfTarget ==
  ASSUME NEW next \in Int, NEW v \in Int, -32768 <= v, v <= 32767
  PROVE  AsI16(Wrap16(Wrap16(Wrap16(next) + Wrap16(v)) - next)) = v
BY SMT DEF AsI16, Wrap16

LEMMA OffsetOfWideTarget ==
  ASSUME NEW next \in Int, NEW v \in Int, AsI16(Wrap16(v)) = v
  PROVE  AsI16(Wrap16(Wrap16(next + v) - next)) = v
BY SMT DEF AsI16, Wrap16

\* What is laid down for a signed byte and for a signed word.
LEMMA SignedByteLaid ==
  ASSUME NEW b \in Int, 0 <= b, b < 256
  PROVE  /\ AsI8(b) \in Int /\ -128 <= AsI8(b) /\ AsI8(b) <= 127
         /\ Wrap16(AsI8(b)) % 256 = b
BY SMT DEF AsI8, Wrap16

LEMMA SignedWordLaid ==
  ASSUME NEW u \in Int, 0 <= u, u < 65536
  PROVE  /\ AsI16(u) \in Int /\ -32768 <= AsI16(u) /\ AsI16(u) <= 32767
         /\ Wrap16(AsI16(u)) = u
BY SMT DEF AsI16, Wrap16

\* A signed byte is a signed word.
LEMMA ByteIsSignedWord ==
  ASSUME NEW d \in -128..127
  PROVE  d \in Int /\ AsI16(Wrap16(d)) = d
BY DEF AsI16, Wrap16

\* Reading a word as signed and storing its bytes gives the bytes back.
LEMMA SignedWordRoundTrip ==
  ASSUME NEW lo \in Byte, NEW hi \in Byte, NEW v, v = AsI16(WordOf(lo, hi))
  PROVE  /\ v \in Int /\ AsI16(Wrap16(v)) = v
         /\ LoByte(v) = lo /\ HiByte(v) = hi
<1>1. PICK l \in Int, h \in Int : l = lo /\ h = hi /\ 0 <= l /\ l < 256 /\ 0 <= h /\ h < 256
  BY DEF Byte
<1>2. PICK u \in Int : u = l + 256 * h /\ 0 <= u /\ u < 65536
  BY <1>1
<1>3. u = WordOf(lo, hi)
  BY <1>1, <1>2, SMT DEF WordOf
<1>4. v = AsI16(u)
  BY <1>3
<1>5. v \in Int /\ -32768 <= v /\ v <= 32767 /\ Wrap16(v) = u
  BY <1>2, <1>4, SignedWordLaid
<1>6. v = u \/ v = u - 65536
  BY <1>4 DEF AsI16
<1>7. v % 256 = l
  BY <1>1, <1>2, <1>5, <1>6, SMTT(30)
<1>8. (v \div 256) % 256 = h
  BY <1>1, <1>2, <1>5, <1>6, SMTT(30)
<1>9. LoByte(v) = lo /\ HiByte(v) = hi
  BY <1>1, <1>7, <1>8, Zenon DEF LoByte, HiByte
<1> QED
  BY <1>4, <1>5, <1>9

\* A number of up to three bytes, low byte first, splits into the same bytes.
LEMMA ThreeByteRoundTrip ==
  ASSUME NEW b1 \in Int, NEW b2 \in Int, NEW b3 \in Int,
         0 <= b1, b1 < 256, 0 <= b2, b2 < 256, 0 <= b3, b3 < 256,
         NEW v \in Int, v = b1 + 256 * b2 + 65536 * b3
  PROVE  /\ v \in Nat
         /\ v % 256 = b1 /\ (v \div 256) % 256 = b2 /\ (v \div 65536) % 256 = b3
         /\ v < 256 * 65536
         /\ b3 = 0 => v < 65536
         /\ b3 = 0 /\ b2 = 0 => v < 256
<1>1. v % 256 = b1
  BY SMT
<1>2. (v \div 256) % 256 = b2
  BY SMT
<1>3. (v \div 65536) % 256 = b3
  BY SMT
<1>4. v \in Nat /\ v < 256 * 65536
  BY SMT
<1>5. (b3 = 0 => v < 65536) /\ (b3 = 0 /\ b2 = 0 => v < 256)
  BY SMT
<1> QED
  BY <1>1, <1>2, <1>3, <1>4, <1>5

\* Counting on from a wrapped address and back from the origin gives the offset.
LEMMA OffsetOfAddress ==
  ASSUME NEW o \in Int, NEW p \in Nat, NEW j \in Nat, p + j < 65536
  PROVE  Wrap16(Wrap16(Wrap16(o + p) + j) - o) = p + j
BY SMT DEF Wrap16

------------------------------------------------------------------------------
(* The bytes of a buffer *)

\* The bytes of c from offset x up to offset y.
Slice(c, x, y) == SubSeq(c, x + 1, y)

\* A piece of one byte, and of two.
LEMMA OneByte ==
  ASSUME NEW c \in Seq(Byte), NEW q \in Nat, q + 1 <= Len(c)
  PROVE  c[q + 1] \in Byte /\ SubSeq(c, q + 1, q + 1) = <<c[q + 1]>>
<1>1. c[q + 1] \in Byte
  BY ElementOfSeq
<1>2. /\ SubSeq(c, q + 1, q + 1) \in Seq(Byte)
      /\ Len(SubSeq(c, q + 1, q + 1)) = 1
      /\ SubSeq(c, q + 1, q + 1)[1] = c[q + 1]
  <2>1. \A k \in q + 1 .. q + 1 : c[k] \in Byte
    BY <1>1
  <2> QED
    BY <2>1, SubSeqProperties, SMTT(30)
<1>3. /\ <<c[q + 1]>> \in Seq(Byte) /\ Len(<<c[q + 1]>>) = 1
      /\ <<c[q + 1]>>[1] = c[q + 1]
  BY <1>1
<1>4. \A k \in 1..Len(<<c[q + 1]>>) : SubSeq(c, q + 1, q + 1)[k] = <<c[q + 1]>>[k]
  BY <1>2, <1>3
<1>5. SubSeq(c, q + 1, q + 1) = <<c[q + 1]>>
  BY <1>2, <1>3, <1>4, SeqEqual
<1> QED
  BY <1>1, <1>5

LEMMA TwoBytes ==
  ASSUME NEW c \in Seq(Byte), NEW q \in Nat, q + 2 <= Len(c)
  PROVE  /\ c[q + 1] \in Byte /\ c[q + 2] \in Byte
         /\ SubSeq(c, q + 1, q + 2) = <<c[q + 1], c[q + 2]>>
<1>1. c[q + 1] \in Byte /\ c[q + 2] \in Byte
  BY ElementOfSeq
<1>2. /\ SubSeq(c, q + 1, q + 2) \in Seq(Byte)
      /\ Len(SubSeq(c, q + 1, q + 2)) = 2
      /\ SubSeq(c, q + 1, q + 2)[1] = c[q + 1]
      /\ SubSeq(c, q + 1, q + 2)[2] = c[q + 2]
  <2>1. \A k \in q + 1 .. q + 2 : c[k] \in Byte
    BY <1>1
  <2>2. /\ SubSeq(c, q + 1, q + 2) \in Seq(Byte)
        /\ Len(SubSeq(c, q + 1, q + 2)) = 2
        /\ \A k \in 1..2 : SubSeq(c, q + 1, q + 2)[k] = c[q + 1 + k - 1]
    BY <2>1, SubSeqProperties, SMTT(30)
  <2> QED
    BY <2>2
<1>3. /\ <<c[q + 1], c[q + 2]>> \in Seq(Byte) /\ Len(<<c[q + 1], c[q + 2]>>) = 2
      /\ <<c[q + 1], c[q + 2]>>[1] = c[q + 1]
      /\ <<c[q + 1], c[q + 2]>>[2] = c[q + 2]
  BY <1>1
<1>4. \A k \in 1..Len(<<c[q + 1], c[q + 2]>>) :
        SubSeq(c, q + 1, q + 2)[k] = <<c[q + 1], c[q + 2]>>[k]
  BY <1>2, <1>3
<1>5. SubSeq(c, q + 1, q + 2) = <<c[q + 1], c[q + 2]>>
  BY <1>2, <1>3, <1>4, SeqEqual
<1> QED
  BY <1>1, <1>5

\* Two pieces that meet are one.
LEMMA Adjacent ==
  ASSUME NEW c \in Seq(Byte), NEW x \in Nat, NEW y \in Nat, NEW z \in Nat,
         x <= y, y <= z, z <= Len(c)
  PROVE  Slice(c, x, y) \o Slice(c, y, z) = Slice(c, x, z)
<1>1. PICK m \in Nat : m = Len(c)
  BY LenProperties
<1>2. /\ x + 1 \in 1..m + 1
      /\ y \in (x + 1) - 1 .. m
      /\ z \in y..m
  BY <1>1
<1>3. /\ x + 1 \in 1..Len(c) + 1
      /\ y \in (x + 1) - 1 .. Len(c)
      /\ z \in y..Len(c)
  BY <1>1, <1>2, Zenon
<1>4. SubSeq(c, x + 1, y) \o SubSeq(c, y + 1, z) = SubSeq(c, x + 1, z)
  BY <1>3, ConcatAdjacentSubSeq
<1> QED
  BY <1>4 DEF Slice

\* The bytes of a line are bytes, and as many as it consumes.
LEMMA BytesCounted ==
  ASSUME NEW c \in Seq(Byte), NEW p \in Nat, NEW n \in Nat, p + n <= Len(c)
  PROVE  SubSeq(c, p + 1, p + n) \in Seq(Byte) /\ Len(SubSeq(c, p + 1, p + n)) = n
<1>1. \A k \in p + 1 .. p + n : c[k] \in Byte
  BY ElementOfSeq, LenProperties
<1>2. p + 1 \in Int /\ p + n \in Int
  OBVIOUS
<1>3. /\ SubSeq(c, p + 1, p + n) \in Seq(Byte)
      /\ Len(SubSeq(c, p + 1, p + n)) = IF p + 1 <= p + n THEN (p + n) - (p + 1) + 1 ELSE 0
  BY <1>1, <1>2, SubSeqProperties, SMTT(30)
<1> QED
  BY <1>3

==============================================================================
