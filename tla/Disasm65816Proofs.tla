--------------------------- MODULE Disasm65816Proofs --------------------------
(***************************************************************************)
(* The 65816 disassembler proved right for every buffer, every load        *)
(* address and every table whose texts tell its forms apart.               *)
(***************************************************************************)
EXTENDS Disasm65816, WordLemmas, SequenceTheorems, FiniteSetTheorems

------------------------------------------------------------------------------
(* Recursion over the lines of a listing *)

\* u is the recursive function of Chosen, up to line n.
Choosing(u, lines, K, n) ==
  u = [k \in 0..n |->
         IF k = 0 THEN <<>>
         ELSE IF k \in K THEN Append(u[k - 1], lines[k]) ELSE u[k - 1]]

\* r is the recursive function of Assembled, up to line n.
Reading(r, lines, n) ==
  r = [k \in 0..n |-> IF k = 0 THEN Fresh ELSE ReadLine(r[k - 1], lines[k])]

LEMMA ChoosingExists ==
  ASSUME NEW lines, NEW K, NEW n \in Nat
  PROVE  \E u : Choosing(u, lines, K, n)
<1> DEFINE T == {m \in Nat : \E u : Choosing(u, lines, K, m)}
<1>1. 0 \in T
  <2>1. Choosing([k \in 0..0 |-> <<>>], lines, K, 0)
    BY DEF Choosing
  <2> QED
    BY <2>1
<1>2. ASSUME NEW m \in Nat, m \in T
      PROVE  m + 1 \in T
  <2>1. PICK u : Choosing(u, lines, K, m)
    BY <1>2
  <2> DEFINE next == IF m + 1 \in K THEN Append(u[m], lines[m + 1]) ELSE u[m]
             w == [k \in 0..(m + 1) |-> IF k = m + 1 THEN next ELSE u[k]]
  <2>2. \A k \in 0..m : w[k] = u[k] /\ k # m + 1 /\ k \in 0..(m + 1)
    OBVIOUS
  <2>3. ASSUME NEW k \in 0..(m + 1)
        PROVE  w[k] = IF k = 0 THEN <<>>
                      ELSE IF k \in K THEN Append(w[k - 1], lines[k]) ELSE w[k - 1]
    <3>1. CASE k = m + 1
      <4>1. w[k] = next /\ k # 0 /\ k - 1 = m /\ w[m] = u[m]
        BY <2>2, <3>1
      <4> QED
        BY <3>1, <4>1
    <3>2. CASE k # m + 1
      <4>1. k \in 0..m
        BY <3>2
      <4>2. k # 0 => k - 1 \in 0..m
        BY <4>1
      <4>3. u[k] = IF k = 0 THEN <<>>
                   ELSE IF k \in K THEN Append(u[k - 1], lines[k]) ELSE u[k - 1]
        BY <2>1, <4>1 DEF Choosing
      <4> HIDE DEF w
      <4> QED
        BY <2>2, <4>1, <4>2, <4>3
    <3> QED
      BY <3>1, <3>2
  <2>4. w = [k \in 0..(m + 1) |-> w[k]]
    OBVIOUS
  <2>5. Choosing(w, lines, K, m + 1)
    <3> HIDE DEF w
    <3> QED
      BY <2>3, <2>4 DEF Choosing
  <2> HIDE DEF w
  <2> QED
    BY <2>5
<1> HIDE DEF T
<1>3. Nat \subseteq T
  BY <1>1, <1>2, SetInduction
<1> QED
  BY <1>3 DEF T

LEMMA ChoosingAgrees ==
  ASSUME NEW lines1, NEW lines2, NEW K1, NEW K2, NEW m \in Nat,
         \A k \in 1..m : lines1[k] = lines2[k] /\ (k \in K1 <=> k \in K2),
         NEW u1, Choosing(u1, lines1, K1, m),
         NEW u2, Choosing(u2, lines2, K2, m + 1)
  PROVE  u1[m] = u2[m]
<1> DEFINE T == {k \in Nat : k <= m => u1[k] = u2[k]}
<1>1. 0 \in T
  BY DEF Choosing
<1>2. ASSUME NEW k \in Nat, k \in T
      PROVE  k + 1 \in T
  <2>1. SUFFICES ASSUME k + 1 <= m PROVE u1[k + 1] = u2[k + 1]
    OBVIOUS
  <2>2. u1[k] = u2[k] /\ k + 1 \in 0..m /\ k + 1 \in 0..(m + 1) /\ k + 1 # 0 /\ (k + 1) - 1 = k
    BY <1>2, <2>1
  <2>3. u1[k + 1] = IF k + 1 \in K1 THEN Append(u1[k], lines1[k + 1]) ELSE u1[k]
    BY <2>2 DEF Choosing
  <2>4. u2[k + 1] = IF k + 1 \in K2 THEN Append(u2[k], lines2[k + 1]) ELSE u2[k]
    BY <2>2 DEF Choosing
  <2>5. lines1[k + 1] = lines2[k + 1] /\ (k + 1 \in K1 <=> k + 1 \in K2)
    BY <2>1
  <2> QED
    BY <2>2, <2>3, <2>4, <2>5
<1> HIDE DEF T
<1>3. m \in T
  BY <1>1, <1>2, SetInduction
<1> QED
  BY <1>3 DEF T

LEMMA ChosenIs ==
  ASSUME NEW S, NEW lines \in Seq(S), NEW K
  PROVE  \E u : Choosing(u, lines, K, Len(lines)) /\ Chosen(lines, K) = u[Len(lines)]
<1>1. \E u : Choosing(u, lines, K, Len(lines))
  BY ChoosingExists, LenProperties
<1>2. Choosing(CHOOSE u : Choosing(u, lines, K, Len(lines)), lines, K, Len(lines))
  BY <1>1
<1>3. Chosen(lines, K) = (CHOOSE u : Choosing(u, lines, K, Len(lines)))[Len(lines)]
  BY DEF Chosen, Choosing
<1> QED
  BY <1>2, <1>3

\* Choosing from no lines chooses none.
LEMMA ChosenOfNone ==
  ASSUME NEW K
  PROVE  Chosen(<<>>, K) = <<>>
<1>1. <<>> \in Seq({}) /\ Len(<<>>) = 0
  BY EmptySeq
<1>2. PICK u : Choosing(u, <<>>, K, 0) /\ Chosen(<<>>, K) = u[0]
  BY <1>1, ChosenIs
<1> QED
  BY <1>2 DEF Choosing

\* Choosing from one line more.
LEMMA ChosenAppend ==
  ASSUME NEW S, NEW lines \in Seq(S), NEW x \in S, NEW K1, NEW K2,
         \A k \in 1..Len(lines) : k \in K1 <=> k \in K2
  PROVE  Chosen(Append(lines, x), K2) =
           IF Len(lines) + 1 \in K2 THEN Append(Chosen(lines, K1), x) ELSE Chosen(lines, K1)
<1>1. PICK n \in Nat : n = Len(lines)
  BY LenProperties
<1>2. PICK more : more = Append(lines, x)
  OBVIOUS
<1>3. /\ more \in Seq(S) /\ Len(more) = n + 1 /\ more[n + 1] = x
      /\ \A k \in 1..n : more[k] = lines[k]
  BY <1>1, <1>2, AppendProperties, SMTT(30)
<1>4. PICK u : Choosing(u, lines, K1, n) /\ Chosen(lines, K1) = u[n]
  BY <1>1, ChosenIs
<1>5. PICK w : Choosing(w, more, K2, n + 1) /\ Chosen(more, K2) = w[n + 1]
  <2>1. \E w : Choosing(w, more, K2, Len(more)) /\ Chosen(more, K2) = w[Len(more)]
    BY <1>3, ChosenIs
  <2> QED
    BY <1>3, <2>1
<1>6. w[n] = u[n]
  <2>1. \A k \in 1..n : lines[k] = more[k] /\ (k \in K1 <=> k \in K2)
    BY <1>1, <1>3
  <2> QED
    BY <1>4, <1>5, <2>1, ChoosingAgrees
<1>7. w[n + 1] = IF n + 1 \in K2 THEN Append(w[n], more[n + 1]) ELSE w[n]
  <2>1. n + 1 \in 0..(n + 1) /\ n + 1 # 0 /\ (n + 1) - 1 = n
    BY <1>1
  <2> QED
    BY <1>5, <2>1 DEF Choosing
<1> QED
  BY <1>1, <1>2, <1>3, <1>4, <1>5, <1>6, <1>7

LEMMA ReadingExists ==
  ASSUME NEW lines, NEW n \in Nat
  PROVE  \E r : Reading(r, lines, n)
<1> DEFINE T == {m \in Nat : \E r : Reading(r, lines, m)}
<1>1. 0 \in T
  <2>1. Reading([k \in 0..0 |-> Fresh], lines, 0)
    BY DEF Reading
  <2> QED
    BY <2>1
<1>2. ASSUME NEW m \in Nat, m \in T
      PROVE  m + 1 \in T
  <2>1. PICK r : Reading(r, lines, m)
    BY <1>2
  <2> DEFINE w == [k \in 0..(m + 1) |-> IF k = m + 1 THEN ReadLine(r[m], lines[m + 1]) ELSE r[k]]
  <2>2. \A k \in 0..m : w[k] = r[k] /\ k # m + 1 /\ k \in 0..(m + 1)
    OBVIOUS
  <2>3. ASSUME NEW k \in 0..(m + 1)
        PROVE  w[k] = IF k = 0 THEN Fresh ELSE ReadLine(w[k - 1], lines[k])
    <3>1. CASE k = m + 1
      <4>1. w[k] = ReadLine(r[m], lines[m + 1]) /\ k # 0 /\ k - 1 = m /\ w[m] = r[m]
        BY <2>2, <3>1
      <4> QED
        BY <3>1, <4>1
    <3>2. CASE k # m + 1
      <4>1. k \in 0..m
        BY <3>2
      <4>2. k # 0 => k - 1 \in 0..m
        BY <4>1
      <4>3. r[k] = IF k = 0 THEN Fresh ELSE ReadLine(r[k - 1], lines[k])
        BY <2>1, <4>1 DEF Reading
      <4> HIDE DEF w
      <4> QED
        BY <2>2, <4>1, <4>2, <4>3
    <3> QED
      BY <3>1, <3>2
  <2>4. w = [k \in 0..(m + 1) |-> w[k]]
    OBVIOUS
  <2>5. Reading(w, lines, m + 1)
    <3> HIDE DEF w
    <3> QED
      BY <2>3, <2>4 DEF Reading
  <2> HIDE DEF w
  <2> QED
    BY <2>5
<1> HIDE DEF T
<1>3. Nat \subseteq T
  BY <1>1, <1>2, SetInduction
<1> QED
  BY <1>3 DEF T

\* The first n lines of two listings are the same.
SameUpTo(lines1, lines2, n) == \A k \in 1..n : lines1[k] = lines2[k]

LEMMA ReadingAgrees ==
  ASSUME NEW lines1, NEW lines2, NEW m \in Nat, SameUpTo(lines1, lines2, m),
         NEW r1, Reading(r1, lines1, m),
         NEW r2, Reading(r2, lines2, m + 1)
  PROVE  r1[m] = r2[m]
<1> DEFINE T == {k \in Nat : k <= m => r1[k] = r2[k]}
<1>1. 0 \in T
  BY DEF Reading
<1>2. ASSUME NEW k \in Nat, k \in T
      PROVE  k + 1 \in T
  <2>1. SUFFICES ASSUME k + 1 <= m PROVE r1[k + 1] = r2[k + 1]
    OBVIOUS
  <2>2. r1[k] = r2[k] /\ k + 1 \in 0..m /\ k + 1 \in 0..(m + 1) /\ k + 1 # 0 /\ (k + 1) - 1 = k
    BY <1>2, <2>1
  <2>3. r1[k + 1] = ReadLine(r1[k], lines1[k + 1])
    BY <2>2 DEF Reading
  <2>4. r2[k + 1] = ReadLine(r2[k], lines2[k + 1])
    BY <2>2 DEF Reading
  <2>5. lines1[k + 1] = lines2[k + 1]
    BY <2>1 DEF SameUpTo
  <2> QED
    BY <2>2, <2>3, <2>4, <2>5
<1> HIDE DEF T
<1>3. m \in T
  BY <1>1, <1>2, SetInduction
<1> QED
  BY <1>3 DEF T

LEMMA AssembledIs ==
  ASSUME NEW S, NEW lines \in Seq(S)
  PROVE  \E r : Reading(r, lines, Len(lines)) /\ Assembled(lines) = r[Len(lines)]
<1>1. \E r : Reading(r, lines, Len(lines))
  BY ReadingExists, LenProperties
<1>2. Reading(CHOOSE r : Reading(r, lines, Len(lines)), lines, Len(lines))
  BY <1>1
<1>3. Assembled(lines) = (CHOOSE r : Reading(r, lines, Len(lines)))[Len(lines)]
  BY DEF Assembled, Reading
<1> QED
  BY <1>2, <1>3

\* An assembler that has read nothing is fresh.
LEMMA AssembledNone == Assembled(<<>>) = Fresh
<1>1. <<>> \in Seq({}) /\ Len(<<>>) = 0
  BY EmptySeq
<1>2. PICK r : Reading(r, <<>>, 0) /\ Assembled(<<>>) = r[0]
  BY <1>1, AssembledIs
<1> QED
  BY <1>2 DEF Reading

\* Reading one line more.
LEMMA AssembledAppend ==
  ASSUME NEW S, NEW lines \in Seq(S), NEW x \in S
  PROVE  Assembled(Append(lines, x)) = ReadLine(Assembled(lines), x)
<1>1. PICK n \in Nat : n = Len(lines)
  BY LenProperties
<1>2. PICK more : more = Append(lines, x)
  OBVIOUS
<1>3. /\ more \in Seq(S) /\ Len(more) = n + 1 /\ more[n + 1] = x
      /\ \A k \in 1..n : more[k] = lines[k]
  BY <1>1, <1>2, AppendProperties, SMTT(30)
<1>4. PICK r : Reading(r, lines, n) /\ Assembled(lines) = r[n]
  BY <1>1, AssembledIs
<1>5. PICK w : Reading(w, more, n + 1) /\ Assembled(more) = w[n + 1]
  <2>1. \E w : Reading(w, more, Len(more)) /\ Assembled(more) = w[Len(more)]
    BY <1>3, AssembledIs
  <2> QED
    BY <1>3, <2>1
<1>6. w[n] = r[n]
  <2>1. SameUpTo(lines, more, n)
    BY <1>3 DEF SameUpTo
  <2>2. Reading(r, lines, n) /\ Reading(w, more, n + 1)
    BY <1>4, <1>5
  <2> QED
    BY <2>1, <2>2, ReadingAgrees
<1>7. w[n + 1] = ReadLine(w[n], more[n + 1])
  <2>1. n + 1 \in 0..(n + 1) /\ n + 1 # 0 /\ (n + 1) - 1 = n
    BY <1>1
  <2> QED
    BY <1>5, <2>1 DEF Reading
<1> QED
  BY <1>2, <1>3, <1>4, <1>5, <1>6, <1>7

------------------------------------------------------------------------------
(* Reading an operand and laying it down again *)

\* The first bytes of a tuple of three, when they are bytes of the buffer.
LEMMA PrefixOfThree ==
  ASSUME NEW c \in Seq(Byte), NEW q \in Nat, NEW n \in 1..3, q + n <= Len(c),
         NEW b1 \in Byte, NEW b2 \in Byte, NEW b3 \in Byte,
         b1 = c[q + 1], n > 1 => b2 = c[q + 2], n > 2 => b3 = c[q + 3]
  PROVE  SubSeq(<<b1, b2, b3>>, 1, n) = SubSeq(c, q + 1, q + n)
<1>1. PICK t : t = <<b1, b2, b3>>
  OBVIOUS
<1>2. t \in Seq(Byte) /\ Len(t) = 3 /\ t[1] = b1 /\ t[2] = b2 /\ t[3] = b3
  BY <1>1
<1>3. PICK x : x = SubSeq(t, 1, n)
  OBVIOUS
<1>4. PICK y : y = SubSeq(c, q + 1, q + n)
  OBVIOUS
<1>5. x \in Seq(Byte) /\ Len(x) = n /\ \A k \in 1..n : x[k] = t[k]
  <2>1. \A k \in 1..n : t[k] \in Byte
    BY <1>2, ElementOfSeq
  <2>2. /\ SubSeq(t, 1, n) \in Seq(Byte)
        /\ Len(SubSeq(t, 1, n)) = IF 1 <= n THEN n - 1 + 1 ELSE 0
        /\ \A k \in 1..(n - 1 + 1) : SubSeq(t, 1, n)[k] = t[1 + k - 1]
    BY <2>1, SubSeqProperties, SMTT(30)
  <2> QED
    BY <1>3, <2>2
<1>6. y \in Seq(Byte) /\ Len(y) = n /\ \A k \in 1..n : y[k] = c[q + k]
  <2>1. \A k \in (q + 1)..(q + n) : c[k] \in Byte
    BY ElementOfSeq
  <2>2. /\ SubSeq(c, q + 1, q + n) \in Seq(Byte)
        /\ Len(SubSeq(c, q + 1, q + n)) = IF q + 1 <= q + n THEN (q + n) - (q + 1) + 1 ELSE 0
        /\ \A k \in 1..((q + n) - (q + 1) + 1) : SubSeq(c, q + 1, q + n)[k] = c[q + 1 + k - 1]
    BY <2>1, SubSeqProperties, SMTT(30)
  <2> QED
    BY <1>4, <2>2
<1>7. \A k \in 1..n : x[k] = y[k]
  <2>1. \A k \in 1..n : t[k] = c[q + k]
    BY <1>2
  <2> QED
    BY <1>5, <1>6, <2>1
<1>8. x = y
  BY <1>5, <1>6, <1>7, SeqEqual
<1> QED
  BY <1>1, <1>3, <1>4, <1>8

\* The bytes of a slot that is there, and 0 for those it does not have.
SlotBytes(c, q, n, b1, b2, b3) ==
  /\ 0 <= b1 /\ b1 < 256 /\ 0 <= b2 /\ b2 < 256 /\ 0 <= b3 /\ b3 < 256
  /\ b1 \in Byte /\ b2 \in Byte /\ b3 \in Byte
  /\ b1 = c[q + 1]
  /\ b2 = IF n > 1 THEN c[q + 2] ELSE 0
  /\ b3 = IF n > 2 THEN c[q + 3] ELSE 0

LEMMA SlotBytesExist ==
  ASSUME NEW c \in Seq(Byte), NEW q \in Nat, NEW n \in 1..3, q + n <= Len(c)
  PROVE  \E b1, b2, b3 \in Int : SlotBytes(c, q, n, b1, b2, b3)
<1>1. Len(c) \in Nat /\ \A k \in 1..Len(c) : c[k] \in Byte
  BY LenProperties, ElementOfSeq
<1>2. \A k \in 1..n : c[q + k] \in Byte
  BY <1>1
<1>3. 0 \in Byte
  BY DEF Byte
<1>4. PICK b1 \in Byte : b1 = c[q + 1]
  BY <1>2
<1>5. PICK b2 \in Byte : b2 = IF n > 1 THEN c[q + 2] ELSE 0
  BY <1>2, <1>3
<1>6. PICK b3 \in Byte : b3 = IF n > 2 THEN c[q + 3] ELSE 0
  BY <1>2, <1>3
<1>7. \A b \in Byte : b \in Int /\ 0 <= b /\ b < 256
  BY DEF Byte
<1>8. SlotBytes(c, q, n, b1, b2, b3)
  BY <1>4, <1>5, <1>6, <1>7 DEF SlotBytes
<1> QED
  BY <1>7, <1>8

LEMMA SlotValue ==
  ASSUME NEW c, NEW q \in Nat, NEW n \in 1..3,
         NEW b1 \in Int, NEW b2 \in Int, NEW b3 \in Int, SlotBytes(c, q, n, b1, b2, b3)
  PROVE  LittleEndian(c, q, n) = b1 + 256 * b2 + 65536 * b3
<1>1. c[q + 1] = b1
  BY DEF SlotBytes
<1>2. CASE n = 1
  BY <1>1, <1>2 DEF SlotBytes, LittleEndian
<1>3. CASE n = 2
  BY <1>1, <1>3 DEF SlotBytes, LittleEndian
<1>4. CASE n = 3
  BY <1>1, <1>4 DEF SlotBytes, LittleEndian
<1> QED
  BY <1>2, <1>3, <1>4

\* The unsigned value v fits the slot, and lays down the bytes it was read from.
ValueGoesBack(c, q, n, v) ==
  /\ v \in Nat /\ v < Bound(n)
  /\ SmallEndBytes(v, n) = SubSeq(c, q + 1, q + n)

LEMMA ValueRoundTrip ==
  ASSUME NEW c \in Seq(Byte), NEW q \in Nat, NEW n \in 1..3, q + n <= Len(c),
         NEW v, v = LittleEndian(c, q, n)
  PROVE  ValueGoesBack(c, q, n, v)
<1>1. PICK b1 \in Int, b2 \in Int, b3 \in Int : SlotBytes(c, q, n, b1, b2, b3)
  BY SlotBytesExist
<1>2. v = b1 + 256 * b2 + 65536 * b3
  BY <1>1, SlotValue
<1>3. v \in Int
  BY <1>2
<1>4. /\ v \in Nat
      /\ v % 256 = b1 /\ (v \div 256) % 256 = b2 /\ (v \div 65536) % 256 = b3
      /\ v < 256 * 65536
      /\ b3 = 0 => v < 65536
      /\ b3 = 0 /\ b2 = 0 => v < 256
  <2>1. 0 <= b1 /\ b1 < 256 /\ 0 <= b2 /\ b2 < 256 /\ 0 <= b3 /\ b3 < 256
    BY <1>1 DEF SlotBytes
  <2> QED
    BY <1>2, <1>3, <2>1, ThreeByteRoundTrip
<1>5. v < Bound(n)
  <2>1. n = 1 \/ n = 2 \/ n = 3
    OBVIOUS
  <2>2. (n <= 2 => b3 = 0) /\ (n <= 1 => b2 = 0)
    BY <1>1 DEF SlotBytes
  <2> QED
    BY <1>4, <2>1, <2>2, SMTT(30) DEF Bound
<1>6. SubSeq(<<b1, b2, b3>>, 1, n) = SubSeq(c, q + 1, q + n)
  BY <1>1, PrefixOfThree, SMTT(30) DEF SlotBytes
<1>7. ThreeBytes(v) = <<b1, b2, b3>>
  BY <1>4 DEF ThreeBytes
<1>8. SmallEndBytes(v, n) = SubSeq(c, q + 1, q + n)
  BY <1>6, <1>7, Zenon DEF SmallEndBytes
<1> QED
  BY <1>4, <1>5, <1>8 DEF ValueGoesBack

\* The offset v, printed as a target, goes back to v and to the bytes it was
\* read from.
BranchGoesBack(c, q, n, addr, len, v) ==
  /\ Target(addr, len, v) \in Word16
  /\ AsI16(Wrap16(Target(addr, len, v) - (addr + len))) = v
  /\ v \in Int
  /\ n = 1 => -128 <= v /\ v <= 127
  /\ SmallEndBytes(Wrap16(v), n) = SubSeq(c, q + 1, q + n)

\* A branch printed as its target goes back to the offset it was read from,
\* wherever in the address space it stands.
LEMMA BranchValueRoundTrip ==
  ASSUME NEW c \in Seq(Byte), NEW q \in Nat, NEW n \in 1..2, q + n <= Len(c),
         NEW addr \in Word16, NEW len \in Nat,
         NEW v, v = IF n = 1 THEN AsI8(LittleEndian(c, q, n)) ELSE AsI16(LittleEndian(c, q, n))
  PROVE  BranchGoesBack(c, q, n, addr, len, v)
<1>0. n \in 1..3 /\ ~(n > 2) /\ (n = 1 \/ n = 2)
  OBVIOUS
<1>1. PICK b1 \in Int, b2 \in Int, b3 \in Int : SlotBytes(c, q, n, b1, b2, b3)
  BY <1>0, SlotBytesExist
<1>2. b3 = 0 /\ (n = 1 => b2 = 0)
  BY <1>0, <1>1 DEF SlotBytes
<1>3. PICK u \in Int : u = b1 + 256 * b2
  OBVIOUS
<1>4. LittleEndian(c, q, n) = u
  <2>1. LittleEndian(c, q, n) = b1 + 256 * b2 + 65536 * b3
    BY <1>0, <1>1, SlotValue
  <2> QED
    BY <1>2, <1>3, <2>1
<1>5. 0 <= u /\ u < 65536 /\ u % 256 = b1 /\ (u \div 256) % 256 = b2
  <2>1. 0 <= b1 /\ b1 < 256 /\ 0 <= b2 /\ b2 < 256
    BY <1>1 DEF SlotBytes
  <2> QED
    BY <1>3, <2>1, SMT
<1>6. /\ v \in Int /\ -32768 <= v /\ v <= 32767
      /\ n = 1 => -128 <= v /\ v <= 127 /\ Wrap16(v) % 256 = b1
      /\ n = 2 => Wrap16(v) = u
  <2>1. CASE n = 1
    <3>1. u = b1 /\ 0 <= b1 /\ b1 < 256
      BY <1>1, <1>2, <1>3, <2>1 DEF SlotBytes
    <3>2. v = AsI8(b1)
      BY <1>4, <2>1, <3>1
    <3>3. /\ v \in Int /\ -128 <= v /\ v <= 127
          /\ Wrap16(v) % 256 = b1
      BY <3>1, <3>2, SignedByteLaid
    <3>4. -32768 <= v /\ v <= 32767
      BY <3>3
    <3> QED
      BY <2>1, <3>3, <3>4
  <2>2. CASE n = 2
    <3>1. v = AsI16(u)
      BY <1>4, <2>2
    <3>2. /\ v \in Int /\ -32768 <= v /\ v <= 32767
          /\ Wrap16(v) = u
      BY <1>5, <3>1, SignedWordLaid
    <3> QED
      BY <2>2, <3>2
  <2> QED
    BY <1>0, <2>1, <2>2
<1>7. PICK w \in Int : w = Wrap16(v)
  <2>1. v \in Int
    BY <1>6
  <2> QED
    BY <2>1, WrapIsWord, SMTT(30)
<1>8. addr + len \in Int
  BY WordIsInt
<1>9. Target(addr, len, v) \in Word16
  <2>1. Wrap16(addr + len) \in Int /\ Wrap16(v) \in Int
    BY <1>7, <1>8, WrapIsWord, SMTT(30)
  <2>2. Wrap16(addr + len) + Wrap16(v) \in Int
    BY <2>1
  <2> QED
    BY <2>2, WrapIsWord, SMTT(30) DEF Target
<1>10. AsI16(Wrap16(Target(addr, len, v) - (addr + len))) = v
  BY <1>6, <1>8, OffsetOfTarget DEF Target
<1>11. w % 256 = b1 /\ (n = 2 => (w \div 256) % 256 = b2)
  BY <1>0, <1>5, <1>6, <1>7, SMTT(30)
<1>12. PICK b4, b5 \in Byte : b4 = (w \div 256) % 256 /\ b5 = (w \div 65536) % 256
  <2>1. w \div 256 \in Int /\ w \div 65536 \in Int
    OBVIOUS
  <2>2. \A x \in Int : x % 256 \in Byte
    BY DEF Byte
  <2> QED
    BY <2>1, <2>2
<1>13. SubSeq(<<b1, b4, b5>>, 1, n) = SubSeq(c, q + 1, q + n)
  <2>1. n > 1 => b4 = c[q + 2]
    BY <1>0, <1>1, <1>11, <1>12 DEF SlotBytes
  <2>2. b1 \in Byte /\ b1 = c[q + 1]
    BY <1>1 DEF SlotBytes
  <2> QED
    BY <1>0, <1>12, <2>1, <2>2, PrefixOfThree
<1>14. SmallEndBytes(w, n) = SubSeq(c, q + 1, q + n)
  <2>1. ThreeBytes(w) = <<b1, b4, b5>>
    BY <1>11, <1>12 DEF ThreeBytes
  <2> QED
    BY <1>13, <2>1, Zenon DEF SmallEndBytes
<1>15. SmallEndBytes(Wrap16(v), n) = SubSeq(c, q + 1, q + n)
  BY <1>7, <1>14, Zenon
<1> QED
  BY <1>6, <1>9, <1>10, <1>15 DEF BranchGoesBack

------------------------------------------------------------------------------
(* The forms of the table and the slots they have *)

LEMMA FormShape ==
  ASSUME NEW f \in Table
  PROVE  /\ f.opcode \in Seq(Byte) /\ Len(f.opcode) = 1 /\ f.opcode[1] \in Byte
         /\ f.opcode = <<f.opcode[1]>>
         /\ f.suffix = <<>> /\ Len(f.suffix) = 0
         /\ f.operands \in Seq([kind : OperandKind, bytes : 1..3])
         /\ DOMAIN f.operands = 1..Len(f.operands)
         /\ Len(f.operands) \in Nat
<1>1. /\ f.opcode \in [1..1 -> Byte]
      /\ f.suffix = <<>>
      /\ f.operands \in Seq([kind : OperandKind, bytes : 1..3])
  BY TableIsWellFormed
<1>2. f.opcode = <<f.opcode[1]>> /\ f.opcode[1] \in Byte
  <2>1. f.opcode = [k \in 1..1 |-> f.opcode[k]] /\ f.opcode[1] \in Byte
    BY <1>1
  <2>2. [k \in 1..1 |-> f.opcode[k]] = <<f.opcode[1]>>
    OBVIOUS
  <2> QED
    BY <2>1, <2>2
<1>3. PICK b \in Byte : b = f.opcode[1] /\ f.opcode = <<b>>
  BY <1>2
<1>4. <<b>> \in Seq(Byte) /\ Len(<<b>>) = 1
  OBVIOUS
<1>5. Len(f.suffix) = 0
  BY <1>1
<1> QED
  BY <1>1, <1>2, <1>3, <1>4, <1>5, LenProperties

LEMMA FormLenIs ==
  ASSUME NEW f \in Table, NEW n \in Int, OperandLen(f) = n
  PROVE  FormLen(f) = 1 + n
<1>1. Len(f.opcode) = 1 /\ Len(f.suffix) = 0
  BY FormShape
<1> QED
  BY <1>1 DEF FormLen

\* A form without operands.
LEMMA NoSlot ==
  ASSUME NEW f \in Table, Len(f.operands) = 0
  PROVE  f.operands = <<>> /\ OperandLen(f) = 0 /\ FormLen(f) = 1 /\ DOMAIN f.operands = {}
<1>1. DOMAIN f.operands = {}
  BY FormShape
<1>2. f.operands = <<>>
  <2>1. PICK S : f.operands \in Seq(S)
    BY FormShape
  <2>2. f.operands # <<>> => Len(f.operands) \in Nat \ {0}
    BY <2>1, EmptySeq
  <2> QED
    BY <2>2
<1>3. Width(f, 1) = 0 /\ Width(f, 2) = 0 /\ Width(f, 3) = 0
  BY <1>1 DEF Width
<1>4. OperandLen(f) = 0
  BY <1>3 DEF OperandLen
<1>5. FormLen(f) = 1
  <2>1. FormLen(f) = 1 + 0
    BY <1>4, FormLenIs
  <2> QED
    BY <2>1
<1> QED
  BY <1>1, <1>2, <1>4, <1>5

\* A form with one operand.
LEMMA OneSlot ==
  ASSUME NEW f \in Table, Len(f.operands) = 1
  PROVE  /\ DOMAIN f.operands = {1}
         /\ f.operands[1].bytes \in 1..3
         /\ Width(f, 1) = f.operands[1].bytes
         /\ OperandLen(f) = f.operands[1].bytes
         /\ FormLen(f) = 1 + f.operands[1].bytes
         /\ f.operands # <<>>
<1>1. DOMAIN f.operands = {1}
  <2>1. DOMAIN f.operands = 1..1
    BY FormShape, Zenon
  <2> QED
    BY <2>1
<1>2. f.operands[1] \in [kind : OperandKind, bytes : 1..3]
  <2>1. f.operands \in Seq([kind : OperandKind, bytes : 1..3])
    BY FormShape
  <2>2. 1 \in 1..Len(f.operands)
    OBVIOUS
  <2> QED
    BY <2>1, <2>2, ElementOfSeq
<1>3. PICK n \in 1..3 : n = f.operands[1].bytes
  BY <1>2
<1>4. Width(f, 1) = n /\ Width(f, 2) = 0 /\ Width(f, 3) = 0
  BY <1>1, <1>3 DEF Width
<1>5. OperandLen(f) = n
  BY <1>4 DEF OperandLen
<1>6. FormLen(f) = 1 + n
  BY <1>5, FormLenIs
<1>7. f.operands # <<>>
  BY EmptySeq
<1> QED
  BY <1>1, <1>3, <1>4, <1>5, <1>6, <1>7

\* A block move.
LEMMA TwoSlots ==
  ASSUME NEW f \in Table, f.mode = "block-move"
  PROVE  /\ DOMAIN f.operands = {1, 2}
         /\ f.operands[1].bytes = 1 /\ f.operands[2].bytes = 1
         /\ Width(f, 1) = 1 /\ Width(f, 2) = 1
         /\ OperandLen(f) = 2
         /\ FormLen(f) = 3
         /\ f.operands # <<>>
         /\ f.operands[1].kind # "RelativePc" /\ f.operands[2].kind # "RelativePc"
<1>1. /\ Len(f.operands) = 2 /\ f.operands[1].bytes = 1 /\ f.operands[2].bytes = 1
      /\ \A s \in DOMAIN f.operands : f.operands[s].kind # "RelativePc"
  BY SlotsFitModes DEF IsBranch
<1>2. DOMAIN f.operands = {1, 2}
  <2>1. DOMAIN f.operands = 1..2
    BY <1>1, FormShape, Zenon
  <2> QED
    BY <2>1
<1>3. Width(f, 1) = 1 /\ Width(f, 2) = 1 /\ Width(f, 3) = 0
  BY <1>1, <1>2 DEF Width
<1>4. OperandLen(f) = 2
  BY <1>3 DEF OperandLen
<1>5. FormLen(f) = 3
  <2>1. FormLen(f) = 1 + 2
    BY <1>4, FormLenIs
  <2> QED
    BY <2>1
<1>6. f.operands # <<>>
  BY <1>1, EmptySeq
<1> QED
  BY <1>1, <1>2, <1>3, <1>4, <1>5, <1>6

\* Every form has no operand, one operand, or is a block move.
LEMMA SlotsOfForm ==
  ASSUME NEW f \in Table
  PROVE  /\ Len(f.operands) = 0 \/ Len(f.operands) = 1 \/ f.mode = "block-move"
         /\ OperandLen(f) \in Nat /\ FormLen(f) \in Nat
         /\ FormLen(f) = 1 + OperandLen(f)
<1>1. Len(f.operands) = 0 \/ Len(f.operands) = 1 \/ f.mode = "block-move"
  BY SlotsFitModes, FormShape
<1>2. CASE Len(f.operands) = 0
  BY <1>2, NoSlot
<1>3. CASE Len(f.operands) = 1
  BY <1>3, OneSlot
<1>4. CASE f.mode = "block-move"
  BY <1>4, TwoSlots
<1> QED
  BY <1>1, <1>2, <1>3, <1>4

LEMMA ModesDiffer ==
  ASSUME NEW mode
  PROVE  /\ ~(mode \in ZeroPageModes /\ mode \in AbsoluteModes)
         /\ ~(mode \in ZeroPageModes /\ mode \in LongModes)
         /\ ~(mode \in AbsoluteModes /\ mode \in LongModes)
BY Zenon DEF ZeroPageModes, AbsoluteModes, LongModes

\* The modes of each size of address.
LEMMA ModesOfSize ==
  ASSUME NEW mode
  PROVE  /\ Size(mode) = 1 <=> mode \in ZeroPageModes
         /\ Size(mode) = 2 <=> mode \in AbsoluteModes
         /\ Size(mode) = 3 <=> mode \in LongModes
         /\ Size(mode) \in 0..3
BY ModesDiffer DEF Size

\* When the size of an address is pinned.
LEMMA PrefixOfMode ==
  ASSUME NEW mode, NEW v \in Int
  PROVE  SizePrefix(mode, v) =
           IF mode \in AbsoluteModes /\ v < 256 THEN 2
           ELSE IF mode \in LongModes /\ v < 65536 THEN 3 ELSE 0
BY ModesDiffer DEF SizePrefix

\* A form with a sized address has one unsigned operand of that size.
LEMMA SizedSlot ==
  ASSUME NEW f \in Table, Size(f.mode) # 0
  PROVE  /\ Len(f.operands) = 1
         /\ Width(f, 1) = Size(f.mode) /\ OperandLen(f) = Size(f.mode)
         /\ Size(f.mode) \in 1..3
         /\ ~IsBranch(f)
         /\ Shape(f.mode) # "#"
<1>1. OperandLen(f) = Size(f.mode)
  BY SlotsFitModes
<1>2. Size(f.mode) \in 1..3 /\ ~IsBranch(f) /\ Shape(f.mode) # "#" /\ f.mode # "block-move"
  <2>1. Size(f.mode) \in 1..3
    BY ModesOfSize
  <2>2. f.mode \in ZeroPageModes \cup AbsoluteModes \cup LongModes
    BY ModesOfSize
  <2>3. ~IsBranch(f) /\ f.mode # "block-move"
    BY <2>2, Zenon DEF IsBranch, ZeroPageModes, AbsoluteModes, LongModes
  <2>4. Shape(f.mode) # "#"
    <3>1. f.mode \in {"zeropage", "zeropage,x", "zeropage,y", "absolute", "absolute,x",
                       "absolute,y", "long", "long,x"}
      BY <2>2, Zenon DEF ZeroPageModes, AbsoluteModes, LongModes
    <3> QED
      BY <3>1 DEF Shape
  <2> QED
    BY <2>1, <2>3, <2>4
<1>3. Len(f.operands) = 1
  <2>1. CASE Len(f.operands) = 0
    BY <1>1, <2>1, NoSlot
  <2>2. CASE Len(f.operands) = 1
    BY <2>2
  <2> QED
    BY <1>2, <2>1, <2>2, SlotsOfForm
<1> QED
  BY <1>1, <1>2, <1>3, OneSlot

------------------------------------------------------------------------------
(* Decoding *)

LEMMA DecodedForm ==
  ASSUME NEW c \in Seq(Byte), NEW p \in Nat, p < Len(c), NEW aw, NEW iw,
         NEW f \in Decoded(c, p, aw, iw)
  PROVE  /\ f \in Table
         /\ c[p + 1] \in Byte /\ f.opcode[1] = c[p + 1]
         /\ f \in Selected(c[p + 1], aw, iw)
         /\ p + FormLen(f) <= Len(c)
<1>1. c[p + 1] \in Byte
  BY LenProperties, ElementOfSeq
<1>2. f \in Selected(c[p + 1], aw, iw) /\ p + FormLen(f) <= Len(c)
  BY DEF Decoded
<1>3. f \in Candidates[c[p + 1]]
  BY <1>2 DEF Selected
<1>4. f \in Table /\ f.opcode[1] = c[p + 1]
  BY <1>1, <1>3 DEF Candidates
<1> QED
  BY <1>1, <1>2, <1>4

\* A set of forms with two members does not have one.
LEMMA NotOne ==
  ASSUME NEW S, S \subseteq Table, NEW f \in S, NEW g \in S, f # g
  PROVE  Cardinality(S) # 1
<1>1. IsFiniteSet(S)
  BY TableIsFinite, FS_Subset
<1> QED
  BY <1>1, FS_Singleton

\* An immediate that has a twin is decoded with the width in force.
LEMMA WidthOfImmediate ==
  ASSUME NEW b \in Byte, NEW aw \in {1, 2}, NEW iw \in {1, 2}, NEW f \in Selected(b, aw, iw),
         Shape(f.mode) = "#",
         NEW g \in Table, g # f, g.mnemonic = f.mnemonic, Shape(g.mode) = "#"
  PROVE  OperandLen(f) = IF f.mnemonic \in IndexMnemonics THEN iw ELSE aw
<1>1. PICK cands : cands = Candidates[b]
  OBVIOUS
<1>2. f \in cands
  BY <1>1 DEF Selected
<1>3. cands = {h \in Table : h.opcode[1] = b}
  BY <1>1 DEF Candidates
<1>4. f \in Table /\ f.opcode[1] = b
  BY <1>2, <1>3
<1>5. g.opcode = f.opcode
  BY <1>4, TextsTellFormsApart
<1>6. g \in cands
  BY <1>3, <1>4, <1>5
<1>7. Cardinality(cands) # 1
  BY <1>2, <1>3, <1>6, NotOne
<1>8. f.mode = WantedMode(cands, aw, iw)
  BY <1>1, <1>7 DEF Selected
<1>9. \A h \in cands : h.mnemonic = f.mnemonic
  <2>1. ASSUME NEW h \in cands
        PROVE  h.opcode = f.opcode
    <3>1. h \in Table /\ h.opcode[1] = b
      BY <1>3
    <3>2. h.opcode = <<h.opcode[1]>> /\ f.opcode = <<f.opcode[1]>>
      BY <1>4, <3>1, FormShape
    <3> QED
      BY <1>4, <3>1, <3>2
  <2>2. \A h \in cands : h \in Table
    BY <1>3
  <2> QED
    BY <1>4, <2>1, <2>2, ImmediatesArePaired
<1>10. (\E h \in cands : h.mnemonic \in IndexMnemonics) <=> f.mnemonic \in IndexMnemonics
  BY <1>2, <1>9
<1>11. PICK w : w = IF f.mnemonic \in IndexMnemonics THEN iw ELSE aw
  OBVIOUS
<1>12. f.mode = IF w = 2 THEN "immediate16" ELSE "immediate"
  BY <1>8, <1>10, <1>11 DEF WantedMode
<1>13. w = 1 \/ w = 2
  BY <1>11
<1>14. OperandLen(f) = IF f.mode = "immediate" THEN 1 ELSE 2
  BY <1>4, ImmediatesArePaired
<1>15. OperandLen(f) = w
  BY <1>12, <1>13, <1>14
<1> QED
  BY <1>11, <1>15

------------------------------------------------------------------------------
(* How a text is read *)

\* The forms a text looks like.
Named(text) == {g \in Table : g.mnemonic = text.mnemonic /\ Shape(g.mode) = text.shape}

\* What the assembler takes the width of an immediate from.
InForce(text, widths) == IF text.mnemonic \in IndexMnemonics THEN widths.i ELSE widths.a

\* The size of g is one the text allows.
Allowed(g, text, widths) ==
  IF text.shape = "#" THEN Cardinality(Named(text)) = 1 \/ OperandLen(g) = InForce(text, widths)
  ELSE text.force = 0 \/ OperandLen(g) = text.force

\* The text is read as f alone when f fits and every other fitting form is longer.
LEMMA ReadAsOne ==
  ASSUME NEW text, NEW addr, NEW widths, NEW f \in Named(text),
         Allowed(f, text, widths), InRange(f, text, addr),
         \A g \in Named(text) :
           g # f /\ Allowed(g, text, widths) /\ InRange(g, text, addr)
             => OperandLen(f) < OperandLen(g)
  PROVE  Readings(text, addr, widths) = {f}
<1> DEFINE fitting == {g \in Named(text) : Allowed(g, text, widths) /\ InRange(g, text, addr)}
<1>1. Readings(text, addr, widths) = {g \in fitting : \A h \in fitting : OperandLen(g) <= OperandLen(h)}
  BY Zenon DEF Readings, Named, Allowed, InForce
<1>2. \A g \in fitting : OperandLen(g) \in Nat
  BY SlotsOfForm DEF Named
<1>3. f \in fitting /\ \A g \in fitting : g # f => OperandLen(f) < OperandLen(g)
  OBVIOUS
<1> HIDE DEF fitting
<1>4. \A g \in fitting : OperandLen(f) <= OperandLen(g)
  BY <1>2, <1>3
<1>5. \A g \in fitting : OperandLen(g) <= OperandLen(f) => g = f
  BY <1>2, <1>3
<1> QED
  BY <1>1, <1>3, <1>4, <1>5

\* A form no other looks like.
LEMMA ReadAlone ==
  ASSUME NEW text, NEW addr, NEW widths, NEW f, Named(text) = {f},
         text.shape = "#" \/ text.force = 0 \/ text.force = OperandLen(f),
         InRange(f, text, addr)
  PROVE  Readings(text, addr, widths) = {f}
<1>1. Cardinality(Named(text)) = 1
  BY FS_Singleton
<1>2. Allowed(f, text, widths)
  BY <1>1 DEF Allowed
<1> QED
  BY <1>2, ReadAsOne

\* An immediate: f has no twin, or the width in force.
LEMMA ReadImmediate ==
  ASSUME NEW text, NEW addr, NEW widths, NEW f \in Named(text),
         text.shape = "#", InRange(f, text, addr),
         (\E g \in Named(text) : g # f) => OperandLen(f) = InForce(text, widths)
  PROVE  Readings(text, addr, widths) = {f}
<1>1. CASE Named(text) = {f}
  BY <1>1, ReadAlone
<1>2. CASE Named(text) # {f}
  <2>1. PICK g \in Named(text) : g # f
    BY <1>2
  <2>2. OperandLen(f) = InForce(text, widths)
    BY <2>1
  <2>3. Allowed(f, text, widths)
    BY <2>2 DEF Allowed
  <2>4. Named(text) \subseteq Table
    BY DEF Named
  <2>5. Cardinality(Named(text)) # 1
    BY <2>1, <2>4, NotOne
  <2>6. ASSUME NEW h \in Named(text), h # f, Allowed(h, text, widths)
        PROVE  FALSE
    <3>1. OperandLen(h) = OperandLen(f)
      BY <2>2, <2>5, <2>6 DEF Allowed
    <3>2. /\ f \in Table /\ h \in Table
          /\ f.mnemonic = h.mnemonic /\ Shape(f.mode) = Shape(h.mode)
      BY <2>6 DEF Named
    <3> QED
      BY <2>6, <3>1, <3>2, TextsTellFormsApart
  <2> QED
    BY <2>3, <2>6, ReadAsOne
<1> QED
  BY <1>1, <1>2

\* An address that comes in several sizes.
LEMMA ReadAddress ==
  ASSUME NEW text, NEW addr, NEW widths, NEW f \in Named(text), Size(f.mode) # 0,
         NEW v \in Nat, text.shown = <<v>>, v < Bound(OperandLen(f)),
         text.force = SizePrefix(f.mode, v)
  PROVE  Readings(text, addr, widths) = {f}
<1>1. f \in Table /\ Shape(f.mode) = text.shape /\ f.mnemonic = text.mnemonic
  BY DEF Named
<1>2. PICK n \in 1..3 : n = Size(f.mode)
  BY <1>1, SizedSlot
<1>3. OperandLen(f) = n /\ Width(f, 1) = n /\ ~IsBranch(f) /\ text.shape # "#"
  BY <1>1, <1>2, SizedSlot
<1>4. text.force = IF n = 2 /\ v < 256 THEN 2 ELSE IF n = 3 /\ v < 65536 THEN 3 ELSE 0
  BY <1>2, ModesOfSize, PrefixOfMode
<1>5. DOMAIN text.shown = {1} /\ text.shown[1] = v
  OBVIOUS
<1>6. InRange(f, text, addr)
  BY <1>3, <1>5 DEF InRange
<1>7. Allowed(f, text, widths)
  BY <1>3, <1>4 DEF Allowed
<1>8. ASSUME NEW g \in Named(text), g # f, Allowed(g, text, widths), InRange(g, text, addr)
      PROVE  OperandLen(f) < OperandLen(g)
  <2>1. g \in Table /\ g.mnemonic = f.mnemonic /\ Shape(g.mode) = Shape(f.mode)
    BY <1>1 DEF Named
  <2>2. OperandLen(g) # OperandLen(f) /\ Size(g.mode) # 0
    BY <1>1, <1>3, <1>8, <2>1, TextsTellFormsApart
  <2>3. PICK m \in 1..3 : m = Size(g.mode)
    BY <2>1, <2>2, SizedSlot
  <2>4. OperandLen(g) = m /\ Width(g, 1) = m /\ ~IsBranch(g)
    BY <2>1, <2>2, <2>3, SizedSlot
  <2>5. m # n
    BY <1>3, <2>2, <2>4
  <2>6. v < Bound(m)
    BY <1>5, <1>8, <2>4 DEF InRange
  <2>7. text.force = 0 \/ m = text.force
    BY <1>3, <1>8, <2>4 DEF Allowed
  <2>8. (m = 1 => v < 256) /\ (m = 2 => v < 65536)
    BY <2>6 DEF Bound
  <2>9. n < m
    <3>1. n = 1 \/ n = 2 \/ n = 3
      OBVIOUS
    <3>2. m = 1 \/ m = 2 \/ m = 3
      OBVIOUS
    <3>3. ~(n = 2 /\ v < 256) /\ ~(n = 3 /\ v < 65536)
      BY <1>4, <2>5, <2>7
    <3> QED
      BY <2>5, <2>8, <3>1, <3>2, <3>3
  <2> QED
    BY <1>3, <2>4, <2>9
<1> QED
  BY <1>6, <1>7, <1>8, ReadAsOne

\* Any other text: no second form looks like it.
LEMMA ReadOther ==
  ASSUME NEW text, NEW addr, NEW widths, NEW f \in Named(text), Size(f.mode) = 0,
         text.shape # "#", text.force = 0, InRange(f, text, addr)
  PROVE  Readings(text, addr, widths) = {f}
<1>1. ASSUME NEW g \in Named(text), g # f
      PROVE  FALSE
  <2>1. /\ f \in Table /\ g \in Table
        /\ f.mnemonic = g.mnemonic /\ Shape(f.mode) = Shape(g.mode) /\ Shape(f.mode) # "#"
    BY <1>1 DEF Named
  <2> QED
    BY <1>1, <2>1, TextsTellFormsApart
<1>2. Named(text) = {f}
  BY <1>1
<1> QED
  BY <1>2, ReadAlone

------------------------------------------------------------------------------
(* What an instruction line says, and what it is read back as *)

\* The values of a form with no operand, one operand, and two of a byte.
LEMMA NoValues ==
  ASSUME NEW f \in Table, Len(f.operands) = 0, NEW c, NEW p
  PROVE  Values(f, c, p) = <<>>
<1>1. DOMAIN f.operands = {}
  BY NoSlot
<1>2. Values(f, c, p) = [s \in {} |-> OperandValue(f.operands[s], c, p + 1 + Offset(f, s))]
  BY <1>1, Zenon DEF Values
<1> QED
  BY <1>2

LEMMA OneValue ==
  ASSUME NEW f \in Table, Len(f.operands) = 1, NEW c, NEW p \in Nat
  PROVE  Values(f, c, p) = <<OperandValue(f.operands[1], c, p + 1)>>
<1>1. DOMAIN f.operands = {1}
  BY OneSlot
<1>2. Offset(f, 1) = 0
  BY DEF Offset
<1>3. p + 1 + Offset(f, 1) = p + 1
  BY <1>2
<1>4. PICK v : v = OperandValue(f.operands[1], c, p + 1)
  OBVIOUS
<1>5. Values(f, c, p) = [s \in {1} |-> v]
  <2>1. Values(f, c, p) = [s \in {1} |-> OperandValue(f.operands[s], c, p + 1 + Offset(f, s))]
    BY <1>1, Zenon DEF Values
  <2>2. \A s \in {1} : OperandValue(f.operands[s], c, p + 1 + Offset(f, s)) = v
    BY <1>3, <1>4
  <2> QED
    BY <2>1, <2>2
<1>6. [s \in {1} |-> v] = <<v>>
  OBVIOUS
<1> QED
  BY <1>4, <1>5, <1>6

LEMMA TwoValues ==
  ASSUME NEW f \in Table, f.mode = "block-move", NEW c \in Seq(Byte), NEW p \in Nat, p + 3 <= Len(c)
  PROVE  Values(f, c, p) = <<c[p + 2], c[p + 3]>> /\ c[p + 2] \in Byte /\ c[p + 3] \in Byte
<1>1. DOMAIN f.operands = {1, 2}
  BY TwoSlots
<1>2. Offset(f, 1) = 0 /\ Offset(f, 2) = 1
  BY TwoSlots DEF Offset
<1>3. /\ OperandValue(f.operands[1], c, p + 1) = c[p + 2]
      /\ OperandValue(f.operands[2], c, p + 2) = c[p + 3]
      /\ c[p + 2] \in Byte /\ c[p + 3] \in Byte
  <2>1. c[p + 2] \in Byte /\ c[p + 3] \in Byte
    <3>1. Len(c) \in Nat /\ \A k \in 1..Len(c) : c[k] \in Byte
      BY LenProperties, ElementOfSeq
    <3>2. p + 2 \in 1..Len(c) /\ p + 3 \in 1..Len(c)
      BY <3>1
    <3> QED
      BY <3>1, <3>2
  <2>2. c[p + 2] \in Int /\ c[p + 3] \in Int
    <3>1. \A b \in Byte : b \in Int
      BY DEF Byte
    <3> QED
      BY <2>1, <3>1
  <2>3. LittleEndian(c, p + 1, 1) = c[p + 2] /\ LittleEndian(c, p + 2, 1) = c[p + 3]
    BY <2>2 DEF LittleEndian
  <2> QED
    BY <2>1, <2>3, TwoSlots DEF OperandValue
<1>4. p + 1 + Offset(f, 1) = p + 1 /\ p + 1 + Offset(f, 2) = p + 2
  BY <1>2
<1>5. Values(f, c, p) = [s \in {1, 2} |-> IF s = 1 THEN c[p + 2] ELSE c[p + 3]]
  <2>1. Values(f, c, p) = [s \in {1, 2} |-> OperandValue(f.operands[s], c, p + 1 + Offset(f, s))]
    BY <1>1, Zenon DEF Values
  <2>2. \A s \in {1, 2} : OperandValue(f.operands[s], c, p + 1 + Offset(f, s))
                            = IF s = 1 THEN c[p + 2] ELSE c[p + 3]
    BY <1>3, <1>4
  <2> QED
    BY <2>1, <2>2
<1>6. [s \in {1, 2} |-> IF s = 1 THEN c[p + 2] ELSE c[p + 3]] = <<c[p + 2], c[p + 3]>>
  <2>1. \A x, y : [s \in {1, 2} |-> IF s = 1 THEN x ELSE y] = <<x, y>>
    OBVIOUS
  <2> QED
    BY <2>1
<1> QED
  BY <1>3, <1>5, <1>6

\* What the line of an instruction says.
LEMMA TextFields ==
  ASSUME NEW f, NEW values, NEW addr, NEW text, text = Instruction(f, values, addr)
  PROVE  /\ text.kind = "instruction" /\ text.mnemonic = f.mnemonic
         /\ text.shape = Shape(f.mode)
         /\ text.force = IF values = <<>> THEN 0 ELSE SizePrefix(f.mode, values[1])
         /\ text.shown = Shown(f, values, addr)
BY DEF Instruction

\* The opcode and what follows it make up the bytes of the form.
LEMMA OpcodeFirst ==
  ASSUME NEW c \in Seq(Byte), NEW p \in Nat, NEW n \in Nat, p + 1 + n <= Len(c),
         NEW opcode, opcode = <<c[p + 1]>>
  PROVE  opcode \o SubSeq(c, p + 1 + 1, p + 1 + n) = SubSeq(c, p + 1, p + 1 + n)
<1>1. Len(c) \in Nat /\ \A k \in 1..Len(c) : c[k] \in Byte
  BY LenProperties, ElementOfSeq
<1>2. PICK x : x = SubSeq(c, p + 1 + 1, p + 1 + n)
  OBVIOUS
<1>3. PICK y : y = SubSeq(c, p + 1, p + 1 + n)
  OBVIOUS
<1>4. x \in Seq(Byte) /\ Len(x) = n /\ \A k \in 1..n : x[k] = c[p + 1 + k]
  <2>1. /\ x \in Seq(Byte)
        /\ Len(x) = IF p + 1 + 1 <= p + 1 + n THEN (p + 1 + n) - (p + 1 + 1) + 1 ELSE 0
        /\ \A k \in 1..((p + 1 + n) - (p + 1 + 1) + 1) : x[k] = c[p + 1 + 1 + k - 1]
    BY <1>1, <1>2, SubSeqProperties, SMTT(30)
  <2> QED
    BY <2>1
<1>5. y \in Seq(Byte) /\ Len(y) = n + 1 /\ \A k \in 1..(n + 1) : y[k] = c[p + k]
  <2>1. /\ y \in Seq(Byte)
        /\ Len(y) = IF p + 1 <= p + 1 + n THEN (p + 1 + n) - (p + 1) + 1 ELSE 0
        /\ \A k \in 1..((p + 1 + n) - (p + 1) + 1) : y[k] = c[p + 1 + k - 1]
    BY <1>1, <1>3, SubSeqProperties, SMTT(30)
  <2> QED
    BY <2>1
<1>6. PICK z : z = opcode \o x
  OBVIOUS
<1>7. opcode \in Seq(Byte) /\ Len(opcode) = 1 /\ opcode[1] = c[p + 1]
  <2>1. c[p + 1] \in Byte
    BY <1>1
  <2> QED
    BY <2>1
<1>8. /\ z \in Seq(Byte) /\ Len(z) = n + 1
      /\ \A k \in 1..(n + 1) : z[k] = IF k <= 1 THEN opcode[k] ELSE x[k - 1]
  <2>1. /\ z \in Seq(Byte) /\ Len(z) = Len(opcode) + Len(x)
        /\ \A k \in 1..(Len(opcode) + Len(x)) :
             z[k] = IF k <= Len(opcode) THEN opcode[k] ELSE x[k - Len(opcode)]
    BY <1>4, <1>6, <1>7, ConcatProperties, SMTT(30)
  <2> QED
    BY <1>4, <1>7, <2>1
<1>9. \A k \in 1..(n + 1) : z[k] = y[k]
  <2>1. ASSUME NEW k \in 1..(n + 1) PROVE z[k] = c[p + k]
    <3>1. CASE k = 1
      BY <1>7, <1>8, <3>1
    <3>2. CASE k # 1
      <4>1. k - 1 \in 1..n /\ ~(k <= 1) /\ p + 1 + (k - 1) = p + k
        BY <3>2
      <4> QED
        BY <1>4, <1>8, <4>1
    <3> QED
      BY <3>1, <3>2
  <2> QED
    BY <1>5, <2>1
<1>10. z = y
  BY <1>5, <1>8, <1>9, SeqEqual
<1> QED
  BY <1>2, <1>3, <1>6, <1>10

\* A form of the table stands in the buffer at p.
Stands(f, c, p) ==
  /\ f \in Table /\ c \in Seq(Byte) /\ p \in Nat
  /\ p + FormLen(f) <= Len(c)
  /\ f.opcode[1] = c[p + 1]

\* The text is read as f alone, and f lays down what stands at p.
ReadsBack(f, c, p, text, addr, widths) ==
  /\ Readings(text, addr, widths) = {f}
  /\ Laid816(f, text, addr) = SubSeq(c, p + 1, p + FormLen(f))

\* What is laid down is right once the operand bytes are.
LEMMA LaidWhole ==
  ASSUME NEW f, NEW c, NEW p, Stands(f, c, p), NEW operand,
         operand = SubSeq(c, p + 1 + 1, p + 1 + OperandLen(f))
  PROVE  f.opcode \o operand = SubSeq(c, p + 1, p + FormLen(f))
<1>1. f \in Table /\ c \in Seq(Byte) /\ p \in Nat
  BY DEF Stands
<1>2. f.opcode = <<c[p + 1]>>
  BY <1>1, FormShape DEF Stands
<1>3. PICK n \in Nat : n = OperandLen(f) /\ FormLen(f) = 1 + n
  BY <1>1, SlotsOfForm
<1>4. p + 1 + n <= Len(c) /\ p + FormLen(f) = p + 1 + n
  BY <1>1, <1>3, LenProperties DEF Stands
<1>5. f.opcode \o SubSeq(c, p + 1 + 1, p + 1 + n) = SubSeq(c, p + 1, p + 1 + n)
  BY <1>1, <1>2, <1>4, OpcodeFirst
<1> QED
  BY <1>3, <1>4, <1>5

\* A form without operands.
LEMMA BareReadsBack ==
  ASSUME NEW f, NEW c, NEW p, Stands(f, c, p), Len(f.operands) = 0,
         NEW addr, NEW widths, NEW text, text = Instruction(f, Values(f, c, p), addr)
  PROVE  ReadsBack(f, c, p, text, addr, widths)
<1>1. f \in Table /\ c \in Seq(Byte) /\ p \in Nat
  BY DEF Stands
<1>2. Values(f, c, p) = <<>>
  BY <1>1, NoValues
<1>3. f.operands = <<>> /\ OperandLen(f) = 0
  BY <1>1, NoSlot
<1>4. ~IsBranch(f) /\ f.mode # "block-move"
  BY <1>1, SlotsFitModes
<1>5. Shape(f.mode) # "#"
  <2>1. OperandLen(f) # 0 \/ Shape(f.mode) # "#"
    BY <1>1, ImmediatesArePaired
  <2> QED
    BY <1>3, <2>1
<1>6. Size(f.mode) = 0
  <2>1. Size(f.mode) # 0 => Len(f.operands) = 1
    BY <1>1, SizedSlot
  <2> QED
    BY <2>1
<1>7. /\ text.mnemonic = f.mnemonic /\ text.shape = Shape(f.mode)
      /\ text.force = 0 /\ text.shown = <<>>
  <2>1. Shown(f, <<>>, addr) = <<>>
    BY <1>4 DEF Shown
  <2> QED
    BY <1>2, <2>1, TextFields
<1>8. InRange(f, text, addr)
  <2>1. DOMAIN text.shown = {}
    BY <1>7
  <2> QED
    BY <1>4, <2>1 DEF InRange
<1>9. f \in Named(text)
  BY <1>1, <1>7 DEF Named
<1>10. Readings(text, addr, widths) = {f}
  BY <1>5, <1>6, <1>7, <1>8, <1>9, ReadOther
<1>11. Laid816(f, text, addr) = f.opcode \o <<>>
  BY <1>3, <1>4 DEF Laid816
<1>12. <<>> = SubSeq(c, p + 1 + 1, p + 1 + OperandLen(f))
  <2>1. PICK x : x = SubSeq(c, p + 1 + 1, p + 1)
    OBVIOUS
  <2>2. \A k \in (p + 1 + 1)..(p + 1) : c[k] \in Byte
    BY <1>1
  <2>3. x \in Seq(Byte) /\ Len(x) = IF p + 1 + 1 <= p + 1 THEN (p + 1) - (p + 1 + 1) + 1 ELSE 0
    BY <1>1, <2>1, <2>2, SubSeqProperties, SMTT(30)
  <2>4. Len(x) = 0
    BY <1>1, <2>3
  <2>5. x = <<>>
    BY <2>3, <2>4, EmptySeq
  <2>6. p + 1 + OperandLen(f) = p + 1
    BY <1>1, <1>3
  <2> QED
    BY <2>1, <2>5, <2>6
<1> QED
  BY <1>10, <1>11, <1>12, LaidWhole DEF ReadsBack

\* A branch.
LEMMA BranchReadsBack ==
  ASSUME NEW f, NEW c, NEW p, Stands(f, c, p), IsBranch(f),
         NEW addr \in Word16, NEW widths, NEW text, text = Instruction(f, Values(f, c, p), addr)
  PROVE  /\ ReadsBack(f, c, p, text, addr, widths)
         /\ text.force = 0 /\ text.shown \in Seq(Nat)
<1>1. f \in Table /\ c \in Seq(Byte) /\ p \in Nat
  BY DEF Stands
<1>2. Len(f.operands) = 1 /\ f.operands[1].bytes \in {1, 2} /\ f.operands[1].kind = "RelativePc"
  <2>1. Len(f.operands) = 1 /\ f.operands[1].bytes \in {1, 2}
    BY <1>1, SlotsFitModes
  <2>2. \E s \in {1} : f.operands[s].kind = "RelativePc"
    BY <1>1, <2>1, SlotsFitModes, OneSlot
  <2> QED
    BY <2>1, <2>2
<1>3. PICK n \in 1..2 : n = f.operands[1].bytes
  BY <1>2
<1>4. OperandLen(f) = n /\ Width(f, 1) = n /\ FormLen(f) = 1 + n /\ f.operands # <<>>
  BY <1>1, <1>2, <1>3, OneSlot
<1>5. PICK v : v = IF n = 1 THEN AsI8(LittleEndian(c, p + 1, n)) ELSE AsI16(LittleEndian(c, p + 1, n))
  OBVIOUS
<1>6. Values(f, c, p) = <<v>>
  <2>1. OperandValue(f.operands[1], c, p + 1) = v
    BY <1>2, <1>3, <1>5 DEF OperandValue
  <2> QED
    BY <1>1, <1>2, <2>1, OneValue
<1>7. p + 1 \in Nat /\ p + 1 + n <= Len(c)
  BY <1>1, <1>4, LenProperties DEF Stands
<1>8. BranchGoesBack(c, p + 1, n, addr, FormLen(f), v)
  <2>1. FormLen(f) \in Nat
    BY <1>4
  <2> QED
    BY <1>1, <1>5, <1>7, <2>1, BranchValueRoundTrip
<1>9. PICK target \in Word16 :
        /\ target = Target(addr, FormLen(f), v)
        /\ AsI16(Wrap16(target - (addr + FormLen(f)))) = v /\ v \in Int
        /\ n = 1 => -128 <= v /\ v <= 127
        /\ SmallEndBytes(Wrap16(v), n) = SubSeq(c, p + 1 + 1, p + 1 + n)
  BY <1>8, Zenon DEF BranchGoesBack
<1>10. /\ f.mode # "block-move"
       /\ f.mode \notin AbsoluteModes /\ f.mode \notin LongModes
       /\ Shape(f.mode) = "addr" /\ Size(f.mode) = 0
  <2>1. f.mode \notin AbsoluteModes /\ f.mode \notin LongModes
    BY Zenon DEF IsBranch, AbsoluteModes, LongModes
  <2>2. Shape(f.mode) = "addr"
    BY DEF IsBranch, Shape
  <2>3. Size(f.mode) = 0
    BY <1>1, SizedSlot
  <2>4. f.mode # "block-move"
    BY Zenon DEF IsBranch
  <2> QED
    BY <2>1, <2>2, <2>3, <2>4
<1>11. /\ text.mnemonic = f.mnemonic /\ text.shape = Shape(f.mode)
       /\ text.force = 0 /\ text.shown = <<target>>
  <2>1. <<v>>[1] = v /\ <<v>> # <<>>
    OBVIOUS
  <2>2. Shown(f, <<v>>, addr) = <<target>>
    BY <1>9, <1>10, <2>1 DEF Shown
  <2>3. SizePrefix(f.mode, v) = 0
    BY <1>9, <1>10, PrefixOfMode
  <2> QED
    BY <1>6, <2>1, <2>2, <2>3, TextFields
<1>12. Reach(f, text, addr) = v
  <2>1. text.shown[1] = target
    BY <1>11
  <2> QED
    BY <1>9, <2>1 DEF Reach
<1>13. InRange(f, text, addr)
  BY <1>3, <1>4, <1>9, <1>12 DEF InRange
<1>14. f \in Named(text)
  BY <1>1, <1>11 DEF Named
<1>15. Readings(text, addr, widths) = {f}
  BY <1>10, <1>11, <1>13, <1>14, ReadOther
<1>16. Laid816(f, text, addr) = f.opcode \o SmallEndBytes(Wrap16(v), n)
  BY <1>4, <1>10, <1>12 DEF Laid816
<1>17. Laid816(f, text, addr) = SubSeq(c, p + 1, p + FormLen(f))
  BY <1>4, <1>9, <1>16, LaidWhole, ZenonT(30)
<1>18. text.shown \in Seq(Nat)
  <2>1. target \in Nat
    BY WordIsInt
  <2> QED
    BY <1>11, <2>1
<1> QED
  BY <1>11, <1>15, <1>17, <1>18 DEF ReadsBack

\* The line shows v, the value of the one operand of f.
Shows(f, c, p, text, v) ==
  /\ v < Bound(OperandLen(f))
  /\ SmallEndBytes(v, OperandLen(f)) = SubSeq(c, p + 1 + 1, p + 1 + OperandLen(f))
  /\ Values(f, c, p) = <<v>>
  /\ text.shown = <<v>>
  /\ text.force = SizePrefix(f.mode, v)

\* The line of a form with one unsigned operand shows its value.
LEMMA OperandShown ==
  ASSUME NEW f, NEW c, NEW p, Stands(f, c, p), Len(f.operands) = 1, ~IsBranch(f),
         NEW addr, NEW text, text = Instruction(f, Values(f, c, p), addr)
  PROVE  \E v \in Nat : Shows(f, c, p, text, v)
<1>1. f \in Table /\ c \in Seq(Byte) /\ p \in Nat
  BY DEF Stands
<1>2. f.operands[1].kind # "RelativePc" /\ f.mode # "block-move"
  BY <1>1, SlotsFitModes, OneSlot
<1>3. PICK n \in 1..3 : n = f.operands[1].bytes
  BY <1>1, OneSlot
<1>4. OperandLen(f) = n /\ Width(f, 1) = n /\ FormLen(f) = 1 + n
  BY <1>1, <1>3, OneSlot
<1>5. PICK v : v = LittleEndian(c, p + 1, n)
  OBVIOUS
<1>6. Values(f, c, p) = <<v>>
  <2>1. OperandValue(f.operands[1], c, p + 1) = v
    BY <1>2, <1>3, <1>5 DEF OperandValue
  <2> QED
    BY <1>1, <2>1, OneValue
<1>7. p + 1 \in Nat /\ p + 1 + n <= Len(c)
  BY <1>1, <1>4, LenProperties DEF Stands
<1>8. ValueGoesBack(c, p + 1, n, v)
  BY <1>1, <1>5, <1>7, ValueRoundTrip
<1>9. /\ v \in Nat /\ v < Bound(n)
      /\ SmallEndBytes(v, n) = SubSeq(c, p + 1 + 1, p + 1 + n)
  BY <1>8, Zenon DEF ValueGoesBack
<1>10. text.shown = <<v>> /\ text.force = SizePrefix(f.mode, v)
  <2>1. <<v>>[1] = v /\ <<v>> # <<>>
    OBVIOUS
  <2>2. Shown(f, <<v>>, addr) = <<v>>
    BY <1>2, <2>1 DEF Shown
  <2> QED
    BY <1>6, <2>1, <2>2, TextFields
<1> QED
  BY <1>4, <1>6, <1>9, <1>10 DEF Shows

\* A form with one unsigned operand.
LEMMA OperandReadsBack ==
  ASSUME NEW f, NEW c, NEW p, Stands(f, c, p), Len(f.operands) = 1, ~IsBranch(f),
         NEW addr, NEW widths, NEW text, text = Instruction(f, Values(f, c, p), addr),
         Shape(f.mode) = "#" /\ (\E g \in Named(text) : g # f)
           => OperandLen(f) = InForce(text, widths)
  PROVE  ReadsBack(f, c, p, text, addr, widths)
<1>1. f \in Table /\ c \in Seq(Byte) /\ p \in Nat
  BY DEF Stands
<1>2. PICK v \in Nat : Shows(f, c, p, text, v)
  BY OperandShown
<1>3. /\ v < Bound(OperandLen(f))
      /\ SmallEndBytes(v, OperandLen(f)) = SubSeq(c, p + 1 + 1, p + 1 + OperandLen(f))
      /\ text.shown = <<v>>
      /\ text.force = SizePrefix(f.mode, v)
  BY <1>2, Zenon DEF Shows
<1>4. Width(f, 1) = OperandLen(f) /\ f.operands # <<>> /\ f.mode # "block-move"
  BY <1>1, OneSlot, SlotsFitModes
<1>5. DOMAIN text.shown = {1} /\ text.shown[1] = v
  BY <1>3
<1>6. InRange(f, text, addr)
  <2>1. \A s \in DOMAIN text.shown : text.shown[s] < Bound(Width(f, s))
    BY <1>3, <1>4, <1>5
  <2> QED
    BY <2>1 DEF InRange
<1>7. text.mnemonic = f.mnemonic /\ text.shape = Shape(f.mode)
  BY TextFields
<1>8. f \in Named(text)
  BY <1>1, <1>7 DEF Named
<1>9. Readings(text, addr, widths) = {f}
  <2>1. CASE Shape(f.mode) = "#"
    BY <1>6, <1>7, <1>8, <2>1, ReadImmediate
  <2>2. CASE Size(f.mode) # 0
    BY <1>3, <1>8, <2>2, ReadAddress
  <2>3. CASE Shape(f.mode) # "#" /\ Size(f.mode) = 0
    <3>1. text.force = 0
      BY <1>3, <2>3, ModesOfSize, PrefixOfMode
    <3> QED
      BY <1>6, <1>7, <1>8, <2>3, <3>1, ReadOther
  <2> QED
    BY <2>1, <2>2, <2>3
<1>10. Laid816(f, text, addr) = f.opcode \o SmallEndBytes(v, OperandLen(f))
  BY <1>4, <1>5 DEF Laid816
<1>11. Laid816(f, text, addr) = SubSeq(c, p + 1, p + FormLen(f))
  BY <1>3, <1>10, LaidWhole
<1> QED
  BY <1>9, <1>11 DEF ReadsBack

\* A block move names its banks in the other order.
LEMMA MoveReadsBack ==
  ASSUME NEW f, NEW c, NEW p, Stands(f, c, p), f.mode = "block-move",
         NEW addr, NEW widths, NEW text, text = Instruction(f, Values(f, c, p), addr)
  PROVE  /\ ReadsBack(f, c, p, text, addr, widths)
         /\ text.force = 0 /\ text.shown \in Seq(Nat)
<1>1. f \in Table /\ c \in Seq(Byte) /\ p \in Nat
  BY DEF Stands
<1>2. /\ Width(f, 1) = 1 /\ Width(f, 2) = 1 /\ OperandLen(f) = 2 /\ FormLen(f) = 3
      /\ f.operands # <<>>
  BY <1>1, TwoSlots
<1>3. p + 3 <= Len(c)
  BY <1>2 DEF Stands
<1>4. PICK x \in Byte, y \in Byte : x = c[p + 2] /\ y = c[p + 3] /\ Values(f, c, p) = <<x, y>>
  BY <1>1, <1>3, TwoValues
<1>5. ~IsBranch(f) /\ Shape(f.mode) # "#" /\ Size(f.mode) = 0
  <2>1. ~IsBranch(f)
    BY Zenon DEF IsBranch
  <2>2. Shape(f.mode) # "#"
    BY DEF Shape
  <2>3. f.mode \notin ZeroPageModes /\ f.mode \notin AbsoluteModes /\ f.mode \notin LongModes
    BY Zenon DEF ZeroPageModes, AbsoluteModes, LongModes
  <2> QED
    BY <2>1, <2>2, <2>3, ModesOfSize
<1>6. x \in Nat /\ y \in Nat /\ x < Bound(1) /\ y < Bound(1)
  BY DEF Byte, Bound
<1>7. /\ text.mnemonic = f.mnemonic /\ text.shape = Shape(f.mode)
      /\ text.force = 0 /\ text.shown = <<y, x>>
  <2>1. <<x, y>>[1] = x /\ <<x, y>>[2] = y /\ <<x, y>> # <<>>
    OBVIOUS
  <2>2. Shown(f, <<x, y>>, addr) = <<y, x>>
    BY <1>5, <2>1 DEF Shown
  <2>3. SizePrefix(f.mode, x) = 0
    BY <1>5, <1>6, ModesOfSize, PrefixOfMode
  <2> QED
    BY <1>4, <2>1, <2>2, <2>3, TextFields
<1>8. InRange(f, text, addr)
  <2>1. DOMAIN text.shown = {1, 2} /\ text.shown[1] = y /\ text.shown[2] = x
    BY <1>7
  <2>2. \A s \in DOMAIN text.shown : text.shown[s] < Bound(Width(f, s))
    BY <1>2, <1>6, <2>1
  <2> QED
    BY <1>5, <2>2 DEF InRange
<1>9. f \in Named(text)
  BY <1>1, <1>7 DEF Named
<1>10. Readings(text, addr, widths) = {f}
  BY <1>5, <1>7, <1>8, <1>9, ReadOther
<1>11. Laid816(f, text, addr) = f.opcode \o <<x, y>>
  <2>1. text.shown[2] = x /\ text.shown[1] = y
    BY <1>7
  <2> QED
    BY <1>2, <1>5, <2>1 DEF Laid816
<1>12. <<x, y>> = SubSeq(c, p + 1 + 1, p + 1 + OperandLen(f))
  <2>1. PICK q \in Nat : q = p + 1
    BY <1>1
  <2>2. q + 2 <= Len(c) /\ x = c[q + 1] /\ y = c[q + 2]
    BY <1>1, <1>3, <1>4, <2>1
  <2>3. SubSeq(<<x, y, y>>, 1, 2) = SubSeq(c, q + 1, q + 2)
    BY <1>1, <2>2, PrefixOfThree
  <2>4. SubSeq(<<x, y, y>>, 1, 2) = <<x, y>>
    <3>1. PICK t : t = <<x, y, y>>
      OBVIOUS
    <3>2. PICK u : u = SubSeq(t, 1, 2)
      OBVIOUS
    <3>3. t \in Seq(Byte) /\ Len(t) = 3 /\ t[1] = x /\ t[2] = y
      BY <3>1
    <3>4. \A k \in 1..2 : t[k] \in Byte
      BY <3>3
    <3>5. /\ u \in Seq(Byte) /\ Len(u) = (IF 1 <= 2 THEN 2 - 1 + 1 ELSE 0)
          /\ \A k \in 1..(2 - 1 + 1) : u[k] = t[1 + k - 1]
      BY <3>2, <3>4, SubSeqProperties, SMTT(30)
    <3>6. PICK w : w = <<x, y>>
      OBVIOUS
    <3>7. w \in Seq(Byte) /\ Len(w) = 2 /\ w[1] = x /\ w[2] = y
      BY <3>6
    <3>8. Len(u) = 2 /\ u[1] = x /\ u[2] = y
      BY <3>3, <3>5
    <3>9. u = w
      BY <3>5, <3>7, <3>8, SeqEqual
    <3> QED
      BY <3>1, <3>2, <3>6, <3>9
  <2> QED
    BY <1>2, <2>1, <2>3, <2>4
<1>13. Laid816(f, text, addr) = SubSeq(c, p + 1, p + FormLen(f))
  BY <1>11, <1>12, LaidWhole
<1>14. text.shown \in Seq(Nat)
  BY <1>6, <1>7
<1> QED
  BY <1>7, <1>10, <1>13, <1>14 DEF ReadsBack

LEMMA PrefixValues ==
  ASSUME NEW mode, NEW v \in Int
  PROVE  SizePrefix(mode, v) \in {0, 2, 3}
BY PrefixOfMode

\* The line of a decoded form can be read in one way only, and stands for the
\* bytes it was decoded from.
LEMMA DecodedReadsBack ==
  ASSUME NEW c \in Seq(Byte), NEW p \in Nat, p < Len(c), NEW addr \in Word16,
         NEW aw \in {1, 2}, NEW iw \in {1, 2}, NEW f \in Decoded(c, p, aw, iw),
         NEW widths, widths.a = aw, widths.i = iw,
         NEW text, text = Instruction(f, Values(f, c, p), addr)
  PROVE  ReadsBack(f, c, p, text, addr, widths) /\ text \in Text
<1>1. /\ f \in Table
      /\ c[p + 1] \in Byte /\ f.opcode[1] = c[p + 1]
      /\ f \in Selected(c[p + 1], aw, iw)
      /\ p + FormLen(f) <= Len(c)
  BY DecodedForm
<1>2. Stands(f, c, p)
  BY <1>1 DEF Stands
<1>3. text.mnemonic = f.mnemonic /\ text.shape = Shape(f.mode)
  BY TextFields
<1>4. text.force \in {0, 2, 3} /\ text.shown \in Seq(Nat) => text \in Text
  <2>1. PICK force : force = IF Values(f, c, p) = <<>> THEN 0 ELSE SizePrefix(f.mode, Values(f, c, p)[1])
    OBVIOUS
  <2>2. PICK shown : shown = Shown(f, Values(f, c, p), addr)
    OBVIOUS
  <2>3. text = [kind |-> "instruction", mnemonic |-> f.mnemonic, shape |-> Shape(f.mode),
                force |-> force, shown |-> shown]
    BY <2>1, <2>2 DEF Instruction
  <2>4. f.mnemonic \in Mnemonics /\ Shape(f.mode) \in Shapes
    BY <1>1 DEF Mnemonics, Shapes
  <2> QED
    BY <2>3, <2>4 DEF Text
<1>5. CASE Len(f.operands) = 0
  <2>1. text.force = 0 /\ text.shown = <<>>
    <3>1. Values(f, c, p) = <<>>
      BY <1>1, <1>5, NoValues
    <3>2. ~IsBranch(f) /\ f.mode # "block-move"
      BY <1>1, <1>5, SlotsFitModes
    <3>3. Shown(f, <<>>, addr) = <<>>
      BY <3>2 DEF Shown
    <3> QED
      BY <3>1, <3>3, TextFields
  <2>2. text.shown \in Seq(Nat)
    BY <2>1
  <2> QED
    BY <1>2, <1>4, <1>5, <2>1, <2>2, BareReadsBack
<1>6. CASE IsBranch(f)
  BY <1>2, <1>4, <1>6, BranchReadsBack
<1>7. CASE Len(f.operands) = 1 /\ ~IsBranch(f)
  <2>1. ASSUME Shape(f.mode) = "#", NEW g \in Named(text), g # f
        PROVE  OperandLen(f) = InForce(text, widths)
    <3>1. g \in Table /\ g.mnemonic = f.mnemonic /\ Shape(g.mode) = "#"
      BY <1>3, <2>1 DEF Named
    <3>2. OperandLen(f) = IF f.mnemonic \in IndexMnemonics THEN iw ELSE aw
      BY <1>1, <2>1, <3>1, WidthOfImmediate
    <3> QED
      BY <1>3, <3>2 DEF InForce
  <2>2. ReadsBack(f, c, p, text, addr, widths)
    BY <1>2, <1>7, <2>1, OperandReadsBack
  <2>3. PICK v \in Nat : Shows(f, c, p, text, v)
    BY <1>2, <1>7, OperandShown
  <2>4. text.shown = <<v>> /\ text.force = SizePrefix(f.mode, v)
    BY <2>3, Zenon DEF Shows
  <2>5. text.shown \in Seq(Nat) /\ text.force \in {0, 2, 3}
    BY <2>4, PrefixValues
  <2> QED
    BY <1>4, <2>2, <2>5
<1>8. CASE f.mode = "block-move"
  BY <1>2, <1>4, <1>8, MoveReadsBack
<1> QED
  BY <1>1, <1>5, <1>6, <1>7, <1>8, SlotsOfForm

------------------------------------------------------------------------------
(* The lines a step adds *)

\* Announcing a width that changes.
Put(lines, register, old, new) ==
  IF new = old THEN lines ELSE Append(lines, Line(<<>>, Directive(register, new)))

LEMMA PutIs ==
  ASSUME NEW S, NEW lines \in Seq(S), NEW register, NEW old, NEW new,
         Line(<<>>, Directive(register, new)) \in S
  PROVE  /\ lines \o Changed(register, old, new) = Put(lines, register, old, new)
         /\ Put(lines, register, old, new) \in Seq(S)
<1>1. PICK x \in S : x = Line(<<>>, Directive(register, new))
  OBVIOUS
<1>2. CASE new = old
  <2>1. lines \o <<>> = lines
    BY ConcatEmptySeq
  <2> QED
    BY <1>2, <2>1 DEF Put, Changed
<1>3. CASE new # old
  <2>1. lines \o <<x>> = Append(lines, x) /\ Append(lines, x) \in Seq(S)
    BY AppendIsConcat, AppendProperties, SMTT(30)
  <2> QED
    BY <1>1, <1>3, <2>1 DEF Put, Changed
<1> QED
  BY <1>2, <1>3

\* The line at the cursor.
LEMMA LineListed ==
  ASSUME origin \in Word16, pos \in Nat, NEW bytes \in Seq(Byte), NEW text \in Text
  PROVE  /\ Line(bytes, text) \in {line \in Listed : line.at <= pos}
         /\ Line(bytes, text).at = pos /\ Line(bytes, text).addr = Wrap16(origin + pos)
         /\ Line(bytes, text).bytes = bytes /\ Line(bytes, text).text = text
         /\ Wrap16(origin + pos) \in Word16
<1>1. origin + pos \in Int
  BY WordIsInt
<1>2. PICK addr \in Word16 : addr = Wrap16(origin + pos)
  BY <1>1, WrapIsWord, SMTT(30)
<1>3. PICK line : line = [at |-> pos, addr |-> addr, bytes |-> bytes, text |-> text]
  OBVIOUS
<1>4. line = Line(bytes, text)
  BY <1>2, <1>3 DEF Line
<1>5. line \in Listed /\ line.at = pos /\ line.addr = addr /\ line.bytes = bytes /\ line.text = text
  BY <1>3 DEF Listed
<1> QED
  BY <1>2, <1>4, <1>5, SMTT(30)

LEMMA DirectiveIsText ==
  ASSUME NEW register \in {"a", "i"}, NEW width \in {1, 2}
  PROVE  /\ Directive(register, width) \in Text
         /\ Directive(register, width).kind = "directive"
         /\ Directive(register, width).register = register
         /\ Directive(register, width).width = width
BY DEF Directive, Text

LEMMA DatumIsText ==
  ASSUME NEW b \in Byte
  PROVE  Datum(b) \in Text /\ Datum(b).kind = "data" /\ Datum(b).shown = <<b>>
BY DEF Datum, Text

\* The line of an instruction.
InstructionLine(f) ==
  Line(SubSeq(code, pos + 1, pos + FormLen(f)),
       Instruction(f, Values(f, code, pos), Wrap16(origin + pos)))

\* The step that lists f.
Emits(f) ==
  /\ pos < Len(code)
  /\ f \in Decoded(code, pos, a, i)
  /\ a' = WidthAfter(f, Values(f, code, pos), \h20, a)
  /\ i' = WidthAfter(f, Values(f, code, pos), \h10, i)
  /\ out' = Append(out, InstructionLine(f)) \o Changed("a", a, a') \o Changed("i", i, i')
  /\ pos' = pos + FormLen(f)
  /\ UNCHANGED <<code, origin>>

LEMMA InstructionEmits ==
  ASSUME EmitInstruction
  PROVE  \E f : Emits(f)
BY DEF EmitInstruction, Emits, InstructionLine

\* What a step that lists f does to the cursor and the widths.
LEMMA EmitsMoves ==
  ASSUME TypeOK, NEW f, Emits(f)
  PROVE  /\ code \in Seq(Byte) /\ pos \in Nat /\ pos' \in Nat /\ FormLen(f) \in Nat
         /\ f \in Table /\ FormLen(f) >= 1
         /\ pos' = pos + FormLen(f) /\ pos' <= Len(code) /\ pos < pos'
         /\ a' \in {1, 2} /\ i' \in {1, 2}
<1>1. code \in Seq(Byte) /\ pos \in Nat /\ pos <= Len(code) /\ Len(code) \in Nat
  BY LenProperties DEF TypeOK
<1>2. f \in Table /\ pos + FormLen(f) <= Len(code)
  BY <1>1, DecodedForm DEF Emits
<1>3. FormLen(f) \in Nat /\ FormLen(f) >= 1
  BY <1>2, SlotsOfForm
<1>4. a' \in {1, 2} /\ i' \in {1, 2}
  BY DEF TypeOK, Emits, WidthAfter
<1> QED
  BY <1>1, <1>2, <1>3, <1>4 DEF Emits

\* The lines a step that lists f adds: the instruction, then the directives.
LEMMA EmitsLines ==
  ASSUME TypeOK, NEW f, Emits(f)
  PROVE  \E lines1, lines2 \in Seq({line \in Listed : line.at <= pos}) :
           /\ lines1 = Append(out, InstructionLine(f))
           /\ lines2 = Put(lines1, "a", a, a')
           /\ out' = Put(lines2, "i", i, i')
           /\ out' \in Seq({line \in Listed : line.at <= pos})
           /\ InstructionLine(f) \in {line \in Listed : line.at <= pos}
<1> DEFINE S == {line \in Listed : line.at <= pos}
<1>1. /\ code \in Seq(Byte) /\ pos \in Nat /\ origin \in Word16 /\ pos < Len(code)
      /\ a \in {1, 2} /\ i \in {1, 2} /\ out \in Seq(S)
  BY EmitsMoves DEF TypeOK, Emits
<1>2. a' \in {1, 2} /\ i' \in {1, 2} /\ pos + FormLen(f) <= Len(code) /\ FormLen(f) \in Nat
  BY EmitsMoves, SMTT(30) DEF Emits
<1>3. PICK addr \in Word16 : addr = Wrap16(origin + pos)
  <2>1. origin + pos \in Int
    BY <1>1, WordIsInt
  <2> QED
    BY <2>1, WrapIsWord, SMTT(30)
<1>4. PICK text \in Text : text = Instruction(f, Values(f, code, pos), addr)
  <2>1. f \in Decoded(code, pos, a, i)
    BY DEF Emits
  <2>2. PICK widths : widths = [a |-> a, i |-> i]
    OBVIOUS
  <2>3. widths.a = a /\ widths.i = i
    BY <2>2
  <2>4. PICK text : text = Instruction(f, Values(f, code, pos), addr)
    OBVIOUS
  <2>5. text \in Text
    BY <1>1, <2>1, <2>3, <2>4, DecodedReadsBack
  <2> QED
    BY <2>4, <2>5
<1>5. PICK bytes \in Seq(Byte) : bytes = SubSeq(code, pos + 1, pos + FormLen(f))
  <2>1. \A k \in (pos + 1)..(pos + FormLen(f)) : code[k] \in Byte
    BY <1>1, <1>2, LenProperties, ElementOfSeq
  <2>2. SubSeq(code, pos + 1, pos + FormLen(f)) \in Seq(Byte)
    BY <1>1, <1>2, <2>1, SubSeqProperties, SMTT(30)
  <2> QED
    BY <2>2
<1>6. InstructionLine(f) \in S
  <2>1. Line(bytes, text) \in S
    BY <1>1, LineListed
  <2> QED
    BY <1>3, <1>4, <1>5, <2>1, Zenon DEF InstructionLine
<1>7. /\ Line(<<>>, Directive("a", a')) \in S
      /\ Line(<<>>, Directive("i", i')) \in S
  <2>1. Directive("a", a') \in Text /\ Directive("i", i') \in Text
    BY <1>2, DirectiveIsText
  <2>2. <<>> \in Seq(Byte)
    BY EmptySeq
  <2> QED
    BY <1>1, <2>1, <2>2, LineListed
<1> HIDE DEF S
<1>8. PICK lines1 \in Seq(S) : lines1 = Append(out, InstructionLine(f))
  BY <1>1, <1>6, AppendProperties, ZenonT(30)
<1>9. PICK lines2 \in Seq(S) : lines2 = Put(lines1, "a", a, a') /\ lines2 = lines1 \o Changed("a", a, a')
  BY <1>7, PutIs
<1>10. out' = Put(lines2, "i", i, i') /\ out' \in Seq(S)
  <2>1. out' = lines2 \o Changed("i", i, i')
    BY <1>8, <1>9 DEF Emits
  <2>2. /\ lines2 \o Changed("i", i, i') = Put(lines2, "i", i, i')
        /\ Put(lines2, "i", i, i') \in Seq(S)
    BY <1>7, PutIs
  <2> QED
    BY <2>1, <2>2
<1> QED
  BY <1>6, <1>8, <1>9, <1>10 DEF S

LEMMA EmitDataIs ==
  ASSUME TypeOK, EmitData
  PROVE  LET line == Line(<<code[pos + 1]>>, Datum(code[pos + 1]))
         IN  /\ out' = Append(out, line)
             /\ line \in {l \in Listed : l.at <= pos}
             /\ line.text = Datum(code[pos + 1]) /\ line.at = pos
             /\ line.bytes = <<code[pos + 1]>> /\ line.addr = Wrap16(origin + pos)
             /\ code[pos + 1] \in Byte /\ code[pos + 1] = code[pos + 1]
             /\ pos \in Nat /\ pos' = pos + 1 /\ pos + 1 <= Len(code)
             /\ out \in Seq({l \in Listed : l.at <= pos})
             /\ out' \in Seq({l \in Listed : l.at <= pos})
<1>1. /\ code \in Seq(Byte) /\ pos \in Nat /\ pos < Len(code) /\ Len(code) \in Nat
      /\ pos' = pos + 1 /\ origin \in Word16
      /\ out \in Seq({l \in Listed : l.at <= pos})
      /\ out' = Append(out, Line(<<code[pos + 1]>>, Datum(code[pos + 1])))
  BY LenProperties DEF EmitData, TypeOK
<1>2. code[pos + 1] \in Byte
  BY <1>1, ElementOfSeq
<1>3. Datum(code[pos + 1]) \in Text /\ <<code[pos + 1]>> \in Seq(Byte)
  BY <1>2, DatumIsText
<1>4. PICK line \in {l \in Listed : l.at <= pos} :
        /\ line = Line(<<code[pos + 1]>>, Datum(code[pos + 1]))
        /\ line.text = Datum(code[pos + 1]) /\ line.at = pos
        /\ line.bytes = <<code[pos + 1]>> /\ line.addr = Wrap16(origin + pos)
  BY <1>1, <1>3, LineListed, ZenonT(60)
<1>5. Append(out, line) \in Seq({l \in Listed : l.at <= pos})
  BY <1>1, AppendProperties, SMTT(30)
<1> QED
  BY <1>1, <1>2, <1>4, <1>5

\* More lines are allowed further on.
LEMMA ListedFurther ==
  ASSUME NEW p \in Nat, NEW q \in Nat, p <= q,
         NEW lines \in Seq({line \in Listed : line.at <= p})
  PROVE  lines \in Seq({line \in Listed : line.at <= q})
<1> DEFINE S == {line \in Listed : line.at <= p}
           T == {line \in Listed : line.at <= q}
<1>1. S \subseteq T
  BY DEF Listed
<1>2. lines \in Seq(S)
  OBVIOUS
<1> HIDE DEF S, T
<1>3. Len(lines) \in Nat /\ DOMAIN lines = 1..Len(lines) /\ \A k \in 1..Len(lines) : lines[k] \in T
  BY <1>1, <1>2, LenProperties, ElementOfSeq
<1>4. lines = [k \in 1..Len(lines) |-> lines[k]]
  BY <1>2
<1>5. lines \in [1..Len(lines) -> T]
  BY <1>3, <1>4
<1>6. lines \in Seq(T)
  BY <1>3, <1>5, SeqDef
<1> QED
  BY <1>6 DEF T

\* The cursor, the widths and the lines keep their types, and no line lies past
\* the cursor.
THEOREM TypeCorrect == Spec => []TypeOK
<1>1. Init => TypeOK
  <2> SUFFICES ASSUME Init PROVE TypeOK
    OBVIOUS
  <2>1. code \in Seq(Byte) /\ origin \in Word16
    BY CodesAreBytes, OriginsAreWords DEF Init
  <2>2. out \in Seq({line \in Listed : line.at <= pos})
    BY EmptySeq DEF Init
  <2>3. Len(code) \in Nat
    BY <2>1, LenProperties
  <2> QED
    BY <2>1, <2>2, <2>3 DEF Init, TypeOK
<1>2. TypeOK /\ [Next]_vars => TypeOK'
  <2> SUFFICES ASSUME TypeOK, [Next]_vars PROVE TypeOK'
    OBVIOUS
  <2>1. CASE EmitInstruction
    <3>1. PICK f : Emits(f)
      BY <2>1, InstructionEmits
    <3>2. /\ code' = code /\ origin' = origin /\ a' \in {1, 2} /\ i' \in {1, 2}
          /\ pos \in Nat /\ pos' \in Nat /\ pos <= pos' /\ pos' <= Len(code)
      BY <3>1, EmitsMoves DEF Emits
    <3>3. out' \in Seq({line \in Listed : line.at <= pos})
      BY <3>1, EmitsLines
    <3>4. out' \in Seq({line \in Listed : line.at <= pos'})
      BY <3>2, <3>3, ListedFurther
    <3> QED
      BY <3>2, <3>4, LenProperties DEF TypeOK
  <2>2. CASE EmitData
    <3>1. /\ code' = code /\ origin' = origin /\ a' = a /\ i' = i
          /\ pos \in Nat /\ pos' = pos + 1 /\ pos + 1 <= Len(code) /\ Len(code) \in Nat
      BY <2>2, LenProperties, EmitDataIs DEF EmitData, TypeOK
    <3>2. out' \in Seq({line \in Listed : line.at <= pos})
      BY <2>2, EmitDataIs
    <3>3. out' \in Seq({line \in Listed : line.at <= pos'})
      BY <3>1, <3>2, ListedFurther
    <3> QED
      BY <3>1, <3>3 DEF TypeOK
  <2>3. CASE Return \/ UNCHANGED vars
    BY <2>3 DEF Return, vars, TypeOK
  <2> QED
    BY <2>1, <2>2, <2>3 DEF Next
<1> QED
  BY <1>1, <1>2, PTL DEF Spec

------------------------------------------------------------------------------
(* The assembler reads what was written *)

\* An assembler with these widths that has met no ambiguous line.
Fine == TRUE
Reader(wa, wi, image) == [a |-> wa, i |-> wi, ok |-> Fine, image |-> image]

LEMMA ReadsDirective ==
  ASSUME NEW wa, NEW wi, NEW image, NEW register \in {"a", "i"}, NEW width,
         NEW line, line.text = Directive(register, width)
  PROVE  ReadLine(Reader(wa, wi, image), line)
           = IF register = "a" THEN Reader(width, wi, image) ELSE Reader(wa, width, image)
<1>1. line.text.kind = "directive" /\ line.text.register = register /\ line.text.width = width
  BY DEF Directive
<1>2. ReadLine(Reader(wa, wi, image), line) = [Reader(wa, wi, image) EXCEPT ![register] = width]
  BY <1>1 DEF ReadLine
<1>3. CASE register = "a"
  <2>1. [Reader(wa, wi, image) EXCEPT !.a = width] = Reader(width, wi, image)
    BY DEF Reader
  <2> QED
    BY <1>2, <1>3, <2>1
<1>4. CASE register = "i"
  <2>1. [Reader(wa, wi, image) EXCEPT !.i = width] = Reader(wa, width, image)
    BY DEF Reader
  <2> QED
    BY <1>2, <1>4, <2>1
<1> QED
  BY <1>3, <1>4

LEMMA ReadsDatum ==
  ASSUME NEW wa, NEW wi, NEW image, NEW b, NEW line, line.text = Datum(b)
  PROVE  ReadLine(Reader(wa, wi, image), line) = Reader(wa, wi, image \o <<b>>)
<1>1. line.text.kind = "data" /\ line.text.shown = <<b>>
  BY DEF Datum
<1>2. ReadLine(Reader(wa, wi, image), line) = [Reader(wa, wi, image) EXCEPT !.image = @ \o <<b>>]
  BY <1>1 DEF ReadLine
<1> QED
  BY <1>2 DEF Reader

LEMMA ReadsInstruction ==
  ASSUME NEW wa, NEW wi, NEW image, NEW f, NEW c, NEW p, NEW line,
         line.text.kind = "instruction",
         ReadsBack(f, c, p, line.text, line.addr, Reader(wa, wi, image))
  PROVE  ReadLine(Reader(wa, wi, image), line)
           = Reader(wa, wi, image \o SubSeq(c, p + 1, p + FormLen(f)))
<1>1. PICK read : read = Readings(line.text, line.addr, Reader(wa, wi, image))
  OBVIOUS
<1>2. read = {f} /\ Laid816(f, line.text, line.addr) = SubSeq(c, p + 1, p + FormLen(f))
  BY <1>1 DEF ReadsBack
<1>3. Cardinality(read) = 1 /\ (CHOOSE g \in read : TRUE) = f
  BY <1>2, FS_Singleton
<1>4. ReadLine(Reader(wa, wi, image), line)
        = [Reader(wa, wi, image) EXCEPT !.image = @ \o SubSeq(c, p + 1, p + FormLen(f))]
  BY <1>1, <1>2, <1>3 DEF ReadLine
<1> QED
  BY <1>4 DEF Reader

\* Announcing a change of the width the reader has.
LEMMA PutReads ==
  ASSUME NEW S, NEW lines \in Seq(S), NEW register \in {"a", "i"}, NEW old, NEW new,
         Line(<<>>, Directive(register, new)) \in S, new \in {1, 2},
         TypeOK,
         NEW wa, NEW wi, NEW image, Assembled(lines) = Reader(wa, wi, image),
         old = IF register = "a" THEN wa ELSE wi
  PROVE  Assembled(Put(lines, register, old, new))
           = IF register = "a" THEN Reader(new, wi, image) ELSE Reader(wa, new, image)
<1>1. CASE new = old
  BY <1>1 DEF Put
<1>2. CASE new # old
  <2>1. PICK line \in S : line = Line(<<>>, Directive(register, new))
    OBVIOUS
  <2>2. line.text = Directive(register, new)
    BY <2>1 DEF Line
  <2>3. Assembled(Append(lines, line)) = ReadLine(Reader(wa, wi, image), line)
    BY AssembledAppend
  <2>4. Put(lines, register, old, new) = Append(lines, line)
    BY <1>2, <2>1 DEF Put
  <2>5. ReadLine(Reader(wa, wi, image), line)
          = IF register = "a" THEN Reader(new, wi, image) ELSE Reader(wa, new, image)
    BY <2>2, ReadsDirective
  <2> QED
    BY <2>3, <2>4, <2>5
<1> QED
  BY <1>1, <1>2

\* The assembler that has read the lines so far has the widths of the sweep
\* and has laid down the bytes swept.
InStep == Assembly = Reader(a, i, SubSeq(code, 1, pos))

LEMMA InStepAtFirst ==
  ASSUME Init
  PROVE  InStep
<1>1. code \in Seq(Byte) /\ pos = 0 /\ out = <<>> /\ a = 1 /\ i = 1
  BY CodesAreBytes DEF Init
<1>2. SubSeq(code, 1, 0) = <<>>
  <2>1. SubSeq(code, 1, 0) \in Seq(Byte) /\ Len(SubSeq(code, 1, 0)) = IF 1 <= 0 THEN 0 - 1 + 1 ELSE 0
    BY SubSeqProperties, SMTT(30)
  <2>2. Len(SubSeq(code, 1, 0)) = 0
    BY <2>1
  <2> QED
    BY <2>1, <2>2, EmptySeq
<1>3. Fresh = Reader(1, 1, <<>>)
  BY DEF Fresh, Reader, Fine
<1> QED
  BY <1>1, <1>2, <1>3, AssembledNone DEF InStep, Assembly

LEMMA InStepInstruction ==
  ASSUME TypeOK, InStep, NEW f, Emits(f)
  PROVE  InStep'
<1> DEFINE S == {line \in Listed : line.at <= pos}
<1>1. /\ code \in Seq(Byte) /\ pos \in Nat /\ FormLen(f) \in Nat
      /\ pos' = pos + FormLen(f) /\ pos' <= Len(code) /\ pos < Len(code)
      /\ code' = code /\ a' \in {1, 2} /\ i' \in {1, 2}
      /\ f \in Decoded(code, pos, a, i)
  BY EmitsMoves DEF Emits
<1>2. a \in {1, 2} /\ i \in {1, 2} /\ origin \in Word16 /\ out \in Seq(S)
  BY DEF TypeOK
<1>3. PICK lines1 \in Seq(S), lines2 \in Seq(S) :
        /\ lines1 = Append(out, InstructionLine(f))
        /\ lines2 = Put(lines1, "a", a, a')
        /\ out' = Put(lines2, "i", i, i')
        /\ InstructionLine(f) \in S
  BY EmitsLines
<1>4. /\ Line(<<>>, Directive("a", a')) \in S
      /\ Line(<<>>, Directive("i", i')) \in S
  <2>1. Directive("a", a') \in Text /\ Directive("i", i') \in Text
    BY <1>1, DirectiveIsText
  <2>2. <<>> \in Seq(Byte)
    BY EmptySeq
  <2> QED
    BY <1>1, <1>2, <2>1, <2>2, LineListed
<1>5. PICK line \in S : line = InstructionLine(f)
  BY <1>3
<1>6. PICK swept : swept = SubSeq(code, 1, pos)
  OBVIOUS
<1>7. ReadsBack(f, code, pos, line.text, line.addr, Reader(a, i, swept)) /\ line.text.kind = "instruction"
  <2>1. PICK addr \in Word16 : addr = Wrap16(origin + pos)
    <3>1. origin + pos \in Int
      BY <1>1, <1>2, WordIsInt
    <3> QED
      BY <3>1, WrapIsWord, SMTT(30)
  <2>2. PICK text : text = Instruction(f, Values(f, code, pos), addr)
    OBVIOUS
  <2>3. PICK widths : widths = Reader(a, i, swept)
    OBVIOUS
  <2>4. widths.a = a /\ widths.i = i
    BY <2>3 DEF Reader
  <2>5. ReadsBack(f, code, pos, text, addr, widths)
    BY <1>1, <1>2, <2>2, <2>4, DecodedReadsBack
  <2>6. line.text = text /\ line.addr = addr
    BY <1>5, <2>1, <2>2 DEF InstructionLine, Line
  <2>7. text.kind = "instruction"
    BY <2>2, TextFields
  <2> QED
    BY <2>3, <2>5, <2>6, <2>7
<1>8. Assembled(lines1) = Reader(a, i, swept \o SubSeq(code, pos + 1, pos + FormLen(f)))
  <2>1. Assembled(out) = Reader(a, i, swept)
    BY <1>6 DEF InStep, Assembly
  <2>2. Assembled(Append(out, line)) = ReadLine(Assembled(out), line)
    BY <1>2, AssembledAppend
  <2>3. ReadLine(Reader(a, i, swept), line)
          = Reader(a, i, swept \o SubSeq(code, pos + 1, pos + FormLen(f)))
    BY <1>7, ReadsInstruction
  <2> QED
    BY <1>3, <1>5, <2>1, <2>2, <2>3
<1>9. PICK image : image = SubSeq(code, 1, pos')
  OBVIOUS
<1>10. swept \o SubSeq(code, pos + 1, pos + FormLen(f)) = image
  <2>1. /\ 1 \in 1..Len(code) + 1 /\ pos \in 1 - 1..Len(code)
        /\ pos + FormLen(f) \in pos..Len(code)
    BY <1>1, LenProperties
  <2>2. SubSeq(code, 1, pos) \o SubSeq(code, pos + 1, pos + FormLen(f)) = SubSeq(code, 1, pos + FormLen(f))
    BY <1>1, <2>1, ConcatAdjacentSubSeq, Zenon
  <2> QED
    BY <1>1, <1>6, <1>9, <2>2
<1>11. Assembled(lines1) = Reader(a, i, image)
  BY <1>8, <1>10
<1> HIDE DEF S
<1>12. Assembled(lines2) = Reader(a', i, image)
  <2>1. "a" \in {"a", "i"}
    OBVIOUS
  <2>2. Assembled(Put(lines1, "a", a, a')) = Reader(a', i, image)
    BY <1>1, <1>4, <1>11, <2>1, PutReads
  <2> QED
    BY <1>3, <2>2
<1>13. Assembled(out') = Reader(a', i', image)
  <2>1. "i" \in {"a", "i"} /\ "i" # "a"
    OBVIOUS
  <2>2. Assembled(Put(lines2, "i", i, i')) = Reader(a', i', image)
    BY <1>1, <1>4, <1>12, <2>1, PutReads
  <2> QED
    BY <1>3, <2>2
<1>14. Assembly' = Assembled(out')
  BY DEF Assembly
<1> QED
  BY <1>1, <1>9, <1>13, <1>14 DEF InStep

LEMMA OneByteOf ==
  ASSUME NEW c \in Seq(Byte), NEW p \in Nat, p + 1 <= Len(c)
  PROVE  <<c[p + 1]>> = SubSeq(c, p + 1, p + 1)
<1>1. Len(c) \in Nat /\ c[p + 1] \in Byte
  BY LenProperties, ElementOfSeq
<1>2. PICK q \in Nat : q = p + 1
  OBVIOUS
<1>3. PICK x : x = SubSeq(c, q, q)
  OBVIOUS
<1>4. \A k \in q..q : c[k] \in Byte
  BY <1>1, <1>2
<1>5. /\ x \in Seq(Byte)
      /\ Len(x) = IF q <= q THEN q - q + 1 ELSE 0
      /\ \A k \in 1..(q - q + 1) : x[k] = c[q + k - 1]
  BY <1>3, <1>4, SubSeqProperties, SMTT(30)
<1>6. Len(x) = 1 /\ x[1] = c[q]
  BY <1>5
<1>7. PICK y : y = <<c[q]>>
  OBVIOUS
<1>8. y \in Seq(Byte) /\ Len(y) = 1 /\ y[1] = c[q]
  BY <1>1, <1>2, <1>7
<1>9. x = y
  BY <1>5, <1>6, <1>8, SeqEqual
<1> QED
  BY <1>2, <1>3, <1>7, <1>9

\* A byte more of the buffer.
LEMMA SweptByte ==
  ASSUME NEW c \in Seq(Byte), NEW p \in Nat, p + 1 <= Len(c)
  PROVE  SubSeq(c, 1, p) \o <<c[p + 1]>> = SubSeq(c, 1, p + 1)
<1>1. /\ 1 \in 1..Len(c) + 1 /\ p \in 1 - 1..Len(c) /\ p + 1 \in p..Len(c)
  BY LenProperties
<1>2. SubSeq(c, 1, p) \o SubSeq(c, p + 1, p + 1) = SubSeq(c, 1, p + 1)
  BY <1>1, ConcatAdjacentSubSeq, Zenon
<1> QED
  BY <1>2, OneByteOf

LEMMA InStepData ==
  ASSUME TypeOK, InStep, EmitData
  PROVE  InStep'
<1> DEFINE S == {line \in Listed : line.at <= pos}
<1>1. PICK line : line = Line(<<code[pos + 1]>>, Datum(code[pos + 1]))
  OBVIOUS
<1>2. /\ out' = Append(out, line) /\ line \in S /\ out \in Seq(S)
      /\ line.text = Datum(code[pos + 1])
      /\ pos \in Nat /\ pos' = pos + 1 /\ pos + 1 <= Len(code)
  BY <1>1, EmitDataIs
<1>3. code \in Seq(Byte) /\ code' = code /\ a' = a /\ i' = i
  BY DEF TypeOK, EmitData
<1> HIDE DEF S
<1>4. Assembled(out') = ReadLine(Assembled(out), line)
  BY <1>2, AssembledAppend
<1>5. Assembled(out) = Reader(a, i, SubSeq(code, 1, pos))
  BY DEF InStep, Assembly
<1>6. ReadLine(Reader(a, i, SubSeq(code, 1, pos)), line)
        = Reader(a, i, SubSeq(code, 1, pos) \o <<code[pos + 1]>>)
  BY <1>2, ReadsDatum
<1>7. SubSeq(code, 1, pos) \o <<code[pos + 1]>> = SubSeq(code, 1, pos + 1)
  BY <1>2, <1>3, SweptByte
<1>8. Assembled(out') = Reader(a, i, SubSeq(code, 1, pos + 1))
  BY <1>4, <1>5, <1>6, <1>7
<1>9. Assembly' = Assembled(out')
  BY DEF Assembly
<1> QED
  BY <1>2, <1>3, <1>8, <1>9 DEF InStep

LEMMA InStepInductive == TypeOK /\ InStep /\ [Next]_vars => InStep'
<1> SUFFICES ASSUME TypeOK, InStep, [Next]_vars PROVE InStep'
  OBVIOUS
<1>1. CASE EmitInstruction
  BY <1>1, InstructionEmits, InStepInstruction
<1>2. CASE EmitData
  BY <1>2, InStepData
<1>3. CASE Return \/ UNCHANGED vars
  BY <1>3 DEF Return, vars, InStep, Assembly
<1> QED
  BY <1>1, <1>2, <1>3 DEF Next

\* "so the listing re-assembles byte-exact": whatever the buffer, the load
\* address and the table, the listing reads back to the bytes swept.
THEOREM ListingRoundTrips == Spec => []RoundTrip816
<1>1. Init => InStep
  BY InStepAtFirst
<1>2. InStep => RoundTrip816
  <2>1. ASSUME NEW asm, NEW image, asm = Reader(a, i, image)
        PROVE  asm.ok = Fine /\ asm.image = image
    BY <2>1 DEF Reader
  <2> QED
    BY <2>1 DEF InStep, RoundTrip816, Fine
<1> QED
  BY <1>1, <1>2, InStepInductive, TypeCorrect, PTL DEF Spec

\* The widths the sweep decodes with are those the directives told.
THEOREM WidthsStayTogether == Spec => []WidthsAgree
<1>1. Init => InStep
  BY InStepAtFirst
<1>2. InStep => WidthsAgree
  BY DEF InStep, WidthsAgree, Reader
<1> QED
  BY <1>1, <1>2, InStepInductive, TypeCorrect, PTL DEF Spec

------------------------------------------------------------------------------
(* The lines of one kind *)

\* The lines that are in P.
Picked(lines, P) == Chosen(lines, {k \in DOMAIN lines : lines[k] \in P})

LEMMA ChosenInSeq ==
  ASSUME NEW S, NEW lines \in Seq(S), NEW K
  PROVE  Chosen(lines, K) \in Seq(S)
<1>1. PICK n \in Nat : n = Len(lines)
  BY LenProperties
<1>2. PICK u : Choosing(u, lines, K, n) /\ Chosen(lines, K) = u[n]
  BY <1>1, ChosenIs
<1> DEFINE T == {m \in Nat : m <= n => u[m] \in Seq(S)}
<1>3. 0 \in T
  <2>1. u[0] = <<>>
    BY <1>2 DEF Choosing
  <2> QED
    BY <2>1, EmptySeq
<1>4. ASSUME NEW m \in Nat, m \in T
      PROVE  m + 1 \in T
  <2>1. SUFFICES ASSUME m + 1 <= n PROVE u[m + 1] \in Seq(S)
    OBVIOUS
  <2>2. u[m] \in Seq(S) /\ m + 1 \in 0..n /\ m + 1 # 0 /\ (m + 1) - 1 = m
    BY <1>4, <2>1
  <2>3. u[m + 1] = IF m + 1 \in K THEN Append(u[m], lines[m + 1]) ELSE u[m]
    BY <1>2, <2>2 DEF Choosing
  <2>4. lines[m + 1] \in S
    BY <1>1, <2>1, ElementOfSeq
  <2>5. Append(u[m], lines[m + 1]) \in Seq(S)
    BY <2>2, <2>4, AppendProperties, SMTT(30)
  <2> QED
    BY <2>2, <2>3, <2>5
<1> HIDE DEF T
<1>5. n \in T
  BY <1>3, <1>4, SetInduction
<1> QED
  BY <1>2, <1>5 DEF T

LEMMA PickedAppend ==
  ASSUME NEW S, NEW lines \in Seq(S), NEW x \in S, NEW P
  PROVE  \E some \in Seq(S), more \in Seq(S) :
           /\ some = Picked(lines, P) /\ more = Picked(Append(lines, x), P)
           /\ more = IF x \in P THEN Append(some, x) ELSE some
<1>1. PICK more \in Seq(S) : more = Append(lines, x)
  BY AppendProperties, ZenonT(30)
<1>2. /\ Len(more) = Len(lines) + 1 /\ more[Len(lines) + 1] = x
      /\ \A k \in 1..Len(lines) : more[k] = lines[k]
      /\ Len(lines) \in Nat
      /\ DOMAIN lines = 1..Len(lines) /\ DOMAIN more = 1..(Len(lines) + 1)
  BY <1>1, AppendProperties, LenProperties, SMTT(30)
<1> DEFINE K1 == {k \in DOMAIN lines : lines[k] \in P}
           K2 == {k \in DOMAIN more : more[k] \in P}
<1>3. \A k \in 1..Len(lines) : k \in K1 <=> k \in K2
  BY <1>2
<1>4. Len(lines) + 1 \in K2 <=> x \in P
  BY <1>2
<1> HIDE DEF K1, K2
<1>5. Chosen(Append(lines, x), K2)
        = IF Len(lines) + 1 \in K2 THEN Append(Chosen(lines, K1), x) ELSE Chosen(lines, K1)
  BY <1>3, ChosenAppend
<1>6. Chosen(lines, K1) = Picked(lines, P) /\ Chosen(more, K2) = Picked(more, P)
  BY DEF K1, K2, Picked
<1>7. Chosen(lines, K1) \in Seq(S) /\ Chosen(more, K2) \in Seq(S)
  BY ChosenInSeq
<1> QED
  BY <1>1, <1>4, <1>5, <1>6, <1>7

LEMMA PickedNone ==
  ASSUME NEW P
  PROVE  Picked(<<>>, P) = <<>>
BY ChosenOfNone DEF Picked

------------------------------------------------------------------------------
(* The widths follow the status *)

\* The instructions that set the status bit.
SettingLines(bit) ==
  {line \in Listed :
     /\ line.text.kind = "instruction"
     /\ line.text.mnemonic \in {"REP", "SEP"}
     /\ HasBit(line.text.shown[1], bit)}

\* The width the lines leave the register of this bit.
WidthLeft(lines, bit) ==
  LET set == Picked(lines, SettingLines(bit))
  IN  IF set = <<>> THEN 1 ELSE IF set[Len(set)].text.mnemonic = "REP" THEN 2 ELSE 1

LEMMA WidthLeftAppend ==
  ASSUME NEW lines \in Seq(Listed), NEW x \in Listed, NEW bit
  PROVE  WidthLeft(Append(lines, x), bit)
           = IF x \in SettingLines(bit) THEN IF x.text.mnemonic = "REP" THEN 2 ELSE 1
             ELSE WidthLeft(lines, bit)
<1>1. PICK P : P = SettingLines(bit)
  OBVIOUS
<1>2. PICK some \in Seq(Listed), more \in Seq(Listed) :
        /\ some = Picked(lines, P) /\ more = Picked(Append(lines, x), P)
        /\ more = IF x \in P THEN Append(some, x) ELSE some
  BY PickedAppend
<1>3. CASE x \in SettingLines(bit)
  <2>1. more # <<>> /\ more[Len(more)] = x
    BY <1>1, <1>2, <1>3, AppendProperties, EmptySeq, SMTT(30)
  <2> QED
    BY <1>1, <1>2, <1>3, <2>1 DEF WidthLeft
<1>4. CASE x \notin SettingLines(bit)
  BY <1>1, <1>2, <1>4 DEF WidthLeft
<1> QED
  BY <1>3, <1>4

LEMMA LastSettingIs ==
  ASSUME TypeOK, NEW bit
  PROVE  LastSetting(bit) = WidthLeft(out, bit) /\ out \in Seq(Listed)
<1>1. out \in Seq(Listed)
  <2>1. \A k \in 1..Len(out) : out[k] \in Listed
    BY ElementOfSeq DEF TypeOK
  <2>2. out \in [1..Len(out) -> Listed] /\ Len(out) \in Nat
    BY <2>1, LenProperties DEF TypeOK
  <2> QED
    BY <2>2, SeqDef
<1>2. \A k \in DOMAIN out : out[k] \in Listed
  BY <1>1, LenProperties, ElementOfSeq
<1>3. {k \in DOMAIN out :
         /\ out[k].text.kind = "instruction"
         /\ out[k].text.mnemonic \in {"REP", "SEP"}
         /\ HasBit(out[k].text.shown[1], bit)}
      = {k \in DOMAIN out : out[k] \in SettingLines(bit)}
  BY <1>2 DEF SettingLines
<1>4. Settings(bit) = Picked(out, SettingLines(bit))
  BY <1>3 DEF Settings, Picked
<1> QED
  BY <1>1, <1>4 DEF LastSetting, WidthLeft

\* A directive sets no status bit.
LEMMA PutLeaves ==
  ASSUME NEW lines \in Seq(Listed), NEW register \in {"a", "i"}, NEW old, NEW new \in {1, 2},
         Line(<<>>, Directive(register, new)) \in Listed, NEW bit
  PROVE  WidthLeft(Put(lines, register, old, new), bit) = WidthLeft(lines, bit)
<1>1. PICK line \in Listed : line = Line(<<>>, Directive(register, new))
  OBVIOUS
<1>2. line.text = Directive(register, new)
  BY <1>1 DEF Line
<1>3. line.text.kind = "directive"
  BY <1>2, DirectiveIsText
<1>4. line \notin SettingLines(bit)
  BY <1>3 DEF SettingLines
<1>5. WidthLeft(Append(lines, line), bit) = WidthLeft(lines, bit)
  BY <1>4, WidthLeftAppend
<1> QED
  BY <1>1, <1>5 DEF Put

LEMMA AllListed ==
  ASSUME NEW lines \in Seq({line \in Listed : line.at <= pos})
  PROVE  lines \in Seq(Listed)
<1>1. \A k \in 1..Len(lines) : lines[k] \in Listed
  BY ElementOfSeq
<1>2. lines \in [1..Len(lines) -> Listed] /\ Len(lines) \in Nat
  BY <1>1, LenProperties
<1> QED
  BY <1>2, SeqDef

\* The line of REP and SEP shows the mask the sweep takes its widths from.
LEMMA MaskShown ==
  ASSUME NEW f \in Table, f.mnemonic \in {"REP", "SEP"}, NEW values, NEW addr
  PROVE  Shown(f, values, addr) = values
<1>1. f.mode = "immediate"
  BY RepAndSepAreImmediate
<1>2. ~IsBranch(f) /\ f.mode # "block-move"
  BY <1>1 DEF IsBranch
<1> QED
  BY <1>2 DEF Shown

\* The instruction leaves the width the sweep takes over.
LEMMA InstructionLeaves ==
  ASSUME TypeOK, NEW f, Emits(f), NEW bit, NEW width, width = WidthLeft(out, bit),
         InstructionLine(f) \in Listed
  PROVE  WidthLeft(Append(out, InstructionLine(f)), bit)
           = WidthAfter(f, Values(f, code, pos), bit, width)
<1>1. PICK values : values = Values(f, code, pos)
  OBVIOUS
<1>2. PICK text : text = Instruction(f, values, Wrap16(origin + pos))
  OBVIOUS
<1>3. /\ text.kind = "instruction" /\ text.mnemonic = f.mnemonic
      /\ text.shown = Shown(f, values, Wrap16(origin + pos))
  BY <1>2, TextFields
<1>4. PICK line \in Listed : line = InstructionLine(f)
  OBVIOUS
<1>5. line.text = text
  BY <1>1, <1>2, <1>4 DEF InstructionLine, Line
<1>6. f \in Table /\ out \in Seq(Listed)
  BY EmitsMoves, AllListed DEF TypeOK
<1>7. line \in SettingLines(bit) <=> f.mnemonic \in {"REP", "SEP"} /\ HasBit(values[1], bit)
  <2>1. f.mnemonic \in {"REP", "SEP"} => text.shown = values
    BY <1>3, <1>6, MaskShown
  <2> QED
    BY <1>3, <1>4, <1>5, <2>1 DEF SettingLines
<1>8. WidthLeft(Append(out, line), bit)
        = IF line \in SettingLines(bit) THEN IF line.text.mnemonic = "REP" THEN 2 ELSE 1
          ELSE WidthLeft(out, bit)
  BY <1>6, WidthLeftAppend
<1>9. WidthLeft(Append(out, line), bit) = WidthAfter(f, values, bit, width)
  BY <1>3, <1>5, <1>7, <1>8 DEF WidthAfter
<1> QED
  BY <1>1, <1>4, <1>9

\* The widths of the sweep are those the lines leave.
WidthsAreLeft == a = WidthLeft(out, \h20) /\ i = WidthLeft(out, \h10)

LEMMA WidthsLeftInductive == TypeOK /\ WidthsAreLeft /\ [Next]_vars => WidthsAreLeft'
<1> SUFFICES ASSUME TypeOK, WidthsAreLeft, [Next]_vars PROVE WidthsAreLeft'
  OBVIOUS
<1> DEFINE S == {line \in Listed : line.at <= pos}
<1>1. CASE EmitInstruction
  <2>1. PICK f : Emits(f)
    BY <1>1, InstructionEmits
  <2>2. PICK lines1 \in Seq(S), lines2 \in Seq(S) :
          /\ lines1 = Append(out, InstructionLine(f))
          /\ lines2 = Put(lines1, "a", a, a')
          /\ out' = Put(lines2, "i", i, i')
          /\ InstructionLine(f) \in S
    BY <2>1, EmitsLines
  <2>3. lines1 \in Seq(Listed) /\ lines2 \in Seq(Listed) /\ InstructionLine(f) \in Listed
    BY <2>2, AllListed
  <2>4. /\ a' \in {1, 2} /\ i' \in {1, 2}
        /\ Line(<<>>, Directive("a", a')) \in Listed
        /\ Line(<<>>, Directive("i", i')) \in Listed
    <3>1. a' \in {1, 2} /\ i' \in {1, 2} /\ pos \in Nat /\ origin \in Word16
      BY <2>1, EmitsMoves DEF TypeOK
    <3>2. Directive("a", a') \in Text /\ Directive("i", i') \in Text /\ <<>> \in Seq(Byte)
      BY <3>1, DirectiveIsText, EmptySeq
    <3> QED
      BY <3>1, <3>2, LineListed
  <2>5. ASSUME NEW bit
        PROVE  WidthLeft(out', bit) = WidthLeft(lines1, bit)
    <3>1. "a" \in {"a", "i"} /\ "i" \in {"a", "i"}
      OBVIOUS
    <3>2. WidthLeft(Put(lines1, "a", a, a'), bit) = WidthLeft(lines1, bit)
      BY <2>3, <2>4, <3>1, PutLeaves
    <3>3. WidthLeft(Put(lines2, "i", i, i'), bit) = WidthLeft(lines2, bit)
      BY <2>3, <2>4, <3>1, PutLeaves
    <3> QED
      BY <2>2, <3>2, <3>3
  <2>6. /\ a' = WidthAfter(f, Values(f, code, pos), \h20, a)
        /\ i' = WidthAfter(f, Values(f, code, pos), \h10, i)
    BY <2>1 DEF Emits
  <2>7. a' = WidthLeft(lines1, \h20)
    BY <2>1, <2>2, <2>3, <2>6, InstructionLeaves DEF WidthsAreLeft
  <2>8. i' = WidthLeft(lines1, \h10)
    BY <2>1, <2>2, <2>3, <2>6, InstructionLeaves DEF WidthsAreLeft
  <2> QED
    BY <2>5, <2>7, <2>8 DEF WidthsAreLeft
<1>2. CASE EmitData
  <2>1. PICK line : line = Line(<<code[pos + 1]>>, Datum(code[pos + 1]))
    OBVIOUS
  <2>2. /\ out' = Append(out, line) /\ line \in S
        /\ line.text = Datum(code[pos + 1]) /\ code[pos + 1] \in Byte
    BY <1>2, <2>1, EmitDataIs
  <2>3. line.text.kind = "data"
    BY <2>2, DatumIsText
  <2>4. line \in Listed /\ out \in Seq(Listed)
    BY <2>2, AllListed DEF TypeOK
  <2>5. ASSUME NEW bit
        PROVE  WidthLeft(out', bit) = WidthLeft(out, bit)
    <3>1. line \notin SettingLines(bit)
      BY <2>3 DEF SettingLines
    <3> QED
      BY <2>2, <2>4, <3>1, WidthLeftAppend
  <2> QED
    BY <1>2, <2>5 DEF WidthsAreLeft, EmitData
<1>3. CASE Return \/ UNCHANGED vars
  BY <1>3 DEF Return, vars, WidthsAreLeft
<1> QED
  BY <1>1, <1>2, <1>3 DEF Next

\* Each width is what the last REP or SEP listed that names its bit made it.
THEOREM WidthsAlwaysFollow == Spec => []WidthsFollowStatus
<1>1. Init => WidthsAreLeft
  BY PickedNone DEF Init, WidthsAreLeft, WidthLeft
<1>2. TypeOK /\ WidthsAreLeft => WidthsFollowStatus
  BY LastSettingIs DEF WidthsAreLeft, WidthsFollowStatus
<1> QED
  BY <1>1, <1>2, WidthsLeftInductive, TypeCorrect, PTL DEF Spec

------------------------------------------------------------------------------
(* Only changes are announced *)

DirectiveLines(register) ==
  {line \in Listed : line.text.kind = "directive" /\ line.text.register = register}

\* The widths announced in turn, and the one the last of them leaves.
Alternating(told, width) ==
  /\ \A k \in DOMAIN told : told[k].text.width = (IF k % 2 = 1 THEN 2 ELSE 1)
  /\ width = IF Len(told) % 2 = 1 THEN 2 ELSE 1

Alternates(lines, register, width) ==
  Alternating(Picked(lines, DirectiveLines(register)), width)

\* Announcing the other width.
LEMMA AlternatingMore ==
  ASSUME NEW told \in Seq(Listed), NEW old \in {1, 2}, Alternating(told, old),
         NEW line \in Listed, NEW new \in {1, 2}, new # old, line.text.width = new
  PROVE  Alternating(Append(told, line), new)
<1>1. PICK n \in Nat : n = Len(told)
  BY LenProperties
<1>2. PICK more \in Seq(Listed) : more = Append(told, line)
  BY AppendProperties, ZenonT(30)
<1>3. /\ Len(more) = n + 1 /\ more[n + 1] = line /\ \A k \in 1..n : more[k] = told[k]
      /\ DOMAIN more = 1..(n + 1) /\ DOMAIN told = 1..n
  BY <1>1, <1>2, AppendProperties, LenProperties, SMTT(30)
<1>4. (n + 1) % 2 = 1 <=> n % 2 # 1
  BY SMT
<1>5. old = IF n % 2 = 1 THEN 2 ELSE 1
  BY <1>1 DEF Alternating
<1>6. new = IF (n + 1) % 2 = 1 THEN 2 ELSE 1
  BY <1>4, <1>5
<1>7. ASSUME NEW k \in 1..(n + 1)
      PROVE  more[k].text.width = IF k % 2 = 1 THEN 2 ELSE 1
  <2>1. CASE k = n + 1
    BY <1>3, <1>6, <2>1
  <2>2. CASE k # n + 1
    <3>1. k \in 1..n
      BY <2>2
    <3> QED
      BY <1>3, <3>1 DEF Alternating
  <2> QED
    BY <2>1, <2>2
<1> QED
  BY <1>2, <1>3, <1>6, <1>7 DEF Alternating

LEMMA AlternatesPast ==
  ASSUME NEW lines \in Seq(Listed), NEW x \in Listed, NEW register, NEW width,
         Alternates(lines, register, width), x \notin DirectiveLines(register)
  PROVE  Alternates(Append(lines, x), register, width)
<1>1. PICK P : P = DirectiveLines(register)
  OBVIOUS
<1>2. PICK some \in Seq(Listed), more \in Seq(Listed) :
        /\ some = Picked(lines, P) /\ more = Picked(Append(lines, x), P)
        /\ more = IF x \in P THEN Append(some, x) ELSE some
  BY PickedAppend, ZenonT(60)
<1> QED
  BY <1>1, <1>2 DEF Alternates

LEMMA AlternatesPut ==
  ASSUME NEW lines \in Seq(Listed), NEW register \in {"a", "i"}, NEW r \in {"a", "i"},
         NEW old \in {1, 2}, NEW new \in {1, 2}, Line(<<>>, Directive(r, new)) \in Listed,
         NEW width \in {1, 2}, Alternates(lines, register, width), register = r => width = old
  PROVE  Alternates(Put(lines, r, old, new), register, IF register = r THEN new ELSE width)
<1>1. CASE new = old
  BY <1>1 DEF Put
<1>2. CASE new # old
  <2>1. PICK line \in Listed : line = Line(<<>>, Directive(r, new))
    OBVIOUS
  <2>2. line.text = Directive(r, new)
    BY <2>1 DEF Line
  <2>3. line.text.kind = "directive" /\ line.text.register = r /\ line.text.width = new
    BY <2>2, DirectiveIsText
  <2>4. Put(lines, r, old, new) = Append(lines, line)
    BY <1>2, <2>1 DEF Put
  <2>5. CASE register = r
    <3>1. PICK P : P = DirectiveLines(register)
      OBVIOUS
    <3>2. line \in P
      BY <2>3, <2>5, <3>1 DEF DirectiveLines
    <3>3. PICK some \in Seq(Listed), more \in Seq(Listed) :
            /\ some = Picked(lines, P) /\ more = Picked(Append(lines, line), P)
            /\ more = IF line \in P THEN Append(some, line) ELSE some
      BY PickedAppend, SMTT(30)
    <3>4. Alternating(some, old)
      BY <2>5, <3>1, <3>3 DEF Alternates
    <3>5. Alternating(Append(some, line), new)
      BY <1>2, <2>3, <3>4, AlternatingMore
    <3> QED
      BY <2>4, <2>5, <3>1, <3>2, <3>3, <3>5 DEF Alternates
  <2>6. CASE register # r
    <3>1. line \notin DirectiveLines(register)
      BY <2>3, <2>6 DEF DirectiveLines
    <3>2. Alternates(Append(lines, line), register, width)
      BY <3>1, AlternatesPast
    <3> QED
      BY <2>4, <2>6, <3>2
  <2> QED
    BY <2>5, <2>6
<1> QED
  BY <1>1, <1>2

\* The directives of each register alternate up to the width in force.
InTurn == Alternates(out, "a", a) /\ Alternates(out, "i", i)

LEMMA InTurnInductive == TypeOK /\ InTurn /\ [Next]_vars => InTurn'
<1> SUFFICES ASSUME TypeOK, InTurn, [Next]_vars PROVE InTurn'
  OBVIOUS
<1> DEFINE S == {line \in Listed : line.at <= pos}
<1>0. a \in {1, 2} /\ i \in {1, 2} /\ out \in Seq(Listed)
  BY AllListed DEF TypeOK
<1>1. CASE EmitInstruction
  <2>1. PICK f : Emits(f)
    BY <1>1, InstructionEmits
  <2>2. PICK lines1 \in Seq(S), lines2 \in Seq(S) :
          /\ lines1 = Append(out, InstructionLine(f))
          /\ lines2 = Put(lines1, "a", a, a')
          /\ out' = Put(lines2, "i", i, i')
          /\ InstructionLine(f) \in S
    BY <2>1, EmitsLines
  <2>3. lines1 \in Seq(Listed) /\ lines2 \in Seq(Listed) /\ InstructionLine(f) \in Listed
    BY <2>2, AllListed
  <2>4. /\ a' \in {1, 2} /\ i' \in {1, 2}
        /\ Line(<<>>, Directive("a", a')) \in Listed
        /\ Line(<<>>, Directive("i", i')) \in Listed
    <3>1. a' \in {1, 2} /\ i' \in {1, 2} /\ pos \in Nat /\ origin \in Word16
      BY <2>1, EmitsMoves DEF TypeOK
    <3>2. Directive("a", a') \in Text /\ Directive("i", i') \in Text /\ <<>> \in Seq(Byte)
      BY <3>1, DirectiveIsText, EmptySeq
    <3> QED
      BY <3>1, <3>2, LineListed
  <2>5. InstructionLine(f).text.kind # "directive"
    <3>1. PICK text : text = Instruction(f, Values(f, code, pos), Wrap16(origin + pos))
      OBVIOUS
    <3>2. InstructionLine(f).text = text
      BY <3>1 DEF InstructionLine, Line
    <3>3. text.kind = "instruction"
      BY <3>1, TextFields
    <3> QED
      BY <3>2, <3>3
  <2>6. Alternates(lines1, "a", a) /\ Alternates(lines1, "i", i)
    <3>1. \A register : InstructionLine(f) \notin DirectiveLines(register)
      BY <2>5 DEF DirectiveLines
    <3> QED
      BY <1>0, <2>2, <2>3, <3>1, AlternatesPast DEF InTurn
  <2>7. "a" \in {"a", "i"} /\ "i" \in {"a", "i"} /\ "a" # "i"
    OBVIOUS
  <2>8. Alternates(lines2, "a", a') /\ Alternates(lines2, "i", i)
    <3>1. Alternates(Put(lines1, "a", a, a'), "a", a')
      BY <1>0, <2>3, <2>4, <2>6, <2>7, AlternatesPut
    <3>2. Alternates(Put(lines1, "a", a, a'), "i", i)
      BY <1>0, <2>3, <2>4, <2>6, <2>7, AlternatesPut
    <3> QED
      BY <2>2, <3>1, <3>2
  <2>9. Alternates(out', "a", a') /\ Alternates(out', "i", i')
    <3>1. Alternates(Put(lines2, "i", i, i'), "a", a')
      BY <1>0, <2>3, <2>4, <2>7, <2>8, AlternatesPut
    <3>2. Alternates(Put(lines2, "i", i, i'), "i", i')
      BY <1>0, <2>3, <2>4, <2>7, <2>8, AlternatesPut
    <3> QED
      BY <2>2, <3>1, <3>2
  <2> QED
    BY <2>9 DEF InTurn
<1>2. CASE EmitData
  <2>1. PICK line : line = Line(<<code[pos + 1]>>, Datum(code[pos + 1]))
    OBVIOUS
  <2>2. /\ out' = Append(out, line) /\ line \in S
        /\ line.text = Datum(code[pos + 1]) /\ code[pos + 1] \in Byte
    BY <1>2, <2>1, EmitDataIs
  <2>3. line.text.kind = "data"
    BY <2>2, DatumIsText
  <2>4. line \in Listed
    BY <2>2
  <2>5. \A register : line \notin DirectiveLines(register)
    BY <2>3 DEF DirectiveLines
  <2>6. Alternates(out', "a", a) /\ Alternates(out', "i", i)
    BY <1>0, <2>2, <2>4, <2>5, AlternatesPast DEF InTurn
  <2> QED
    BY <1>2, <2>6 DEF InTurn, EmitData
<1>3. CASE Return \/ UNCHANGED vars
  BY <1>3 DEF Return, vars, InTurn
<1> QED
  BY <1>1, <1>2, <1>3 DEF Next

\* Only changes are announced, in turn wide and narrow.
THEOREM DirectivesTakeTurns == Spec => []DirectivesAlternate
<1>1. Init => InTurn
  <2> SUFFICES ASSUME Init PROVE InTurn
    OBVIOUS
  <2>1. Alternating(<<>>, 1)
    BY DEF Alternating
  <2> QED
    BY <2>1, PickedNone DEF Init, InTurn, Alternates
<1>2. TypeOK /\ InTurn => DirectivesAlternate
  <2> SUFFICES ASSUME TypeOK, InTurn, NEW register \in {"a", "i"}
               PROVE  \A k \in DOMAIN Announced(register) :
                        Announced(register)[k].text.width = (IF k % 2 = 1 THEN 2 ELSE 1)
    BY DEF DirectivesAlternate
  <2>1. \A k \in DOMAIN out : out[k] \in Listed
    BY AllListed, LenProperties, ElementOfSeq DEF TypeOK
  <2>2. {k \in DOMAIN out : out[k].text.kind = "directive" /\ out[k].text.register = register}
        = {k \in DOMAIN out : out[k] \in DirectiveLines(register)}
    BY <2>1 DEF DirectiveLines
  <2>3. Announced(register) = Picked(out, DirectiveLines(register))
    BY <2>2 DEF Announced, Picked
  <2>4. \E width : Alternating(Picked(out, DirectiveLines(register)), width)
    BY DEF InTurn, Alternates
  <2> QED
    BY <2>3, <2>4 DEF Alternating
<1> QED
  BY <1>1, <1>2, InTurnInductive, TypeCorrect, PTL DEF Spec

\* A table that has a form for every byte is never indexed in vain.
THEOREM NeverPanics ==
  (\A b \in Byte : Candidates[b] # {}) => (Spec => []NoPanic)
<1> SUFFICES ASSUME \A b \in Byte : Candidates[b] # {} PROVE Spec => []NoPanic
  OBVIOUS
<1>1. TypeOK => NoPanic
  <2> SUFFICES ASSUME TypeOK, pos < Len(code) PROVE Candidates[code[pos + 1]] # {}
    BY DEF NoPanic
  <2>1. code[pos + 1] \in Byte
    BY LenProperties, ElementOfSeq DEF TypeOK
  <2> QED
    BY <2>1
<1> QED
  BY <1>1, TypeCorrect, PTL

------------------------------------------------------------------------------
(* The disassembler implements the sweep *)

\* A line without its text.
Piece(line) == [at |-> line.at, addr |-> line.addr, bytes |-> line.bytes]

\* The lines that carry bytes.
Carrying == {line \in Listed : line.bytes # <<>>}

PiecesOf(lines) ==
  LET carrying == Picked(lines, Carrying)
  IN  [k \in DOMAIN carrying |-> Piece(carrying[k])]

LEMMA PiecesPast ==
  ASSUME NEW lines \in Seq(Listed), NEW x \in Listed, x.bytes = <<>>
  PROVE  PiecesOf(Append(lines, x)) = PiecesOf(lines)
<1>1. x \notin Carrying
  BY DEF Carrying
<1>2. PICK some \in Seq(Listed), more \in Seq(Listed) :
        /\ some = Picked(lines, Carrying) /\ more = Picked(Append(lines, x), Carrying)
        /\ more = IF x \in Carrying THEN Append(some, x) ELSE some
  BY PickedAppend
<1> QED
  BY <1>1, <1>2 DEF PiecesOf

LEMMA PiecesMore ==
  ASSUME NEW lines \in Seq(Listed), NEW x \in Listed, x.bytes # <<>>
  PROVE  PiecesOf(Append(lines, x)) = Append(PiecesOf(lines), Piece(x))
<1>1. x \in Carrying
  BY DEF Carrying
<1>2. PICK some \in Seq(Listed), more \in Seq(Listed) :
        /\ some = Picked(lines, Carrying) /\ more = Picked(Append(lines, x), Carrying)
        /\ more = IF x \in Carrying THEN Append(some, x) ELSE some
  BY PickedAppend
<1>3. PICK m \in Nat : m = Len(some)
  BY LenProperties
<1>4. /\ DOMAIN some = 1..m /\ DOMAIN more = 1..(m + 1)
      /\ more[m + 1] = x /\ \A k \in 1..m : more[k] = some[k]
  BY <1>1, <1>2, <1>3, AppendProperties, LenProperties, SMTT(30)
<1>5. PICK ps : ps = PiecesOf(lines)
  OBVIOUS
<1>6. PICK qs : qs = PiecesOf(Append(lines, x))
  OBVIOUS
<1>7. ps = [k \in 1..m |-> Piece(some[k])]
  BY <1>2, <1>4, <1>5 DEF PiecesOf
<1>8. qs = [k \in 1..(m + 1) |-> Piece(more[k])]
  BY <1>2, <1>4, <1>6 DEF PiecesOf
<1> DEFINE T == {ps[k] : k \in 1..m} \cup {qs[k] : k \in 1..(m + 1)}
<1>9. ps \in Seq(T) /\ Len(ps) = m
  <2>1. ps \in [1..m -> T]
    BY <1>7
  <2> HIDE DEF T
  <2> QED
    BY <2>1, SeqDef, LenProperties
<1>10. qs \in Seq(T) /\ Len(qs) = m + 1
  <2>1. qs \in [1..(m + 1) -> T]
    BY <1>8
  <2> HIDE DEF T
  <2> QED
    BY <2>1, SeqDef, LenProperties
<1>11. Piece(x) = qs[m + 1] /\ qs[m + 1] \in T
  BY <1>4, <1>8
<1> HIDE DEF T
<1>12. PICK rs : rs = Append(ps, Piece(x))
  OBVIOUS
<1>13. /\ rs \in Seq(T) /\ Len(rs) = m + 1
       /\ rs[m + 1] = Piece(x)
       /\ \A k \in 1..m : rs[k] = ps[k]
  BY <1>9, <1>11, <1>12, AppendProperties, SMTT(30)
<1>14. \A k \in 1..(m + 1) : rs[k] = qs[k]
  <2> TAKE k \in 1..(m + 1)
  <2>1. CASE k = m + 1
    BY <1>11, <1>13, <2>1
  <2>2. CASE k \in 1..m
    BY <1>4, <1>7, <1>8, <1>13, <2>2
  <2> QED
    BY <2>1, <2>2
<1>15. rs = qs
  BY <1>10, <1>13, <1>14, SeqEqual
<1> QED
  BY <1>5, <1>6, <1>12, <1>15

LEMMA PiecesAre ==
  ASSUME out \in Seq(Listed)
  PROVE  Pieces = PiecesOf(out)
<1>1. \A k \in DOMAIN out : out[k] \in Listed
  BY LenProperties, ElementOfSeq
<1>2. {k \in DOMAIN out : out[k].bytes # <<>>} = {k \in DOMAIN out : out[k] \in Carrying}
  BY <1>1 DEF Carrying
<1>3. Chosen(out, {k \in DOMAIN out : out[k].bytes # <<>>}) = Picked(out, Carrying)
  BY <1>2 DEF Picked
<1> QED
  BY <1>3 DEF Pieces, PiecesOf, Piece

\* A directive carries no bytes.
LEMMA PutCarriesNone ==
  ASSUME NEW lines \in Seq(Listed), NEW register, NEW old, NEW new,
         Line(<<>>, Directive(register, new)) \in Listed
  PROVE  PiecesOf(Put(lines, register, old, new)) = PiecesOf(lines)
<1>1. PICK line \in Listed : line = Line(<<>>, Directive(register, new))
  OBVIOUS
<1>2. line.bytes = <<>>
  BY <1>1 DEF Line
<1>3. PiecesOf(Append(lines, line)) = PiecesOf(lines)
  BY <1>2, PiecesPast
<1> QED
  BY <1>1, <1>3 DEF Put

\* A line of n bytes at the cursor is a line of the sweep.
LEMMA PieceOfSweep ==
  ASSUME pos \in Nat, NEW n, NEW line, line.at = pos, line.addr = Wrap16(origin + pos),
         line.bytes = SubSeq(code, pos + 1, pos + n)
  PROVE  Piece(line) = Listing!LineAt(pos, n)
<1>1. origin + pos = origin + pos \div 1
  BY SMT
<1>2. Wrap16(origin + pos) = Listing!WrapAddress(origin + pos \div 1)
  BY <1>1 DEF Wrap16, Listing!WrapAddress
<1> QED
  BY <1>2 DEF Piece, Listing!LineAt

LEMMA NotEmpty ==
  ASSUME NEW p \in Nat, NEW n \in Nat, n >= 1, p + n <= Len(code), code \in Seq(Byte)
  PROVE  SubSeq(code, p + 1, p + n) # <<>>
<1>1. PICK x : x = SubSeq(code, p + 1, p + n)
  OBVIOUS
<1>2. \A k \in (p + 1)..(p + n) : code[k] \in Byte
  BY LenProperties, ElementOfSeq
<1>3. x \in Seq(Byte) /\ Len(x) = IF p + 1 <= p + n THEN (p + n) - (p + 1) + 1 ELSE 0
  BY <1>1, <1>2, SubSeqProperties, SMTT(30)
<1>4. Len(x) # 0
  BY <1>3
<1> QED
  BY <1>1, <1>4, EmptySeq

\* Every behaviour of the disassembler is, its texts and directives left out,
\* a sweep: lines of at least one byte, without gaps, to the end of the buffer.
THEOREM SweepImplemented == Spec => Listing!Spec
<1>1. Init => Listing!Init
  <2> SUFFICES ASSUME Init PROVE Listing!Init
    OBVIOUS
  <2>1. code \in Seq(Byte) /\ origin \in Word16 /\ pos = 0 /\ out = <<>>
    BY CodesAreBytes, OriginsAreWords DEF Init
  <2>2. out \in Seq(Listed)
    BY <2>1, EmptySeq
  <2>3. Picked(<<>>, Carrying) = <<>>
    BY PickedNone
  <2>4. PiecesOf(<<>>) = <<>>
    <3>1. PICK carrying : carrying = Picked(<<>>, Carrying)
      OBVIOUS
    <3>2. [k \in DOMAIN carrying |-> Piece(carrying[k])] = <<>>
      BY <2>3, <3>1
    <3> QED
      BY <3>1, <3>2 DEF PiecesOf
  <2>5. Pieces = <<>>
    BY <2>1, <2>2, <2>4, PiecesAre
  <2> QED
    BY <2>1, <2>5 DEF Listing!Init
<1>2. TypeOK /\ TypeOK' /\ [Next]_vars => [Listing!Next]_(Listing!vars)
  <2> SUFFICES ASSUME TypeOK, TypeOK', [Next]_vars PROVE [Listing!Next]_(Listing!vars)
    OBVIOUS
  <2>1. out \in Seq(Listed) /\ out' \in Seq(Listed)
    <3>1. out \in Seq(Listed)
      BY AllListed DEF TypeOK
    <3>2. out' \in Seq({line \in Listed : line.at <= pos'})
      BY DEF TypeOK
    <3>3. \A k \in 1..Len(out') : out'[k] \in Listed
      BY <3>2, ElementOfSeq
    <3>4. out' \in [1..Len(out') -> Listed] /\ Len(out') \in Nat
      BY <3>2, <3>3, LenProperties
    <3> QED
      BY <3>1, <3>4, SeqDef
  <2>2. Pieces = PiecesOf(out) /\ Pieces' = PiecesOf(out')
    <3>1. Pieces = PiecesOf(out)
      BY <2>1, PiecesAre
    <3>2. \A k \in DOMAIN out' : out'[k] \in Listed
      BY <2>1, LenProperties, ElementOfSeq
    <3>3. {k \in DOMAIN out' : out'[k].bytes # <<>>} = {k \in DOMAIN out' : out'[k] \in Carrying}
      BY <3>2 DEF Carrying
    <3>4. Chosen(out', {k \in DOMAIN out' : out'[k].bytes # <<>>}) = Picked(out', Carrying)
      BY <3>3 DEF Picked
    <3>5. Pieces' = PiecesOf(out')
      BY <3>4 DEF Pieces, PiecesOf, Piece
    <3> QED
      BY <3>1, <3>5
  <2>3. CASE EmitInstruction
    <3>1. PICK f : Emits(f)
      BY <2>3, InstructionEmits
    <3>2. /\ code \in Seq(Byte) /\ pos \in Nat /\ FormLen(f) \in Nat /\ FormLen(f) >= 1
          /\ pos' = pos + FormLen(f) /\ pos + FormLen(f) <= Len(code) /\ Len(code) \in Nat
          /\ a' \in {1, 2} /\ i' \in {1, 2} /\ origin \in Word16
          /\ UNCHANGED <<code, origin>>
      BY <3>1, EmitsMoves, LenProperties DEF Emits, TypeOK
    <3> DEFINE S == {line \in Listed : line.at <= pos}
    <3>3. PICK lines1 \in Seq(S), lines2 \in Seq(S) :
            /\ lines1 = Append(out, InstructionLine(f))
            /\ lines2 = Put(lines1, "a", a, a')
            /\ out' = Put(lines2, "i", i, i')
            /\ InstructionLine(f) \in S
      BY <3>1, EmitsLines
    <3>4. lines1 \in Seq(Listed) /\ lines2 \in Seq(Listed) /\ InstructionLine(f) \in Listed
      BY <3>3, AllListed
    <3>5. /\ Line(<<>>, Directive("a", a')) \in Listed
          /\ Line(<<>>, Directive("i", i')) \in Listed
      <4>1. Directive("a", a') \in Text /\ Directive("i", i') \in Text /\ <<>> \in Seq(Byte)
        BY <3>2, DirectiveIsText, EmptySeq
      <4> QED
        BY <3>2, <4>1, LineListed
    <3>6. PiecesOf(out') = PiecesOf(lines1)
      <4>1. PiecesOf(Put(lines1, "a", a, a')) = PiecesOf(lines1)
        BY <3>4, <3>5, PutCarriesNone
      <4>2. PiecesOf(Put(lines2, "i", i, i')) = PiecesOf(lines2)
        BY <3>4, <3>5, PutCarriesNone
      <4> QED
        BY <3>3, <4>1, <4>2
    <3>7. PICK line \in Listed :
            /\ line = InstructionLine(f)
            /\ line.at = pos /\ line.addr = Wrap16(origin + pos)
            /\ line.bytes = SubSeq(code, pos + 1, pos + FormLen(f))
      BY <3>4 DEF InstructionLine, Line
    <3>8. line.bytes # <<>>
      BY <3>2, <3>7, NotEmpty
    <3>9. PiecesOf(Append(out, line)) = Append(PiecesOf(out), Piece(line))
      BY <2>1, <3>8, PiecesMore
    <3>10. Piece(line) = Listing!LineAt(pos, FormLen(f))
      BY <3>2, <3>7, PieceOfSweep
    <3>11. Pieces' = Append(Pieces, Listing!LineAt(pos, FormLen(f)))
      BY <2>2, <3>3, <3>6, <3>7, <3>9, <3>10
    <3>12. FormLen(f) \in 1..(Len(code) - pos)
      BY <3>2
    <3>13. Listing!Emit
      BY <3>2, <3>11, <3>12 DEF Listing!Emit
    <3> QED
      BY <3>13 DEF Listing!Next
  <2>4. CASE EmitData
    <3>1. PICK line : line = Line(<<code[pos + 1]>>, Datum(code[pos + 1]))
      OBVIOUS
    <3>2. /\ out' = Append(out, line) /\ line \in Listed
          /\ line.at = pos /\ line.addr = Wrap16(origin + pos)
          /\ line.bytes = <<code[pos + 1]>>
          /\ pos \in Nat /\ pos' = pos + 1 /\ pos + 1 <= Len(code)
      BY <2>4, <3>1, EmitDataIs
    <3>3. code \in Seq(Byte) /\ Len(code) \in Nat /\ UNCHANGED <<code, origin>>
      BY <2>4, LenProperties DEF TypeOK, EmitData
    <3>4. line.bytes = SubSeq(code, pos + 1, pos + 1)
      BY <3>2, <3>3, OneByteOf
    <3>5. line.bytes # <<>>
      BY <3>2
    <3>6. PiecesOf(Append(out, line)) = Append(PiecesOf(out), Piece(line))
      BY <2>1, <3>2, <3>5, PiecesMore
    <3>7. Piece(line) = Listing!LineAt(pos, 1)
      BY <3>2, <3>4, PieceOfSweep
    <3>8. Pieces' = Append(Pieces, Listing!LineAt(pos, 1))
      BY <2>2, <3>2, <3>6, <3>7
    <3>9. 1 \in 1..(Len(code) - pos)
      BY <3>2, <3>3
    <3>10. Listing!Emit
      BY <3>2, <3>3, <3>8, <3>9 DEF Listing!Emit
    <3> QED
      BY <3>10 DEF Listing!Next
  <2>5. CASE Return \/ UNCHANGED vars
    <3>1. UNCHANGED <<code, origin, pos>> /\ Pieces' = Pieces
      BY <2>5 DEF Return, vars, Pieces
    <3> QED
      BY <3>1 DEF Listing!vars
  <2> QED
    BY <2>3, <2>4, <2>5 DEF Next
<1> QED
  BY <1>1, <1>2, TypeCorrect, PTL DEF Spec, Listing!Spec

==============================================================================
