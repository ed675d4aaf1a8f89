-------------------------- MODULE ByteDisasmProofs ---------------------------
(***************************************************************************)
(* The disassembler of the byte-opcode CPUs proved right for every buffer, *)
(* every load address and every well-formed table whose texts tell the     *)
(* encodings apart; and the debugger's way into the 6502's, where the rows *)
(* are told apart by their first byte.                                     *)
(***************************************************************************)
EXTENDS Disasm6502, WordLemmas, SequenceTheorems

------------------------------------------------------------------------------
(* Rows and their slots *)

\* The three slot widths of a row, and what the length of the row is made of.
LEMMA RowShape ==
  ASSUME NEW f \in Table
  PROVE  /\ f.opcode \in Seq(Byte) /\ Len(f.opcode) \in Nat /\ Len(f.opcode) >= 1
         /\ Len(f.opcode) \in OpcodeLens
         /\ f.suffix \in Seq(Byte) /\ Len(f.suffix) \in Nat
         /\ Width(f, 1) \in 0..2 /\ Width(f, 2) \in 0..2 /\ Width(f, 3) \in 0..2
         /\ DOMAIN f.operands \subseteq 1..3
         /\ \A s \in DOMAIN f.operands :
              /\ f.operands[s] \in [kind : OperandKind, bytes : 1..2]
              /\ ReadsAsDeclared(f.operands[s])
              /\ Width(f, s) = f.operands[s].bytes
<1>1. /\ f.opcode \in Seq(Byte) /\ Len(f.opcode) \in OpcodeLens
      /\ f.suffix \in Seq(Byte)
      /\ Len(f.operands) \in 0..MaxSlots
      /\ f.operands \in Seq([kind : OperandKind, bytes : 1..2])
      /\ \A s \in DOMAIN f.operands : ReadsAsDeclared(f.operands[s])
  BY TableIsWellFormed
<1>2. DOMAIN f.operands = 1..Len(f.operands)
  BY <1>1
<1>3. \A s \in DOMAIN f.operands : f.operands[s] \in [kind : OperandKind, bytes : 1..2]
  BY <1>1, <1>2, ElementOfSeq
<1>4. \A s \in {1, 2, 3} : Width(f, s) \in 0..2
  BY <1>3 DEF Width
<1>5. DOMAIN f.operands \subseteq 1..3
  BY <1>1, <1>2 DEF MaxSlots
<1>6. \A s \in DOMAIN f.operands : Width(f, s) = f.operands[s].bytes
  BY DEF Width
<1>7. Len(f.opcode) >= 1
  <2>1. PICK m \in OpcodeLens : m = Len(f.opcode)
    BY <1>1, Zenon
  <2>2. m >= 1
    BY DEF OpcodeLens
  <2> QED
    BY <2>1, <2>2, Zenon
<1> QED
  BY <1>1, <1>3, <1>4, <1>5, <1>6, <1>7, LenProperties

\* The lengths are natural numbers, and a row is never empty.
LEMMA RowLength ==
  ASSUME NEW f \in Table
  PROVE  /\ OperandLen(f) \in Nat
         /\ FormLen(f) \in Nat /\ FormLen(f) >= 1
         /\ FormLen(f) = Len(f.opcode) + OperandLen(f) + Len(f.suffix)
         /\ \A s \in 1..3 : Offset(f, s) \in Nat /\ Offset(f, s) + Width(f, s) <= OperandLen(f)
<1>1. OperandLen(f) \in Nat
  BY RowShape DEF OperandLen
<1>2. \A s \in 1..3 : Offset(f, s) \in Nat /\ Offset(f, s) + Width(f, s) <= OperandLen(f)
  <2>1. Offset(f, 1) = 0 /\ Offset(f, 2) = Width(f, 1) /\ Offset(f, 3) = Width(f, 1) + Width(f, 2)
    BY RowShape DEF Offset
  <2> QED
    BY <2>1, RowShape DEF OperandLen
<1> QED
  BY <1>1, <1>2, RowShape, SMTT(30) DEF FormLen

\* A row that matches lies inside the buffer, opcode and suffix in place.
LEMMA ReadingLies ==
  ASSUME NEW c \in Seq(Byte), NEW p \in Nat, p < Len(c), NEW f \in Readings(c, p)
  PROVE  /\ f \in Table
         /\ p + FormLen(f) <= Len(c)
         /\ SubSeq(c, p + 1, p + Len(f.opcode)) = f.opcode
         /\ SubSeq(c, p + Len(f.opcode) + OperandLen(f) + 1, p + FormLen(f)) = f.suffix
<1>1. c[p + 1] \in Byte
  BY ElementOfSeq
<1>2. f \in Table /\ Matches(f, c, p)
  BY <1>1 DEF Readings, StartingWith
<1>3. FormLen(f) = Len(f.opcode) + OperandLen(f) + Len(f.suffix)
  BY <1>2, RowLength
<1>4. p \in Nat /\ Len(f.opcode) \in Nat /\ OperandLen(f) \in Nat /\ Len(f.suffix) \in Nat
  BY <1>2, RowLength, RowShape
<1>5. p + FormLen(f) = p + Len(f.opcode) + OperandLen(f) + Len(f.suffix)
  BY <1>3, <1>4
<1> QED
  BY <1>2, <1>5 DEF Matches

------------------------------------------------------------------------------
(* Reading an operand and laying it down again *)

LEMMA WordFits ==
  ASSUME NEW op, ~Signed(op), op.bytes # 1, NEW v \in Word16
  PROVE  v \in Int /\ Fits(op, v)
<1>1. Fits(op, v)
  BY Zenon DEF Fits
<1> QED
  BY <1>1, WordIsInt

\* The value read from a slot is in the slot's range and lays down the bytes
\* it was read from.
LEMMA SlotRoundTrip ==
  ASSUME NEW c \in Seq(Byte), NEW q \in Nat, NEW e,
         NEW op \in [kind : OperandKind, bytes : 1..2], ReadsAsDeclared(op),
         NEW n \in 1..2, n = op.bytes,
         NEW r \in Nat, r = q + n, r <= Len(c),
         NEW v, v = OperandValue(op, e, c, q)
  PROVE  /\ v \in Int
         /\ Fits(op, v)
         /\ OperandBytes(op, e, v) = Slice(c, q, r)
<1>1. CASE n = 1
  <2>1. q + 1 <= Len(c)
    BY <1>1
  <2>2. PICK b \in Byte : b = c[q + 1]
    BY <2>1, OneByte
  <2>3. Slice(c, q, r) = <<b>>
    BY <1>1, <2>1, <2>2, OneByte DEF Slice
  <2>4. v \in Int /\ Fits(op, v) /\ LoByte(v) = b
    <3>1. CASE Signed(op)
      <4>1. v = AsI8(b)
        BY <2>2, <3>1 DEF OperandValue
      <4>2. v \in -128..127 /\ LoByte(v) = b
        BY <4>1, SignedByteRoundTrip
      <4> QED
        BY <3>1, <4>2 DEF Fits
    <3>2. CASE ~Signed(op)
      <4>1. v = b
        BY <1>1, <2>2, <3>2 DEF OperandValue
      <4>2. v \in 0..255 /\ LoByte(v) = b
        BY <4>1, ByteRoundTrip
      <4>3. Fits(op, v)
        BY <1>1, <3>2, <4>1, Zenon DEF Fits
      <4> QED
        BY <4>2, <4>3
    <3> QED
      BY <3>1, <3>2
  <2>5. OperandBytes(op, e, v) = <<b>>
    BY <1>1, <2>4 DEF OperandBytes
  <2> QED
    BY <2>3, <2>4, <2>5
<1>2. CASE n = 2
  <2>1. ~Signed(op) /\ q + 2 <= Len(c)
    BY <1>2 DEF ReadsAsDeclared
  <2>2. PICK b1 \in Byte, b2 \in Byte : b1 = c[q + 1] /\ b2 = c[q + 2]
    BY <2>1, TwoBytes
  <2>3. Slice(c, q, r) = <<b1, b2>>
    BY <1>2, <2>1, <2>2, TwoBytes DEF Slice
  <2>4. \/ HighByteFirst(op, e) /\ v = WordOf(b2, b1)
        \/ ~HighByteFirst(op, e) /\ v = WordOf(b1, b2)
    BY <1>2, <2>1, <2>2 DEF OperandValue
  <2>5. v \in Word16
    BY <2>4, WordRoundTrip
  <2>6. OperandBytes(op, e, v) = <<b1, b2>>
    <3>1. CASE HighByteFirst(op, e)
      <4>1. LoByte(v) = b2 /\ HiByte(v) = b1
        BY <2>4, <3>1, WordRoundTrip
      <4> QED
        BY <1>2, <3>1, <4>1 DEF OperandBytes
    <3>2. CASE ~HighByteFirst(op, e)
      <4>1. LoByte(v) = b1 /\ HiByte(v) = b2
        BY <2>4, <3>2, WordRoundTrip
      <4> QED
        BY <1>2, <3>2, <4>1 DEF OperandBytes
    <3> QED
      BY <3>1, <3>2
  <2>7. op.bytes # 1
    BY <1>2
  <2>8. v \in Int /\ Fits(op, v)
    BY <2>1, <2>5, <2>7, WordFits
  <2> QED
    BY <2>3, <2>6, <2>8
<1> QED
  BY <1>1, <1>2

------------------------------------------------------------------------------
(* Putting an instruction together again *)

\* Slot s of f lies from offset q up to offset r.
Spans(f, s, q, r) == r = q + Width(f, s)

\* What is laid down for a slot is what stands there; nothing for a slot the
\* row does not have.
LEMMA SlotLaid ==
  ASSUME NEW c \in Seq(Byte), NEW f \in Table, NEW s \in 1..3,
         NEW q \in Nat, NEW r \in Nat, Spans(f, s, q, r), r <= Len(c),
         NEW values,
         s \in DOMAIN f.operands =>
           values[s] = OperandValue(f.operands[s], f.endianness, c, q)
  PROVE  Laid(f, values, s) = Slice(c, q, r)
<1>0. r = q + Width(f, s)
  BY DEF Spans
<1>1. CASE s \in DOMAIN f.operands
  <2>1. PICK op : op = f.operands[s]
    OBVIOUS
  <2>2. op \in [kind : OperandKind, bytes : 1..2] /\ ReadsAsDeclared(op)
    BY <1>1, <2>1, RowShape
  <2>3. PICK n \in 1..2 : n = op.bytes
    BY <2>2
  <2>4. n = Width(f, s)
    BY <1>1, <2>1, <2>3, RowShape
  <2>5. r = q + n
    BY <1>0, <2>4
  <2>6. PICK v : v = OperandValue(op, f.endianness, c, q)
    OBVIOUS
  <2>7. OperandBytes(op, f.endianness, v) = Slice(c, q, r)
    BY <2>2, <2>3, <2>5, <2>6, SlotRoundTrip
  <2>8. Laid(f, values, s) = OperandBytes(op, f.endianness, v)
    BY <1>1, <2>1, <2>6 DEF Laid
  <2> QED
    BY <2>7, <2>8
<1>2. CASE s \notin DOMAIN f.operands
  <2>1. Width(f, s) = 0 /\ Laid(f, values, s) = <<>>
    BY <1>2 DEF Width, Laid
  <2>2. r = q
    BY <1>0, <2>1
  <2>3. SubSeq(c, q + 1, q) = <<>>
    BY SubSeqEmpty
  <2> QED
    BY <2>1, <2>2, <2>3 DEF Slice
<1> QED
  BY <1>1, <1>2

\* Where the parts of a row that matches at p lie: opcode, three slots,
\* suffix, each from one of the offsets p, q1, q2, q3, q4, q5 to the next.
PartsAt(f, c, p, q1, q2, q3, q4, q5) ==
  /\ p <= q1 /\ q1 <= q2 /\ q2 <= q3 /\ q3 <= q4 /\ q4 <= q5 /\ q5 <= Len(c)
  /\ Spans(f, 1, q1, q2) /\ Spans(f, 2, q2, q3) /\ Spans(f, 3, q3, q4)
  /\ SlotAt(f, p, 1) = q1 /\ SlotAt(f, p, 2) = q2 /\ SlotAt(f, p, 3) = q3
  /\ f.opcode = Slice(c, p, q1)
  /\ f.suffix = Slice(c, q4, q5)
  /\ q5 = p + FormLen(f)

LEMMA Parts ==
  ASSUME NEW c \in Seq(Byte), NEW p \in Nat, p < Len(c), NEW f \in Readings(c, p)
  PROVE  \E q1, q2, q3, q4, q5 \in Nat : PartsAt(f, c, p, q1, q2, q3, q4, q5)
<1>1. /\ f \in Table
      /\ p + FormLen(f) <= Len(c)
      /\ SubSeq(c, p + 1, p + Len(f.opcode)) = f.opcode
      /\ SubSeq(c, p + Len(f.opcode) + OperandLen(f) + 1, p + FormLen(f)) = f.suffix
  BY ReadingLies
<1>2. PICK k \in Nat, w1 \in 0..2, w2 \in 0..2, w3 \in 0..2, n \in Nat :
        /\ k = Len(f.opcode)
        /\ w1 = Width(f, 1) /\ w2 = Width(f, 2) /\ w3 = Width(f, 3)
        /\ n = Len(f.suffix)
  BY <1>1, RowShape
<1>3. PICK q1 \in Nat, q2 \in Nat, q3 \in Nat, q4 \in Nat, q5 \in Nat :
        q1 = p + k /\ q2 = q1 + w1 /\ q3 = q2 + w2 /\ q4 = q3 + w3 /\ q5 = q4 + n
  OBVIOUS
<1>4. p <= q1 /\ q1 <= q2 /\ q2 <= q3 /\ q3 <= q4 /\ q4 <= q5
  BY <1>3
<1>5. OperandLen(f) = w1 + w2 + w3
  BY <1>2, Zenon DEF OperandLen
<1>6. FormLen(f) = k + (w1 + w2 + w3) + n
  BY <1>2, <1>5, Zenon DEF FormLen
<1>7. q5 = p + FormLen(f)
  <2>1. q5 = p + (k + (w1 + w2 + w3) + n)
    BY <1>3
  <2> QED
    BY <2>1, <1>6, Zenon
<1>8. q5 <= Len(c)
  BY <1>1, <1>7, Zenon
<1>9. f.opcode = Slice(c, p, q1)
  BY <1>1, <1>2, <1>3, Zenon DEF Slice
<1>10. f.suffix = Slice(c, q4, q5)
  <2>1. p + k + (w1 + w2 + w3) + 1 = q4 + 1
    BY <1>3
  <2>2. SubSeq(c, p + k + (w1 + w2 + w3) + 1, q5) = f.suffix
    BY <1>1, <1>2, <1>5, <1>7, Zenon
  <2> QED
    BY <2>1, <2>2, Zenon DEF Slice
<1>11. SlotAt(f, p, 1) = q1 /\ SlotAt(f, p, 2) = q2 /\ SlotAt(f, p, 3) = q3
  <2>1. Offset(f, 1) = 0 /\ Offset(f, 2) = w1 /\ Offset(f, 3) = w1 + w2
    BY <1>2 DEF Offset
  <2>2. /\ SlotAt(f, p, 1) = p + k + 0
        /\ SlotAt(f, p, 2) = p + k + w1
        /\ SlotAt(f, p, 3) = p + k + (w1 + w2)
    BY <1>2, <2>1, Zenon DEF SlotAt
  <2>3. p + k + 0 = q1 /\ p + k + w1 = q2 /\ p + k + (w1 + w2) = q3
    BY <1>3
  <2> QED
    BY <2>2, <2>3, Zenon
<1>12. Spans(f, 1, q1, q2) /\ Spans(f, 2, q2, q3) /\ Spans(f, 3, q3, q4)
  BY <1>2, <1>3, Zenon DEF Spans
<1>13. PartsAt(f, c, p, q1, q2, q3, q4, q5)
  BY <1>4, <1>7, <1>8, <1>9, <1>10, <1>11, <1>12, Zenon DEF PartsAt
<1> QED
  BY <1>13

\* The values read for a row that matches encode to the bytes it matches.
LEMMA EncodesBack ==
  ASSUME NEW c \in Seq(Byte), NEW p \in Nat, p < Len(c), NEW f \in Readings(c, p),
         NEW values,
         \A s \in DOMAIN f.operands :
           values[s] = OperandValue(f.operands[s], f.endianness, c, SlotAt(f, p, s))
  PROVE  Encode(f, values) = SubSeq(c, p + 1, p + FormLen(f))
<1>1. f \in Table
  BY ReadingLies
<1>2. PICK q1, q2, q3, q4, q5 \in Nat : PartsAt(f, c, p, q1, q2, q3, q4, q5)
  BY Parts
<1>3. PICK m \in Nat : m = Len(c)
  BY LenProperties
<1>4. p <= q1 /\ q1 <= q2 /\ q2 <= q3 /\ q3 <= q4 /\ q4 <= q5 /\ q5 <= m
  BY <1>2, <1>3, Zenon DEF PartsAt
<1>5. /\ q2 <= m /\ q3 <= m /\ q4 <= m
      /\ p <= q2 /\ p <= q3 /\ p <= q4
  BY <1>4
<1>6. q2 <= Len(c) /\ q3 <= Len(c) /\ q4 <= Len(c) /\ q5 <= Len(c)
  BY <1>3, <1>4, <1>5, Zenon
<1>7. Laid(f, values, 1) = Slice(c, q1, q2)
  <2>1. Spans(f, 1, q1, q2) /\ SlotAt(f, p, 1) = q1
    BY <1>2, Zenon DEF PartsAt
  <2>2. 1 \in DOMAIN f.operands =>
          values[1] = OperandValue(f.operands[1], f.endianness, c, q1)
    BY <2>1, Zenon
  <2>3. 1 \in 1..3
    OBVIOUS
  <2> QED
    BY <1>1, <1>6, <2>1, <2>2, <2>3, SlotLaid
<1>8. Laid(f, values, 2) = Slice(c, q2, q3)
  <2>1. Spans(f, 2, q2, q3) /\ SlotAt(f, p, 2) = q2
    BY <1>2, Zenon DEF PartsAt
  <2>2. 2 \in DOMAIN f.operands =>
          values[2] = OperandValue(f.operands[2], f.endianness, c, q2)
    BY <2>1, Zenon
  <2>3. 2 \in 1..3
    OBVIOUS
  <2> QED
    BY <1>1, <1>6, <2>1, <2>2, <2>3, SlotLaid
<1>9. Laid(f, values, 3) = Slice(c, q3, q4)
  <2>1. Spans(f, 3, q3, q4) /\ SlotAt(f, p, 3) = q3
    BY <1>2, Zenon DEF PartsAt
  <2>2. 3 \in DOMAIN f.operands =>
          values[3] = OperandValue(f.operands[3], f.endianness, c, q3)
    BY <2>1, Zenon
  <2>3. 3 \in 1..3
    OBVIOUS
  <2> QED
    BY <1>1, <1>6, <2>1, <2>2, <2>3, SlotLaid
<1>10. f.opcode = Slice(c, p, q1) /\ f.suffix = Slice(c, q4, q5) /\ q5 = p + FormLen(f)
  BY <1>2, Zenon DEF PartsAt
<1>11. f.opcode \o Laid(f, values, 1) = Slice(c, p, q2)
  <2>1. Slice(c, p, q1) \o Slice(c, q1, q2) = Slice(c, p, q2)
    BY <1>4, <1>6, Adjacent, ZenonT(60)
  <2> QED
    BY <2>1, <1>7, <1>10, Zenon
<1>12. (f.opcode \o Laid(f, values, 1)) \o Laid(f, values, 2) = Slice(c, p, q3)
  <2>1. Slice(c, p, q2) \o Slice(c, q2, q3) = Slice(c, p, q3)
    BY <1>4, <1>5, <1>6, Adjacent, ZenonT(60)
  <2> QED
    BY <2>1, <1>8, <1>11, Zenon
<1>13. ((f.opcode \o Laid(f, values, 1)) \o Laid(f, values, 2)) \o Laid(f, values, 3)
         = Slice(c, p, q4)
  <2>1. Slice(c, p, q3) \o Slice(c, q3, q4) = Slice(c, p, q4)
    BY <1>4, <1>5, <1>6, Adjacent, ZenonT(60)
  <2> QED
    BY <2>1, <1>9, <1>12, Zenon
<1>14. Encode(f, values) = Slice(c, p, q5)
  <2>1. Slice(c, p, q4) \o Slice(c, q4, q5) = Slice(c, p, q5)
    BY <1>4, <1>5, <1>6, Adjacent, ZenonT(60)
  <2> QED
    BY <2>1, <1>10, <1>13, Zenon DEF Encode
<1> QED
  BY <1>10, <1>14, Zenon DEF Slice

------------------------------------------------------------------------------
(* Reading the text of a line *)

\* The value read from a slot is one the assembler accepts for it.
LEMMA ValuesFit ==
  ASSUME NEW c \in Seq(Byte), NEW p \in Nat, p < Len(c), NEW f \in Readings(c, p),
         NEW s \in DOMAIN f.operands, NEW v,
         v = OperandValue(f.operands[s], f.endianness, c, SlotAt(f, p, s))
  PROVE  v \in Int /\ Fits(f.operands[s], v)
<1>1. f \in Table /\ s \in 1..3
  BY ReadingLies, RowShape
<1>2. PICK q1, q2, q3, q4, q5 \in Nat : PartsAt(f, c, p, q1, q2, q3, q4, q5)
  BY Parts
<1>3. q2 <= Len(c) /\ q3 <= Len(c) /\ q4 <= Len(c)
  <2>1. PICK m \in Nat : m = Len(c)
    BY LenProperties
  <2>2. q2 <= q3 /\ q3 <= q4 /\ q4 <= q5 /\ q5 <= m
    BY <1>2, <2>1, Zenon DEF PartsAt
  <2>3. q2 <= m /\ q3 <= m /\ q4 <= m
    BY <2>2
  <2> QED
    BY <2>1, <2>3, Zenon
<1>4. PICK q \in Nat, r \in Nat : SlotAt(f, p, s) = q /\ Spans(f, s, q, r) /\ r <= Len(c)
  <2>1. /\ SlotAt(f, p, 1) = q1 /\ Spans(f, 1, q1, q2)
        /\ SlotAt(f, p, 2) = q2 /\ Spans(f, 2, q2, q3)
        /\ SlotAt(f, p, 3) = q3 /\ Spans(f, 3, q3, q4)
    BY <1>2, Zenon DEF PartsAt
  <2>2. s = 1 \/ s = 2 \/ s = 3
    BY <1>1
  <2> QED
    BY <1>3, <2>1, <2>2, Zenon
<1>5. PICK op : op = f.operands[s]
  OBVIOUS
<1>6. op \in [kind : OperandKind, bytes : 1..2] /\ ReadsAsDeclared(op)
  BY <1>1, <1>5, RowShape
<1>7. PICK n \in 1..2 : n = op.bytes
  BY <1>6
<1>8. r = q + n
  <2>1. n = Width(f, s)
    BY <1>1, <1>5, <1>7, RowShape
  <2> QED
    BY <1>4, <2>1, Zenon DEF Spans
<1>9. v = OperandValue(op, f.endianness, c, q)
  BY <1>4, <1>5, Zenon
<1>10. v \in Int /\ Fits(op, v)
  BY <1>4, <1>6, <1>7, <1>8, <1>9, SlotRoundTrip
<1> QED
  BY <1>5, <1>10, Zenon

\* A branch printed as its target is stored as the offset it was read from.
LEMMA TargetParses ==
  ASSUME NEW next \in Word16, NEW v \in -128..127
  PROVE  Distance(Wrap16(next + v), next) = v
<1>1. next \in Int /\ Wrap16(next) = next
  BY WrapOfWord
<1>2. AsI16(Wrap16(Wrap16(next + v) - Wrap16(next))) = v
  BY <1>1, BranchRoundTrip
<1> QED
  BY <1>1, <1>2, Zenon DEF Distance

\* Whichever row of its name a line is read by, the numbers printed in it
\* parse to the values they were printed for.
LEMMA ShownParses ==
  ASSUME NEW c \in Seq(Byte), NEW p \in Nat, p < Len(c), NEW f \in Readings(c, p),
         NEW a \in Word16, NEW line,
         line.addr = a, line.text = Instruction(f, c, p, a),
         NEW g \in Table, SameEncoding(f, g), NEW s \in DOMAIN f.operands
  PROVE  Parsed(g, line)[s] = ReadOperands(f, c, p)[s]
<1>1. f \in Table
  BY ReadingLies
<1>2. PICK v : v = OperandValue(f.operands[s], f.endianness, c, SlotAt(f, p, s))
  OBVIOUS
<1>3. v \in Int /\ Fits(f.operands[s], v)
  BY <1>2, ValuesFit
<1>4. ReadOperands(f, c, p)[s] = v
  BY <1>2 DEF ReadOperands
<1>5. line.text.shown = RenderOperands(f, ReadOperands(f, c, p), a)
  BY DEF Instruction
<1>6. g.operands = f.operands /\ g.opcode = f.opcode /\ g.suffix = f.suffix
  BY DEF SameEncoding
<1>7. FormLen(g) = FormLen(f)
  BY <1>6 DEF FormLen, OperandLen, Width
<1>8. CASE f.operands[s].kind = "RelativePc"
  <2>1. PICK next : next = Wrap16(a + FormLen(f))
    OBVIOUS
  <2>2. next \in Word16
    <3>1. PICK n \in Nat : n = FormLen(f)
      BY <1>1, RowLength, SMTT(30)
    <3>2. a + n \in Int
      BY WordIsInt
    <3> QED
      BY <2>1, <3>1, <3>2, WrapIsWord, SMTT(30)
  <2>3. line.text.shown[s] = Wrap16(next + v)
    BY <1>4, <1>5, <1>8, <2>1, Zenon DEF RenderOperands
  <2>4. Parsed(g, line)[s] = Distance(Wrap16(next + v), next)
    BY <1>6, <1>7, <1>8, <2>1, <2>3, Zenon DEF Parsed
  <2>5. v \in -128..127
    BY <1>3, <1>8 DEF Fits, Signed
  <2> QED
    BY <1>4, <2>2, <2>4, <2>5, TargetParses
<1>9. CASE f.operands[s].kind # "RelativePc"
  <2>1. line.text.shown[s] = v
    BY <1>4, <1>5, <1>9, Zenon DEF RenderOperands
  <2> QED
    BY <1>4, <1>6, <1>9, <2>1, Zenon DEF Parsed
<1> QED
  BY <1>8, <1>9

\* Rows of one encoding lay down the same bytes for the same values.
LEMMA SameBytes ==
  ASSUME NEW f, NEW g, SameEncoding(f, g), NEW u, NEW w,
         \A s \in DOMAIN f.operands : u[s] = w[s]
  PROVE  Encode(f, u) = Encode(g, w)
<1>1. ASSUME NEW s PROVE Laid(f, u, s) = Laid(g, w, s)
  BY Zenon DEF Laid, SameEncoding
<1> QED
  BY <1>1, Zenon DEF Encode, SameEncoding

\* An instruction's text assembles to the bytes it was listed for, and to
\* nothing else.
LEMMA InstructionAssembles ==
  ASSUME NEW c \in Seq(Byte), NEW p \in Nat, p < Len(c), NEW f \in Readings(c, p),
         NEW a \in Word16, NEW line,
         line.addr = a, line.text = Instruction(f, c, p, a)
  PROVE  Assembled(line) = {SubSeq(c, p + 1, p + FormLen(f))}
<1>1. f \in Table
  BY ReadingLies
<1>2. line.text.kind = "instruction" /\ line.text.name = f.name
  BY DEF Instruction
<1>3. f.name \in Names
  BY <1>1 DEF Names
<1>4. ASSUME NEW g \in Table, g.name = f.name
      PROVE  /\ \A s \in DOMAIN g.operands : Fits(g.operands[s], Parsed(g, line)[s])
             /\ Encode(g, Parsed(g, line)) = SubSeq(c, p + 1, p + FormLen(f))
  <2>1. SameEncoding(f, g)
    BY <1>1, <1>4, NamesTellEncodings
  <2>2. g.operands = f.operands
    BY <2>1 DEF SameEncoding
  <2>3. \A s \in DOMAIN f.operands :
          /\ ReadOperands(f, c, p)[s]
               = OperandValue(f.operands[s], f.endianness, c, SlotAt(f, p, s))
          /\ Parsed(g, line)[s] = ReadOperands(f, c, p)[s]
    <3> TAKE s \in DOMAIN f.operands
    <3>1. ReadOperands(f, c, p)[s]
            = OperandValue(f.operands[s], f.endianness, c, SlotAt(f, p, s))
      BY DEF ReadOperands
    <3>2. Parsed(g, line)[s] = ReadOperands(f, c, p)[s]
      BY <2>1, ShownParses
    <3> QED
      BY <3>1, <3>2
  <2>4. \A s \in DOMAIN g.operands : Fits(g.operands[s], Parsed(g, line)[s])
    BY <2>2, <2>3, ValuesFit
  <2>5. Encode(f, ReadOperands(f, c, p)) = SubSeq(c, p + 1, p + FormLen(f))
    BY <2>3, EncodesBack
  <2>6. Encode(f, ReadOperands(f, c, p)) = Encode(g, Parsed(g, line))
    BY <2>1, <2>3, SameBytes
  <2> QED
    BY <2>4, <2>5, <2>6
<1>5. Named[f.name] = {g \in Table : g.name = f.name}
  BY <1>3 DEF Named
<1>6. Assembled(line) =
        {Encode(g, Parsed(g, line)) :
           g \in {h \in Named[f.name] :
                    \A s \in DOMAIN h.operands : Fits(h.operands[s], Parsed(h, line)[s])}}
  BY <1>2 DEF Assembled
<1> QED
  BY <1>1, <1>4, <1>5, <1>6

\* A data line assembles to its byte.
LEMMA DatumAssembles ==
  ASSUME NEW c \in Seq(Byte), NEW p \in Nat, p < Len(c), NEW line,
         line.text = Datum(c, p)
  PROVE  Assembled(line) = {SubSeq(c, p + 1, p + 1)}
<1>1. p + 1 <= Len(c)
  BY LenProperties
<1>2. SubSeq(c, p + 1, p + 1) = <<c[p + 1]>>
  BY <1>1, OneByte
<1>3. Assembled(line) = {<<c[p + 1]>>}
  BY DEF Assembled, Datum
<1> QED
  BY <1>2, <1>3

------------------------------------------------------------------------------
(* The sweep *)

Entry(n, text) == [at    |-> pos,
                   addr  |-> Wrap16(origin + pos),
                   bytes |-> SubSeq(code, pos + 1, pos + n),
                   text  |-> text]

Lines == Seq([at : Nat, addr : Word16, bytes : Seq(Byte), text : Text])

\* The text of an instruction is a text.
LEMMA InstructionIsText ==
  ASSUME NEW c \in Seq(Byte), NEW p \in Nat, p < Len(c), NEW f \in Readings(c, p),
         NEW a \in Word16
  PROVE  Instruction(f, c, p, a) \in Text
<1>1. f \in Table
  BY ReadingLies
<1>2. f.name \in Names
  BY <1>1 DEF Names
<1>3. PICK shown : shown = RenderOperands(f, ReadOperands(f, c, p), a)
  OBVIOUS
<1>4. PICK k \in Nat : DOMAIN f.operands = 1..k
  <2>1. f.operands \in Seq([kind : OperandKind, bytes : 1..2])
    BY <1>1, TableIsWellFormed
  <2> QED
    BY <2>1, LenProperties
<1>5. \A s \in 1..k : shown[s] \in Int
  <2> SUFFICES ASSUME NEW s \in DOMAIN f.operands PROVE shown[s] \in Int
    BY <1>4
  <2>1. PICK v : v = OperandValue(f.operands[s], f.endianness, c, SlotAt(f, p, s))
    OBVIOUS
  <2>2. v \in Int
    BY <2>1, ValuesFit
  <2>3. ReadOperands(f, c, p)[s] = v
    BY <2>1 DEF ReadOperands
  <2>4. PICK n \in Nat : n = FormLen(f)
    BY <1>1, RowLength
  <2>5. a + n \in Int
    BY WordIsInt
  <2>6. PICK next \in Word16 : next = Wrap16(a + n)
    BY <2>5, WrapIsWord, SMTT(30)
  <2>7. PICK target \in Int : target = next + v
    BY <2>2, WordIsInt
  <2>8. Wrap16(next + v) \in Int
    <3>1. Wrap16(target) \in Int
      BY WrapIsWord
    <3> QED
      BY <2>7, <3>1, Zenon
  <2>9. shown[s] = v \/ shown[s] = Wrap16(next + v)
    BY <1>3, <2>3, <2>4, <2>6, Zenon DEF RenderOperands
  <2> QED
    BY <2>2, <2>8, <2>9
<1>6. shown = [s \in 1..k |-> shown[s]]
  BY <1>3, <1>4, Zenon DEF RenderOperands
<1>7. shown \in [1..k -> Int]
  BY <1>5, <1>6
<1>8. shown \in Seq(Int)
  BY <1>7, SeqDef
<1>9. Instruction(f, c, p, a) = [kind |-> "instruction", name |-> f.name, shown |-> shown]
  BY <1>3 DEF Instruction
<1> QED
  BY <1>2, <1>8, <1>9 DEF Text

\* What a line of a step is: its bytes are there, its text assembles to them.
LEMMA StepPushes ==
  ASSUME TypeOK, EmitInstruction \/ EmitData
  PROVE  \E n \in Nat, text \in Text :
           /\ n >= 1 /\ pos + n <= Len(code)
           /\ Assembled(Entry(n, text)) = {Entry(n, text).bytes}
           /\ Push(n, text)
<1>1. code \in Seq(Byte) /\ origin \in Word16 /\ pos \in Nat /\ Len(code) \in Nat
  BY LenProperties DEF TypeOK
<1>2. pos < Len(code)
  BY DEF EmitInstruction, EmitData
<1>3. origin + pos \in Int
  BY <1>1, WordIsInt
<1>4. Wrap16(origin + pos) \in Word16
  BY <1>3, WrapIsWord, SMTT(30)
<1>5. CASE EmitInstruction
  <2>1. PICK f \in Readings(code, pos) :
          Push(FormLen(f), Instruction(f, code, pos, Wrap16(origin + pos)))
    BY <1>5 DEF EmitInstruction, FirstReadings
  <2>2. PICK n \in Nat : n = FormLen(f)
    BY <1>1, <1>2, <2>1, ReadingLies, RowLength
  <2>3. n >= 1 /\ pos + n <= Len(code)
    BY <1>1, <1>2, <2>1, <2>2, ReadingLies, RowLength
  <2>4. PICK text : text = Instruction(f, code, pos, Wrap16(origin + pos))
    OBVIOUS
  <2>5. text \in Text
    BY <1>1, <1>2, <1>4, <2>1, <2>4, InstructionIsText
  <2>6. PICK line : line = Entry(n, text)
    OBVIOUS
  <2>7. /\ line.addr = Wrap16(origin + pos)
        /\ line.text = Instruction(f, code, pos, Wrap16(origin + pos))
        /\ line.bytes = SubSeq(code, pos + 1, pos + n)
    BY <2>4, <2>6 DEF Entry
  <2>8. Assembled(line) = {SubSeq(code, pos + 1, pos + FormLen(f))}
    BY <1>1, <1>2, <1>4, <2>1, <2>7, InstructionAssembles
  <2> QED
    BY <2>1, <2>2, <2>3, <2>4, <2>5, <2>6, <2>7, <2>8
<1>6. CASE EmitData
  <2>1. PICK text : text = Datum(code, pos)
    OBVIOUS
  <2>2. Push(1, text)
    BY <1>6, <2>1 DEF EmitData
  <2>3. text \in Text
    <3>1. pos + 1 <= Len(code)
      BY <1>1, <1>2
    <3>2. code[pos + 1] \in Byte
      BY <1>1, <3>1, OneByte
    <3> QED
      BY <2>1, <3>2 DEF Datum, Text
  <2>4. PICK line : line = Entry(1, text)
    OBVIOUS
  <2>5. line.text = Datum(code, pos) /\ line.bytes = SubSeq(code, pos + 1, pos + 1)
    BY <2>1, <2>4 DEF Entry
  <2>6. Assembled(line) = {SubSeq(code, pos + 1, pos + 1)}
    BY <1>1, <1>2, <2>5, DatumAssembles
  <2>7. pos + 1 <= Len(code)
    BY <1>1, <1>2
  <2>8. Assembled(Entry(1, text)) = {Entry(1, text).bytes}
    BY <2>4, <2>5, <2>6, Zenon
  <2>9. 1 \in Nat /\ 1 >= 1
    OBVIOUS
  <2> QED
    BY <2>2, <2>3, <2>7, <2>8, <2>9
<1> QED
  BY <1>5, <1>6

\* Every state has the types the code gives its variables: the cursor never
\* leaves the buffer, every address is a u16, every line has a text.
THEOREM TypeCorrect == Spec => []TypeOK
<1>1. Init => TypeOK
  <2> SUFFICES ASSUME Init PROVE TypeOK
    OBVIOUS
  <2>1. code \in Seq(Byte) /\ origin \in Word16 /\ pos = 0 /\ out = <<>>
    BY CodesAreBytes, OriginsAreWords DEF Init
  <2>2. pos \in 0..Len(code)
    BY <2>1, LenProperties
  <2>3. out \in Lines
    BY <2>1 DEF Lines
  <2> QED
    BY <2>1, <2>2, <2>3 DEF TypeOK, Lines
<1>2. TypeOK /\ [Next]_vars => TypeOK'
  <2> SUFFICES ASSUME TypeOK, [Next]_vars PROVE TypeOK'
    OBVIOUS
  <2>1. CASE EmitInstruction \/ EmitData
    <3>1. PICK n \in Nat, text \in Text :
            n >= 1 /\ pos + n <= Len(code) /\ Push(n, text)
      BY <2>1, StepPushes
    <3>2. /\ code \in Seq(Byte) /\ origin \in Word16 /\ pos \in Nat
          /\ Len(code) \in Nat /\ out \in Lines
      BY LenProperties DEF TypeOK, Lines
    <3>3. out' = Append(out, Entry(n, text)) /\ pos' = pos + n /\ UNCHANGED <<code, origin>>
      BY <3>1 DEF Push, Entry
    <3>4. Entry(n, text) \in [at : Nat, addr : Word16, bytes : Seq(Byte), text : Text]
      <4>1. origin + pos \in Int
        BY <3>2, WordIsInt
      <4>2. Wrap16(origin + pos) \in Word16
        BY <4>1, WrapIsWord, SMTT(30)
      <4>3. SubSeq(code, pos + 1, pos + n) \in Seq(Byte)
        <5>1. pos + 1 \in 1..Len(code) + 1 /\ pos + n \in pos..Len(code)
          BY <3>1, <3>2
        <5>2. \A k \in pos + 1 .. pos + n : code[k] \in Byte
          BY <3>1, <3>2, ElementOfSeq
        <5> QED
          BY <3>2, <5>1, <5>2, SubSeqProperties, SMTT(30)
      <4> QED
        BY <3>1, <3>2, <4>2, <4>3, SMTT(30) DEF Entry
    <3>5. out' \in Lines
      BY <3>2, <3>3, <3>4, AppendProperties, SMTT(30) DEF Lines
    <3>6. pos' \in 0..Len(code)
      BY <3>1, <3>2, <3>3
    <3> QED
      BY <3>2, <3>3, <3>5, <3>6 DEF TypeOK, Lines
  <2>2. CASE UNCHANGED vars
    BY <2>2 DEF TypeOK, vars
  <2> QED
    BY <2>1, <2>2 DEF Next, Return
<1> QED
  BY <1>1, <1>2, PTL DEF Spec

\* "Round-trip is byte-exact": every line of every listing assembles to the
\* bytes it was listed for, and to nothing else.
THEOREM RoundTripHolds == Spec => []RoundTrip
<1>1. Init => RoundTrip
  BY DEF Init, RoundTrip
<1>2. TypeOK /\ RoundTrip /\ [Next]_vars => RoundTrip'
  <2> SUFFICES ASSUME TypeOK, RoundTrip, [Next]_vars PROVE RoundTrip'
    OBVIOUS
  <2>1. CASE EmitInstruction \/ EmitData
    <3>1. PICK n \in Nat, text \in Text :
            Assembled(Entry(n, text)) = {Entry(n, text).bytes} /\ Push(n, text)
      BY <2>1, StepPushes
    <3>2. PICK line : line = Entry(n, text)
      OBVIOUS
    <3>3. out \in Lines /\ out' = Append(out, line)
      BY <3>1, <3>2 DEF Push, Entry, TypeOK, Lines
    <3>4. PICK m \in Nat : m = Len(out)
      BY <3>3, LenProperties
    <3>5. /\ DOMAIN out' = 1..(m + 1)
          /\ out'[m + 1] = line
          /\ \A k \in 1..m : out'[k] = out[k]
      BY <3>3, <3>4
    <3>6. Assembled(line) = {line.bytes}
      BY <3>1, <3>2
    <3>7. \A k \in 1..m : Assembled(out[k]) = {out[k].bytes}
      <4>1. DOMAIN out = 1..m
        BY <3>3, <3>4, LenProperties DEF Lines
      <4> QED
        BY <4>1 DEF RoundTrip
    <3>8. ASSUME NEW k \in DOMAIN out' PROVE Assembled(out'[k]) = {out'[k].bytes}
      <4>1. k = m + 1 \/ k \in 1..m
        BY <3>5
      <4> QED
        BY <3>5, <3>6, <3>7, <4>1
    <3> QED
      BY <3>8 DEF RoundTrip
  <2>2. CASE UNCHANGED vars
    BY <2>2 DEF RoundTrip, vars
  <2> QED
    BY <2>1, <2>2 DEF Next, Return
<1> QED
  BY <1>1, <1>2, TypeCorrect, PTL DEF Spec

------------------------------------------------------------------------------
(* The disassembler implements the sweep *)

\* A line without its text.
Piece(line) == [at |-> line.at, addr |-> line.addr, bytes |-> line.bytes]

LEMMA PiecesOfAppend ==
  ASSUME NEW line, out \in Lines, out' = Append(out, line)
  PROVE  Pieces' = Append(Pieces, Piece(line))
<1>1. PICK m \in Nat : m = Len(out)
  BY LenProperties DEF Lines
<1>2. DOMAIN out = 1..m
  BY <1>1, LenProperties DEF Lines
<1>3. /\ DOMAIN out' = 1..(m + 1)
      /\ out'[m + 1] = line
      /\ \A k \in 1..m : out'[k] = out[k]
  BY <1>1 DEF Lines
<1>4. PICK ps : ps = Pieces
  OBVIOUS
<1>5. PICK qs : qs = Pieces'
  OBVIOUS
<1>6. ps = [k \in 1..m |-> Piece(out[k])]
  BY <1>2, <1>4 DEF Pieces, Piece
<1>7. qs = [k \in 1..(m + 1) |-> Piece(out'[k])]
  BY <1>3, <1>5 DEF Pieces, Piece
<1>8. DEFINE T == {ps[k] : k \in 1..m} \cup {qs[k] : k \in 1..(m + 1)}
<1>9. ps \in Seq(T) /\ Len(ps) = m
  <2>1. ps \in [1..m -> T]
    BY <1>6
  <2> HIDE DEF T
  <2> QED
    BY <2>1, SeqDef, LenProperties
<1>10. qs \in Seq(T) /\ Len(qs) = m + 1
  <2>1. qs \in [1..(m + 1) -> T]
    BY <1>7
  <2> HIDE DEF T
  <2> QED
    BY <2>1, SeqDef, LenProperties
<1>11. Piece(line) = qs[m + 1] /\ qs[m + 1] \in T
  BY <1>3, <1>7
<1> HIDE DEF T
<1>12. PICK rs : rs = Append(ps, Piece(line))
  OBVIOUS
<1>13. /\ rs \in Seq(T) /\ Len(rs) = m + 1
       /\ rs[m + 1] = Piece(line)
       /\ \A k \in 1..m : rs[k] = ps[k]
  BY <1>9, <1>11, <1>12, AppendProperties, SMTT(30)
<1>14. \A k \in 1..(m + 1) : rs[k] = qs[k]
  <2> TAKE k \in 1..(m + 1)
  <2>1. CASE k = m + 1
    BY <1>11, <1>13, <2>1
  <2>2. CASE k \in 1..m
    BY <1>3, <1>6, <1>7, <1>13, <2>2
  <2> QED
    BY <2>1, <2>2
<1>15. rs = qs
  BY <1>10, <1>13, <1>14, SeqEqual
<1> QED
  BY <1>5, <1>12, <1>15, <1>4

\* Every behaviour of the disassembler is, its texts left out, a sweep: lines
\* of at least one byte that is there, one after the other, up to the end.
THEOREM SweepImplemented == Spec => Listing!Spec
<1>1. Init => Listing!Init
  <2> SUFFICES ASSUME Init PROVE Listing!Init
    OBVIOUS
  <2>1. code \in Seq(Byte) /\ origin \in Word16 /\ pos = 0 /\ out = <<>>
    BY CodesAreBytes, OriginsAreWords DEF Init
  <2>2. Pieces = <<>>
    BY <2>1 DEF Pieces
  <2> QED
    BY <2>1, <2>2 DEF Listing!Init
<1>2. TypeOK /\ [Next]_vars => [Listing!Next]_(Listing!vars)
  <2> SUFFICES ASSUME TypeOK, [Next]_vars PROVE [Listing!Next]_(Listing!vars)
    OBVIOUS
  <2>1. CASE EmitInstruction \/ EmitData
    <3>1. PICK n \in Nat, text \in Text :
            n >= 1 /\ pos + n <= Len(code) /\ Push(n, text)
      BY <2>1, StepPushes
    <3>2. out \in Lines /\ pos \in Nat /\ Len(code) \in Nat
      BY LenProperties DEF TypeOK, Lines
    <3>3. n \in 1..(Len(code) - pos)
      BY <3>1, <3>2
    <3>4. out' = Append(out, Entry(n, text)) /\ pos' = pos + n /\ UNCHANGED <<code, origin>>
      BY <3>1 DEF Push, Entry
    <3>5. Pieces' = Append(Pieces, Piece(Entry(n, text)))
      BY <3>2, <3>4, PiecesOfAppend
    <3>6. Piece(Entry(n, text)) = Listing!LineAt(pos, n)
      <4>1. pos \div 1 = pos
        BY <3>2
      <4>2. origin + pos = origin + pos \div 1
        BY <4>1
      <4>3. Wrap16(origin + pos) = Listing!WrapAddress(origin + pos \div 1)
        BY <4>2 DEF Wrap16, Listing!WrapAddress
      <4> QED
        BY <4>3 DEF Piece, Entry, Listing!LineAt
    <3>7. Listing!Emit
      BY <3>3, <3>4, <3>5, <3>6 DEF Listing!Emit
    <3> QED
      BY <3>7 DEF Listing!Next
  <2>2. CASE UNCHANGED vars
    <3>1. UNCHANGED <<code, origin, pos>> /\ Pieces' = Pieces
      BY <2>2 DEF vars, Pieces
    <3> QED
      BY <3>1 DEF Listing!vars
  <2> QED
    BY <2>1, <2>2 DEF Next, Return
<1> QED
  BY <1>1, <1>2, TypeCorrect, PTL DEF Spec, Listing!Spec

------------------------------------------------------------------------------
(* The order among the rows decides nothing *)

\* Rows read from the same bytes are one encoding.
LEMMA ReadingsAgree ==
  ASSUME NEW c \in Seq(Byte), NEW p \in Nat, p < Len(c),
         NEW f \in Readings(c, p), NEW g \in Readings(c, p)
  PROVE  SameEncoding(f, g)
<1>1. f \in Table /\ g \in Table /\ f.opcode[1] = g.opcode[1]
  <2>1. c[p + 1] \in Byte
    BY ElementOfSeq
  <2> QED
    BY <2>1 DEF Readings, StartingWith
<1>2. Len(f.opcode) = Len(g.opcode)
  BY <1>1, OpcodesTellEncodings
<1>3. f.opcode = g.opcode
  BY ZenonT(30), <1>2, ReadingLies
<1>4. OperandLen(f) = OperandLen(g) /\ Len(f.suffix) = Len(g.suffix)
  BY <1>1, <1>3, OpcodesTellEncodings
<1>5. FormLen(f) = FormLen(g)
  BY <1>2, <1>4, Zenon DEF FormLen
<1>6. f.suffix = g.suffix
  BY ZenonT(30), <1>2, <1>4, <1>5, ReadingLies
<1> QED
  BY <1>1, <1>3, <1>6, OpcodesTellEncodings

\* "No prefix byte is itself a one-byte opcode": wherever the sweep stands, the
\* rows that match there are one encoding, so that taking the first is right.
THEOREM UnambiguousHolds == Spec => []Unambiguous
<1>1. TypeOK => Unambiguous
  <2> SUFFICES ASSUME TypeOK, pos < Len(code),
                      NEW f \in Readings(code, pos), NEW g \in Readings(code, pos)
               PROVE  SameEncoding(f, g)
    BY DEF Unambiguous
  <2>1. code \in Seq(Byte) /\ pos \in Nat
    BY LenProperties DEF TypeOK
  <2> QED
    BY <2>1, ReadingsAgree
<1> QED
  BY <1>1, TypeCorrect, PTL

------------------------------------------------------------------------------
(* What the listing says of the buffer *)

\* A line of a listing of buffer c loaded at o: an instruction that can be read
\* where the line starts, or the byte there where nothing can be read.
Says(c, o, line) ==
  /\ line.at \in Nat /\ line.at < Len(c)
  /\ line.addr = Wrap16(o + line.at)
  /\ \/ \E f \in Readings(c, line.at) :
          /\ line.text = Instruction(f, c, line.at, line.addr)
          /\ Len(line.bytes) = FormLen(f)
     \/ /\ Readings(c, line.at) = {}
        /\ line.text = Datum(c, line.at)
        /\ Len(line.bytes) = 1

\* Every line was read where it stands, and the first stands at the start.
Listed ==
  /\ out = <<>> => pos = 0
  /\ out # <<>> => out[1].at = 0
  /\ \A k \in DOMAIN out : Says(code, origin, out[k])

\* A step appends a line that says what is there.
LEMMA StepSays ==
  ASSUME TypeOK, EmitInstruction \/ EmitData
  PROVE  \E line : /\ out' = Append(out, line) /\ line.at = pos
                   /\ Says(code, origin, line)
                   /\ UNCHANGED <<code, origin>>
<1>1. code \in Seq(Byte) /\ pos \in Nat /\ Len(code) \in Nat
  BY LenProperties DEF TypeOK
<1>2. pos < Len(code)
  BY DEF EmitInstruction, EmitData
<1>3. CASE EmitInstruction
  <2>1. PICK f \in Readings(code, pos) :
          Push(FormLen(f), Instruction(f, code, pos, Wrap16(origin + pos)))
    BY <1>3 DEF EmitInstruction, FirstReadings
  <2>2. PICK n \in Nat : n = FormLen(f) /\ pos + n <= Len(code)
    BY <1>1, <1>2, <2>1, ReadingLies, RowLength
  <2>3. PICK line : line = Entry(n, Instruction(f, code, pos, Wrap16(origin + pos)))
    OBVIOUS
  <2>4. /\ line.at = pos /\ line.addr = Wrap16(origin + pos)
        /\ line.text = Instruction(f, code, pos, Wrap16(origin + pos))
        /\ line.bytes = SubSeq(code, pos + 1, pos + n)
    BY <2>3 DEF Entry
  <2>5. Len(line.bytes) = FormLen(f)
    <3>1. Len(SubSeq(code, pos + 1, pos + n)) = n
      BY <1>1, <2>2, BytesCounted
    <3> QED
      BY <2>2, <2>4, <3>1
  <2>6. Says(code, origin, line)
    BY <1>1, <1>2, <2>4, <2>5, Zenon DEF Says
  <2>7. out' = Append(out, line) /\ UNCHANGED <<code, origin>>
    BY <2>1, <2>2, <2>3, Zenon DEF Push, Entry
  <2> QED
    BY <2>4, <2>6, <2>7
<1>4. CASE EmitData
  <2>1. Readings(code, pos) = {} /\ Push(1, Datum(code, pos))
    BY <1>4 DEF EmitData
  <2>2. PICK line : line = Entry(1, Datum(code, pos))
    OBVIOUS
  <2>3. /\ line.at = pos /\ line.addr = Wrap16(origin + pos)
        /\ line.text = Datum(code, pos)
        /\ line.bytes = SubSeq(code, pos + 1, pos + 1)
    BY <2>2 DEF Entry
  <2>4. Len(line.bytes) = 1
    <3>1. pos + 1 <= Len(code) /\ 1 \in Nat
      BY <1>1, <1>2
    <3> QED
      BY <1>1, <2>3, <3>1, BytesCounted
  <2>5. Says(code, origin, line)
    BY <1>1, <1>2, <2>1, <2>3, <2>4, Zenon DEF Says
  <2>6. out' = Append(out, line) /\ UNCHANGED <<code, origin>>
    BY <2>1, <2>2, Zenon DEF Push, Entry
  <2> QED
    BY <2>3, <2>5, <2>6
<1> QED
  BY <1>3, <1>4

\* The listing is what the buffer says from its start on.
LEMMA ListedHolds == Spec => []Listed
<1>1. Init => Listed
  BY DEF Init, Listed
<1>2. TypeOK /\ Listed /\ [Next]_vars => Listed'
  <2> SUFFICES ASSUME TypeOK, Listed, [Next]_vars PROVE Listed'
    OBVIOUS
  <2>1. CASE EmitInstruction \/ EmitData
    <3>1. PICK line : /\ out' = Append(out, line) /\ line.at = pos
                      /\ Says(code, origin, line)
                      /\ UNCHANGED <<code, origin>>
      BY <2>1, StepSays
    <3>2. out \in Lines
      BY DEF TypeOK, Lines
    <3>3. PICK m \in Nat : m = Len(out) /\ DOMAIN out = 1..m
      BY <3>2, LenProperties DEF Lines
    <3>4. /\ DOMAIN out' = 1..(m + 1)
          /\ out'[m + 1] = line
          /\ \A k \in 1..m : out'[k] = out[k]
      BY <3>1, <3>2, <3>3 DEF Lines
    <3>5. out'[1].at = 0
      <4>1. CASE m = 0
        <5>1. out = <<>>
          BY <3>2, <3>3, <4>1, EmptySeq DEF Lines
        <5> QED
          BY <3>1, <3>4, <4>1, <5>1 DEF Listed
      <4>2. CASE m # 0
        <5>1. out # <<>> /\ 1 \in 1..m
          BY <3>3, <4>2
        <5> QED
          BY <3>4, <5>1 DEF Listed
      <4> QED
        BY <4>1, <4>2
    <3>6. out' # <<>>
      BY <3>4
    <3>7. ASSUME NEW k \in DOMAIN out' PROVE Says(code, origin, out'[k])
      <4>1. k = m + 1 \/ k \in 1..m
        BY <3>4
      <4>2. \A j \in 1..m : Says(code, origin, out[j])
        BY <3>3 DEF Listed
      <4> QED
        BY <3>1, <3>4, <4>1, <4>2
    <3>8. \A k \in DOMAIN out' : Says(code', origin', out'[k])
      BY <3>1, <3>7
    <3> QED
      BY <3>5, <3>6, <3>8 DEF Listed
  <2>2. CASE UNCHANGED vars
    BY <2>2 DEF Listed, vars
  <2> QED
    BY <2>1, <2>2 DEF Next, Return
<1> QED
  BY <1>1, <1>2, TypeCorrect, PTL DEF Spec

------------------------------------------------------------------------------
(* Exemplars *)

\* The canonical bytes of a slot are as many as it is wide.
LEMMA CanonicalWidth ==
  ASSUME NEW op \in [kind : OperandKind, bytes : 1..2], ReadsAsDeclared(op)
  PROVE  CanonicalBytes(op) \in Seq(Byte) /\ Len(CanonicalBytes(op)) = op.bytes
<1>1. \h12 \in Byte /\ \h34 \in Byte /\ 2 \in Byte /\ 0 \in Byte /\ 5 \in Byte
  BY DEF Byte
<1>2. CASE op.kind = "RelativePc"
  <2>1. op.bytes = 1
    BY <1>2 DEF ReadsAsDeclared, Signed
  <2>2. CanonicalBytes(op) = SubSeq(<<2, 0, 0>>, 1, 1)
    BY <1>2, <2>1 DEF CanonicalBytes
  <2>3. <<2, 0, 0>> \in Seq(Byte) /\ Len(<<2, 0, 0>>) = 3
    BY <1>1
  <2>4. PICK c \in Seq(Byte) : c = <<2, 0, 0>>
    BY <2>3
  <2>5. 0 \in Nat /\ 0 + 1 = 1 /\ 0 + 1 <= Len(c)
    BY <2>3, <2>4
  <2>6. SubSeq(c, 0 + 1, 0 + 1) = <<c[0 + 1]>> /\ c[0 + 1] \in Byte
    BY <2>5, OneByte, Zenon
  <2>7. CanonicalBytes(op) = <<c[1]>> /\ c[1] \in Byte
    BY <2>2, <2>4, <2>5, <2>6, Zenon
  <2> QED
    BY <2>1, <2>7
<1>3. CASE op.kind = "Displacement"
  <2>1. op.bytes = 1
    BY <1>3 DEF ReadsAsDeclared, Signed
  <2>2. CanonicalBytes(op) = <<5>>
    BY <1>3 DEF CanonicalBytes
  <2> QED
    BY <1>1, <2>1, <2>2
<1>4. CASE op.kind = "ImmediateBe"
  <2>1. op.bytes = 2
    BY <1>4 DEF ReadsAsDeclared
  <2>2. CanonicalBytes(op) = <<\h12, \h34>>
    BY <1>4 DEF CanonicalBytes
  <2> QED
    BY <1>1, <2>1, <2>2
<1>5. CASE op.kind \notin {"RelativePc", "Displacement", "ImmediateBe"}
  <2>1. CASE op.bytes = 1
    <3>1. CanonicalBytes(op) = <<\h12>>
      BY <1>5, <2>1 DEF CanonicalBytes
    <3> QED
      BY <1>1, <2>1, <3>1
  <2>2. CASE op.bytes = 2
    <3>1. CanonicalBytes(op) = <<\h34, \h12>>
      BY <1>5, <2>2 DEF CanonicalBytes
    <3> QED
      BY <1>1, <2>2, <3>1
  <2> QED
    BY <2>1, <2>2
<1> QED
  BY <1>2, <1>3, <1>4, <1>5

\* An exemplar is the opcode, as many bytes as the operands are wide, and the
\* suffix.
LEMMA ExemplarParts ==
  ASSUME NEW f \in Table
  PROVE  \E mid \in Seq(Byte) : /\ Len(mid) = OperandLen(f)
                                /\ Exemplar(f) = (f.opcode \o mid) \o f.suffix
<1> DEFINE slot(s) ==
      IF s \in DOMAIN f.operands THEN CanonicalBytes(f.operands[s]) ELSE <<>>
<1>1. ASSUME NEW s \in {1, 2, 3} PROVE slot(s) \in Seq(Byte) /\ Len(slot(s)) = Width(f, s)
  <2>1. CASE s \in DOMAIN f.operands
    BY <2>1, RowShape, CanonicalWidth
  <2>2. CASE s \notin DOMAIN f.operands
    BY <2>2, EmptySeq DEF Width
  <2> QED
    BY <2>1, <2>2
<1>2. PICK s1 \in Seq(Byte), s2 \in Seq(Byte), s3 \in Seq(Byte) :
        /\ s1 = slot(1) /\ Len(s1) = Width(f, 1)
        /\ s2 = slot(2) /\ Len(s2) = Width(f, 2)
        /\ s3 = slot(3) /\ Len(s3) = Width(f, 3)
  BY <1>1
<1>3. Exemplar(f) = (((f.opcode \o s1) \o s2) \o s3) \o f.suffix
  BY <1>2, Zenon DEF Exemplar
<1> HIDE DEF slot
<1>4. PICK u \in Seq(Byte) : u = f.opcode
  BY RowShape
<1>5. (u \o s1) \o s2 = u \o (s1 \o s2)
  OBVIOUS
<1>6. PICK t \in Seq(Byte) : t = s1 \o s2 /\ Len(t) = Len(s1) + Len(s2)
  BY ConcatProperties
<1>7. (u \o t) \o s3 = u \o (t \o s3)
  OBVIOUS
<1>8. PICK mid \in Seq(Byte) : mid = t \o s3 /\ Len(mid) = Len(t) + Len(s3)
  BY ConcatProperties
<1>9. Len(mid) = OperandLen(f)
  BY <1>2, <1>6, <1>8, Zenon DEF OperandLen
<1>10. Exemplar(f) = (f.opcode \o mid) \o f.suffix
  BY <1>3, <1>4, <1>5, <1>6, <1>7, <1>8, Zenon
<1> QED
  BY <1>9, <1>10

\* A row whose exemplar stands at the start of a buffer can be read there.
LEMMA ExemplarRead ==
  ASSUME NEW c \in Seq(Byte), NEW f \in Table,
         FormLen(f) <= Len(c), SubSeq(c, 1, FormLen(f)) = Exemplar(f)
  PROVE  f \in Readings(c, 0)
<1>1. PICK mid \in Seq(Byte) : /\ Len(mid) = OperandLen(f)
                               /\ Exemplar(f) = (f.opcode \o mid) \o f.suffix
  BY ExemplarParts
<1>2. PICK n \in Nat, w \in Nat, x \in Nat, l \in Nat :
        /\ n = Len(f.opcode) /\ w = OperandLen(f) /\ x = Len(f.suffix) /\ l = FormLen(f)
        /\ l = n + w + x /\ n >= 1 /\ n \in OpcodeLens
  BY ZenonT(30), RowShape, RowLength
<1>3. PICK u \in Seq(Byte) : u = f.opcode /\ Len(u) = n
  BY <1>2, RowShape
<1>4. PICK z \in Seq(Byte) : z = f.suffix /\ Len(z) = x
  BY <1>2, RowShape
<1>5. PICK m \in Nat : m = Len(c) /\ l <= m
  BY <1>2, LenProperties
<1>6. \A i \in 1..m : c[i] \in Byte
  BY <1>5, ElementOfSeq
<1>7. PICK e : e = SubSeq(c, 1, l)
  OBVIOUS
<1>8. \A i \in 1..l : e[i] = c[i]
  <2>1. \A i \in 1..l : c[i] \in Byte
    BY <1>5, <1>6
  <2>2. \A i \in 1..(l - 1 + 1) : SubSeq(c, 1, l)[i] = c[1 + i - 1]
    BY <2>1, SubSeqProperties, SMTT(30)
  <2> QED
    BY <1>7, <2>2
<1>9. e = (u \o mid) \o z
  BY <1>1, <1>2, <1>3, <1>4, <1>7
<1>10. /\ u \o mid \in Seq(Byte) /\ Len(u \o mid) = n + w
       /\ \A i \in 1..n : (u \o mid)[i] = u[i]
  <2>1. /\ u \o mid \in Seq(Byte) /\ Len(u \o mid) = Len(u) + Len(mid)
        /\ \A i \in 1..Len(u) + Len(mid) :
             (u \o mid)[i] = IF i <= Len(u) THEN u[i] ELSE mid[i - Len(u)]
    BY ConcatProperties
  <2> QED
    BY <1>1, <1>2, <1>3, <2>1
<1>11. /\ \A i \in 1..n : e[i] = u[i]
       /\ \A i \in 1..x : e[n + w + i] = z[i]
  <2>1. PICK v \in Seq(Byte) : v = u \o mid /\ Len(v) = n + w /\ \A i \in 1..n : v[i] = u[i]
    BY <1>10
  <2>2. \A i \in 1..Len(v) + Len(z) :
          (v \o z)[i] = IF i <= Len(v) THEN v[i] ELSE z[i - Len(v)]
    BY ConcatProperties
  <2>3. \A i \in 1..(n + w + x) : e[i] = IF i <= n + w THEN v[i] ELSE z[i - (n + w)]
    BY <1>4, <1>9, <2>1, <2>2
  <2>4. ASSUME NEW i \in 1..n PROVE e[i] = u[i]
    <3>1. i \in 1..(n + w + x) /\ i <= n + w
      OBVIOUS
    <3> QED
      BY <2>1, <2>3, <3>1, Zenon
  <2>5. ASSUME NEW i \in 1..x PROVE e[n + w + i] = z[i]
    <3>1. PICK j \in Nat : j = n + w + i
      OBVIOUS
    <3>2. j \in 1..(n + w + x) /\ ~(j <= n + w) /\ j - (n + w) = i
      BY <3>1
    <3>3. e[j] = z[j - (n + w)]
      BY <2>3, <3>2, Zenon
    <3> QED
      BY <3>1, <3>2, <3>3, Zenon
  <2> QED
    BY <2>4, <2>5
<1>12. SubSeq(c, 0 + 1, 0 + n) = u
  <2>1. n <= l
    BY SMTT(30), <1>2
  <2>2. \A i \in 1..n : c[i] \in Byte
    BY <1>5, <1>6, <2>1
  <2>3. /\ SubSeq(c, 1, n) \in Seq(Byte)
        /\ Len(SubSeq(c, 1, n)) = n
        /\ \A i \in 1..n : SubSeq(c, 1, n)[i] = c[i]
    <3>1. /\ SubSeq(c, 1, n) \in Seq(Byte)
          /\ Len(SubSeq(c, 1, n)) = IF 1 <= n THEN n - 1 + 1 ELSE 0
          /\ \A i \in 1..(n - 1 + 1) : SubSeq(c, 1, n)[i] = c[1 + i - 1]
      BY <2>2, SubSeqProperties, SMTT(30)
    <3> QED
      BY SMTT(30), <1>2, <3>1
  <2>4. \A i \in 1..n : SubSeq(c, 1, n)[i] = u[i]
    BY <1>8, <1>11, <2>1, <2>3
  <2>5. SubSeq(c, 1, n) = u
    BY <1>3, <2>3, <2>4, SeqEqual
  <2> QED
    BY <2>5
<1>13. SubSeq(c, 0 + n + w + 1, 0 + n + w + x) = z
  <2>1. \A i \in (n + w + 1)..(n + w + x) : c[i] \in Byte
    BY SMTT(30), <1>2, <1>5, <1>6
  <2>2. PICK t : t = SubSeq(c, n + w + 1, n + w + x)
    OBVIOUS
  <2>3. t \in Seq(Byte) /\ Len(t) = x /\ \A i \in 1..x : t[i] = c[n + w + i]
    <3>1. /\ t \in Seq(Byte)
          /\ Len(t) = IF n + w + 1 <= n + w + x THEN (n + w + x) - (n + w + 1) + 1 ELSE 0
          /\ \A i \in 1..((n + w + x) - (n + w + 1) + 1) : t[i] = c[n + w + 1 + i - 1]
      BY <2>1, <2>2, SubSeqProperties, SMTT(30)
    <3> QED
      BY <3>1
  <2>4. \A i \in 1..x : t[i] = z[i]
    <3> TAKE i \in 1..x
    <3>0. l = n + w + x
      BY <1>2, Zenon
    <3>1. n + w + i \in 1..l
      BY <3>0
    <3>2. PICK j \in 1..l : j = n + w + i
      BY <3>1
    <3>3. e[j] = c[j] /\ e[j] = z[i] /\ t[i] = c[j]
      BY <1>8, <1>11, <2>3, <3>2, Zenon
    <3> QED
      BY <3>3
  <2>5. t = z
    BY <1>4, <2>3, <2>4, SeqEqual
  <2>6. 0 + n + w + 1 = n + w + 1 /\ 0 + n + w + x = n + w + x
    OBVIOUS
  <2> QED
    BY <2>2, <2>5, <2>6
<1>14. Matches(f, c, 0)
  <2>1. 0 + n + w + x <= Len(c)
    BY <1>2, <1>5
  <2> QED
    BY <1>2, <1>3, <1>4, <1>12, <1>13, <2>1, Zenon DEF Matches
<1>15. f.opcode[1] = c[0 + 1]
  <2>1. u[1] = c[1]
    BY SMTT(30), <1>2, <1>8, <1>11
  <2> QED
    BY <1>3, <2>1
<1>16. c[0 + 1] \in Byte
  BY SMTT(30), <1>2, <1>5, <1>6
<1> QED
  BY <1>14, <1>15, <1>16 DEF Readings, StartingWith

\* Every row comes back from its own exemplar: a buffer that begins with it,
\* whatever follows, is listed with an instruction of that encoding first.
THEOREM ExemplarsDecodeHolds == Spec => []ExemplarsDecode
<1>1. TypeOK /\ Listed => ExemplarsDecode
  <2> SUFFICES ASSUME TypeOK, Listed, out # <<>>, NEW f \in StartingWith[code[1]],
                      FormLen(f) <= Len(code), SubSeq(code, 1, FormLen(f)) = Exemplar(f)
               PROVE  /\ out[1].text.kind = "instruction"
                      /\ \E g \in StartingWith[code[1]] :
                           g.name = out[1].text.name /\ SameEncoding(f, g)
    BY DEF ExemplarsDecode
  <2>1. code \in Seq(Byte) /\ out \in Lines /\ Len(code) \in Nat
    BY LenProperties DEF TypeOK, Lines
  <2>2. 1 \in DOMAIN out
    BY <2>1, EmptySeq, LenProperties DEF Lines
  <2>3. Says(code, origin, out[1]) /\ out[1].at = 0
    BY <2>2 DEF Listed
  <2>4. 0 < Len(code)
    BY <2>3, Zenon DEF Says
  <2>5. code[0 + 1] \in Byte /\ code[0 + 1] = code[1]
    BY <2>1, <2>4, ElementOfSeq
  <2>6. f \in Table
    BY <2>5 DEF StartingWith
  <2>7. f \in Readings(code, 0)
    BY <2>1, <2>6, ExemplarRead
  <2>8. PICK g \in Readings(code, 0) :
          out[1].text = Instruction(g, code, 0, out[1].addr)
    BY <2>3, <2>7, Zenon DEF Says
  <2>9. out[1].text.kind = "instruction" /\ out[1].text.name = g.name
    BY <2>8 DEF Instruction
  <2>10. g \in StartingWith[code[1]]
    BY <2>5, <2>8, Zenon DEF Readings
  <2>11. SameEncoding(f, g)
    BY <2>1, <2>4, <2>7, <2>8, ReadingsAgree
  <2> QED
    BY <2>9, <2>10, <2>11
<1> QED
  BY <1>1, TypeCorrect, ListedHolds, PTL

------------------------------------------------------------------------------
(* Decoding looks at an instruction's own bytes only *)

\* The n bytes at offset p of c are the n bytes at offset q of d.
Alike(c, p, d, q, n) == \A k \in 1..n : c[p + k] = d[q + k]

\* From offset x to offset y of what begins at offset p of c.
Part(c, p, x, y) == SubSeq(c, p + x + 1, p + y)

\* Parts of the same bytes are the same.
LEMMA AlikeParts ==
  ASSUME NEW c \in Seq(Byte), NEW p \in Nat, NEW d \in Seq(Byte), NEW q \in Nat,
         NEW n \in Nat, p + n <= Len(c), q + n <= Len(d), Alike(c, p, d, q, n),
         NEW x \in Nat, NEW y \in Nat, x <= y, y <= n
  PROVE  Part(c, p, x, y) = Part(d, q, x, y)
<1>1. \A k \in (p + x + 1)..(p + y) : c[k] \in Byte
  BY ElementOfSeq, LenProperties
<1>2. \A k \in (q + x + 1)..(q + y) : d[k] \in Byte
  BY ElementOfSeq, LenProperties
<1>3. PICK s : s = SubSeq(c, p + x + 1, p + y)
  OBVIOUS
<1>4. PICK t : t = SubSeq(d, q + x + 1, q + y)
  OBVIOUS
<1>5. PICK l \in Nat : l = y - x
  OBVIOUS
<1>6. s \in Seq(Byte) /\ Len(s) = l /\ \A i \in 1..l : s[i] = c[p + x + i]
  <2>1. /\ s \in Seq(Byte)
        /\ Len(s) = IF p + x + 1 <= p + y THEN (p + y) - (p + x + 1) + 1 ELSE 0
        /\ \A i \in 1..((p + y) - (p + x + 1) + 1) : s[i] = c[p + x + 1 + i - 1]
    BY <1>1, <1>3, SubSeqProperties, SMTT(30)
  <2> QED
    BY <1>5, <2>1
<1>7. t \in Seq(Byte) /\ Len(t) = l /\ \A i \in 1..l : t[i] = d[q + x + i]
  <2>1. /\ t \in Seq(Byte)
        /\ Len(t) = IF q + x + 1 <= q + y THEN (q + y) - (q + x + 1) + 1 ELSE 0
        /\ \A i \in 1..((q + y) - (q + x + 1) + 1) : t[i] = d[q + x + 1 + i - 1]
    BY <1>2, <1>4, SubSeqProperties, SMTT(30)
  <2> QED
    BY <1>5, <2>1
<1>8. ASSUME NEW i \in 1..l PROVE s[i] = t[i]
  <2>1. PICK k \in 1..n : k = x + i
    BY <1>5
  <2>2. c[p + k] = d[q + k]
    BY DEF Alike
  <2>3. p + k = p + x + i /\ q + k = q + x + i
    BY <2>1
  <2>4. s[i] = c[p + x + i] /\ t[i] = d[q + x + i]
    BY <1>6, <1>7
  <2> QED
    BY <2>2, <2>3, <2>4
<1> QED
  BY <1>3, <1>4, <1>6, <1>7, <1>8, SeqEqual DEF Part

\* A row that can be read somewhere can be read wherever the same bytes stand.
LEMMA AlikeReads ==
  ASSUME NEW c \in Seq(Byte), NEW p \in Nat, p < Len(c),
         NEW d \in Seq(Byte), NEW q \in Nat, q < Len(d),
         NEW f \in Readings(c, p),
         NEW n \in Nat, n = FormLen(f), q + n <= Len(d), Alike(c, p, d, q, n)
  PROVE  f \in Readings(d, q)
<1>1. /\ f \in Table
      /\ p + FormLen(f) <= Len(c)
      /\ SubSeq(c, p + 1, p + Len(f.opcode)) = f.opcode
      /\ SubSeq(c, p + Len(f.opcode) + OperandLen(f) + 1, p + FormLen(f)) = f.suffix
  BY ReadingLies
<1>2. PICK m \in Nat, w \in Nat, x \in Nat :
        /\ m = Len(f.opcode) /\ w = OperandLen(f) /\ x = Len(f.suffix)
        /\ n = m + w + x /\ m >= 1 /\ m \in OpcodeLens
  BY <1>1, RowShape, RowLength
<1>3. p + n <= Len(c)
  BY <1>1
<1>4. n = m + w + x /\ m >= 1
  BY <1>2, Zenon
<1>5. ASSUME NEW y \in Nat, NEW z \in Nat, y <= z, z <= n
      PROVE  SubSeq(c, p + y + 1, p + z) = SubSeq(d, q + y + 1, q + z)
  <2>1. Part(c, p, y, z) = Part(d, q, y, z)
    BY <1>3, <1>5, AlikeParts
  <2> QED
    BY <2>1, Zenon DEF Part
<1>6. SubSeq(d, q + m + w + 1, q + m + w + x) = f.suffix
  <2>1. PICK z \in Nat : z = m + w /\ z <= n
    BY <1>4
  <2>2. SubSeq(c, p + z + 1, p + n) = SubSeq(d, q + z + 1, q + n)
    <3>1. n <= n
      OBVIOUS
    <3> QED
      BY <1>5, <2>1, <3>1, Zenon
  <2>3. /\ p + z + 1 = p + m + w + 1 /\ q + z + 1 = q + m + w + 1
        /\ q + n = q + m + w + x
    BY <1>4, <2>1
  <2>4. SubSeq(c, p + m + w + 1, p + n) = f.suffix
    BY <1>1, <1>2, Zenon
  <2> QED
    BY <2>2, <2>3, <2>4, Zenon
<1>7. SubSeq(d, q + 1, q + m) = f.opcode
  <2>1. SubSeq(c, p + 0 + 1, p + m) = SubSeq(d, q + 0 + 1, q + m)
    <3>1. 0 \in Nat /\ 0 <= m /\ m <= n
      BY <1>4
    <3> QED
      BY <1>5, <3>1, Zenon
  <2>2. p + 0 + 1 = p + 1 /\ q + 0 + 1 = q + 1
    OBVIOUS
  <2>3. SubSeq(c, p + 1, p + m) = f.opcode
    BY <1>1, <1>2, Zenon
  <2> QED
    BY <2>1, <2>2, <2>3
<1>8. Matches(f, d, q)
  <2>1. q + m + w + x <= Len(d)
    BY SMTT(30), <1>2
  <2> QED
    BY <1>2, <1>6, <1>7, <2>1, Zenon DEF Matches
<1>9. f.opcode[1] = d[q + 1]
  <2>1. f.opcode[1] = c[p + 1]
    <3>1. c[p + 1] \in Byte
      BY ElementOfSeq
    <3> QED
      BY <3>1 DEF Readings, StartingWith
  <2>2. c[p + 1] = d[q + 1]
    BY SMTT(30), <1>2 DEF Alike
  <2> QED
    BY <2>1, <2>2
<1>10. d[q + 1] \in Byte
  BY ElementOfSeq
<1> QED
  BY <1>1, <1>8, <1>9, <1>10 DEF Readings, StartingWith

\* And it says the same there.
LEMMA AlikeTexts ==
  ASSUME NEW c \in Seq(Byte), NEW p \in Nat, p < Len(c),
         NEW d \in Seq(Byte), NEW q \in Nat,
         NEW f \in Readings(c, p),
         NEW n \in Nat, n = FormLen(f), q + n <= Len(d), Alike(c, p, d, q, n),
         NEW a
  PROVE  Instruction(f, c, p, a) = Instruction(f, d, q, a)
<1>1. f \in Table
  BY ReadingLies
<1>2. ASSUME NEW s \in DOMAIN f.operands
      PROVE  OperandValue(f.operands[s], f.endianness, c, SlotAt(f, p, s))
               = OperandValue(f.operands[s], f.endianness, d, SlotAt(f, q, s))
  <2>1. PICK o \in Nat, w \in 1..2 :
          /\ o = Len(f.opcode) + Offset(f, s) /\ w = f.operands[s].bytes
          /\ o + w <= n
    <3>1. s \in 1..3 /\ f.operands[s].bytes \in 1..2 /\ Width(f, s) = f.operands[s].bytes
      BY <1>1, RowShape
    <3>2. PICK w \in 1..2 : w = f.operands[s].bytes
      BY <3>1
    <3>3. PICK k \in Nat : k = Len(f.opcode)
      BY <1>1, RowShape
    <3>4. PICK z \in Nat : z = OperandLen(f)
      BY <1>1, RowLength
    <3>5. PICK x \in Nat : x = Len(f.suffix)
      BY <1>1, RowShape
    <3>6. PICK o \in Nat : o = Offset(f, s)
      BY <1>1, <3>1, RowLength
    <3>7. o + w <= z
      BY <1>1, <3>1, <3>2, <3>4, <3>6, RowLength
    <3>8. n = k + z + x
      BY <1>1, <3>3, <3>4, <3>5, Zenon DEF FormLen
    <3>9. PICK h \in Nat : h = k + o /\ h + w <= n
      BY <3>7, <3>8
    <3>10. h = Len(f.opcode) + Offset(f, s) /\ w = f.operands[s].bytes
      BY <3>2, <3>3, <3>6, <3>9, Zenon
    <3> QED
      BY <3>9, <3>10
  <2>2. SlotAt(f, p, s) = p + o /\ SlotAt(f, q, s) = q + o
    <3>1. Len(f.opcode) \in Nat /\ Offset(f, s) \in Nat
      BY <1>1, RowShape, RowLength
    <3>2. PICK k \in Nat : k = Len(f.opcode)
      BY <3>1
    <3>3. PICK g \in Nat : g = Offset(f, s)
      BY <3>1
    <3>4. SlotAt(f, p, s) = p + k + g /\ SlotAt(f, q, s) = q + k + g
      BY <3>2, <3>3, Zenon DEF SlotAt
    <3>5. o = k + g
      BY <2>1, <3>2, <3>3, Zenon
    <3>6. p + k + g = p + o /\ q + k + g = q + o
      BY <3>5
    <3> QED
      BY <3>4, <3>6, Zenon
  <2>3. c[p + o + 1] = d[q + o + 1]
    <3>0. o + w <= n
      BY <2>1, Zenon
    <3>1. PICK k \in 1..n : k = o + 1
      BY <3>0
    <3>2. c[p + k] = d[q + k]
      BY DEF Alike
    <3>3. p + k = p + o + 1 /\ q + k = q + o + 1
      BY <3>1
    <3> QED
      BY <3>2, <3>3
  <2>4. w = 2 => c[p + o + 2] = d[q + o + 2]
    <3> SUFFICES ASSUME w = 2 PROVE c[p + o + 2] = d[q + o + 2]
      OBVIOUS
    <3>0. o + w <= n
      BY <2>1, Zenon
    <3>1. PICK k \in 1..n : k = o + 2
      BY <3>0
    <3>2. c[p + k] = d[q + k]
      BY DEF Alike
    <3>3. p + k = p + o + 2 /\ q + k = q + o + 2
      BY <3>1
    <3> QED
      BY <3>2, <3>3
  <2>5. w = 1 \/ w = 2
    OBVIOUS
  <2> QED
    BY <2>1, <2>2, <2>3, <2>4, <2>5, Zenon DEF OperandValue
<1>3. ReadOperands(f, c, p) = ReadOperands(f, d, q)
  BY <1>2, Zenon DEF ReadOperands
<1> QED
  BY <1>3, Zenon DEF Instruction

------------------------------------------------------------------------------
(* The debugger's view *)

\* The buffer fits the memory it is loaded into.
Fitting == Len(code) <= 65536

LEMMA FittingHolds ==
  ASSUME MemoryHoldsBuffers
  PROVE  Spec => []Fitting
<1>1. Init => Fitting
  BY DEF MemoryHoldsBuffers, Init, Fitting
<1>2. Fitting /\ [Next]_vars => Fitting'
  <2> SUFFICES ASSUME Fitting, [Next]_vars PROVE Fitting'
    OBVIOUS
  <2>1. UNCHANGED code
    <3>1. CASE EmitInstruction
      BY <3>1 DEF EmitInstruction, Push
    <3>2. CASE EmitData
      BY <3>2 DEF EmitData, Push
    <3>3. CASE UNCHANGED vars
      BY <3>3 DEF vars
    <3> QED
      BY <3>1, <3>2, <3>3 DEF Next, Return
  <2> QED
    BY <2>1 DEF Fitting
<1> QED
  BY <1>1, <1>2, PTL DEF Spec

\* The bytes fetched at an address are those of the buffer that has them.
LEMMA FetchesBytes ==
  ASSUME TypeOK, Fitting, NEW p \in Nat, NEW a, a = Wrap16(origin + p)
  PROVE  /\ Fetched(a) \in Seq(Byte) /\ Len(Fetched(a)) = 3
         /\ \A k \in 1..3 : p + k <= Len(code) => Fetched(a)[k] = code[p + k]
<1>1. code \in Seq(Byte) /\ origin \in Word16 /\ Len(code) \in Nat
  BY LenProperties DEF TypeOK
<1>2. origin \in Int
  BY <1>1, WordIsInt
<1>3. PICK d : d = Fetched(a)
  OBVIOUS
<1>4. d = [k \in 1..3 |-> Read(Wrap16(a + (k - 1)))]
  BY <1>3 DEF Fetched, Lookahead
<1>5. ASSUME NEW b \in Int PROVE Read(b) \in Byte
  <2>1. PICK q \in Word16 : q = Wrap16(b - origin)
    <3>1. b - origin \in Int
      BY <1>2
    <3> QED
      BY <3>1, WrapIsWord
  <2>2. q \in Nat
    BY WordIsInt
  <2>3. q < Len(code) => code[q + 1] \in Byte
    BY <1>1, <2>2, ElementOfSeq
  <2> QED
    BY <2>1, <2>3, FillIsByte, Zenon DEF Read
<1>6. PICK w \in Int : w = a
  <2>1. origin + p \in Int
    BY <1>2
  <2> QED
    BY <2>1, WrapIsWord
<1>7. \A k \in 1..3 : Read(Wrap16(a + (k - 1))) \in Byte
  <2> TAKE k \in 1..3
  <2>1. PICK j \in Int : j = w + (k - 1)
    OBVIOUS
  <2>2. Wrap16(j) \in Int
    BY WrapIsWord
  <2> QED
    BY <1>5, <1>6, <2>1, <2>2, Zenon
<1>8. d \in [1..3 -> Byte]
  BY <1>4, <1>7
<1>9. d \in Seq(Byte) /\ Len(d) = 3
  <2>1. PICK n \in Nat : n = 3
    OBVIOUS
  <2>2. d \in [1..n -> Byte]
    BY <1>8, <2>1
  <2>3. d \in Seq(Byte)
    BY <2>2, SeqDef
  <2>4. DOMAIN d = 1..n
    BY <2>2
  <2>5. Len(d) = n
    BY <2>3, <2>4, LenProperties
  <2> QED
    BY <2>1, <2>3, <2>5
<1>10. ASSUME NEW k \in 1..3, p + k <= Len(code) PROVE d[k] = code[p + k]
  <2>1. PICK j \in Nat : j = k - 1 /\ p + j < Len(code) /\ p + j + 1 = p + k
    BY <1>1, <1>10
  <2>2. Wrap16(Wrap16(Wrap16(origin + p) + j) - origin) = p + j
    <3>1. p + j < 65536
      BY <1>1, <2>1 DEF Fitting
    <3> QED
      BY <1>2, <3>1, OffsetOfAddress
  <2>3. Read(Wrap16(a + j)) = code[p + j + 1]
    BY <2>1, <2>2, Zenon DEF Read
  <2> QED
    BY <1>4, <2>1, <2>3, Zenon
<1> QED
  BY <1>3, <1>9, <1>10

\* Nothing but the row of its first byte can be read anywhere.
LEMMA OneReading ==
  ASSUME OneRowPerByte,
         NEW c \in Seq(Byte), NEW p \in Nat, p < Len(c), NEW f \in Readings(c, p)
  PROVE  FirstReadings(c, p) = {f}
<1>1. f \in Table
  BY ReadingLies
<1>2. c[p + 1] \in Byte
  BY ElementOfSeq
<1>3. ASSUME NEW g \in Readings(c, p) PROVE g = f
  <2>1. \A h \in Readings(c, p) : h.opcode[1] = c[p + 1]
    BY <1>2, Zenon DEF Readings, StartingWith
  <2>2. g \in Table
    BY ReadingLies
  <2> QED
    BY <1>1, <2>1, <2>2, Zenon DEF OneRowPerByte
<1>4. ~Before(f, f)
  <2>1. PICK m \in Nat : m = Len(f.opcode)
    BY <1>1, RowShape
  <2>2. PICK r \in Nat : r = f.rank
    BY <1>1, TableIsWellFormed
  <2>3. ~(m > m) /\ ~(r < r)
    OBVIOUS
  <2> QED
    BY <2>1, <2>2, <2>3, Zenon DEF Before
<1> QED
  BY <1>3, <1>4 DEF FirstReadings

\* "The same decoder": asked for the instruction at any line's address, the
\* debugger is given the text and the length the listing has there, where the
\* rows and the buffers are small enough for the three bytes it fetches.
THEOREM CallbackAgreesHolds ==
  (RowsAreShort /\ OneRowPerByte /\ MemoryHoldsBuffers) => (Spec => []CallbackAgrees)
<1> SUFFICES ASSUME RowsAreShort, OneRowPerByte, MemoryHoldsBuffers PROVE Spec => []CallbackAgrees
  OBVIOUS
<1>1. TypeOK /\ Fitting /\ Listed => CallbackAgrees
  <2> SUFFICES ASSUME TypeOK, Fitting, Listed, NEW k \in DOMAIN out,
                      out[k].text.kind = "instruction" \/ out[k].at + Lookahead <= Len(code)
               PROVE  decode_one_6502(out[k].addr)
                        = {[text |-> out[k].text, len |-> Len(out[k].bytes)]}
    BY DEF CallbackAgrees
  <2>1. PICK line : line = out[k]
    OBVIOUS
  <2>2. Says(code, origin, line)
    BY <2>1 DEF Listed
  <2>3. PICK p \in Nat : p = line.at /\ p < Len(code)
    BY <2>2 DEF Says
  <2>4. PICK a : a = line.addr /\ a = Wrap16(origin + p)
    BY <2>2, <2>3 DEF Says
  <2>5. code \in Seq(Byte) /\ Len(code) \in Nat
    BY LenProperties DEF TypeOK
  <2>6. PICK d \in Seq(Byte) :
          /\ d = Fetched(a) /\ Len(d) = 3
          /\ \A i \in 1..3 : p + i <= Len(code) => d[i] = code[p + i]
    BY <2>4, FetchesBytes
  <2>7. 0 \in Nat /\ 0 < Len(d)
    BY <2>6
  <2>8. CASE Readings(code, p) # {}
    <3>1. PICK f \in Readings(code, p) :
            line.text = Instruction(f, code, p, a) /\ Len(line.bytes) = FormLen(f)
      BY <2>2, <2>3, <2>4, <2>8, Zenon DEF Says
    <3>2. PICK n \in Nat : n = FormLen(f) /\ n <= 3 /\ p + n <= Len(code)
      BY <2>3, <2>5, <3>1, ReadingLies, RowLength DEF RowsAreShort
    <3>3. Alike(code, p, d, 0, n)
      <4> SUFFICES ASSUME NEW i \in 1..n PROVE code[p + i] = d[0 + i]
        BY DEF Alike
      <4>1. i \in 1..3 /\ p + i <= Len(code) /\ 0 + i = i
        BY <2>5, <3>2
      <4> QED
        BY <2>6, <4>1
    <3>4. 0 + n <= Len(d)
      BY <2>6, <3>2
    <3>5. f \in Readings(d, 0)
      BY <2>3, <2>5, <2>7, <3>1, <3>2, <3>3, <3>4, AlikeReads
    <3>6. Instruction(f, code, p, a) = Instruction(f, d, 0, a)
      BY <2>3, <2>5, <2>7, <3>1, <3>2, <3>3, <3>4, AlikeTexts
    <3>7. FirstReadings(d, 0) = {f}
      BY <2>7, <3>5, OneReading
    <3>8. FirstLine(d, a) = {[text |-> Instruction(f, d, 0, a), len |-> FormLen(f)]}
      BY <3>5, <3>7 DEF FirstLine
    <3> QED
      BY <2>1, <2>4, <2>6, <3>1, <3>6, <3>8, Zenon DEF decode_one_6502
  <2>9. CASE Readings(code, p) = {}
    <3>1. line.text = Datum(code, p) /\ Len(line.bytes) = 1
      BY <2>2, <2>3, <2>9, Zenon DEF Says
    <3>2. p + 3 <= Len(code)
      BY <2>1, <2>3, <3>1 DEF Datum, Lookahead
    <3>3. Readings(d, 0) = {}
      <4> SUFFICES ASSUME NEW g \in Readings(d, 0) PROVE FALSE
        OBVIOUS
      <4>1. PICK n \in Nat : n = FormLen(g) /\ n <= 3
        BY <2>7, ReadingLies, RowLength DEF RowsAreShort
      <4>2. Alike(d, 0, code, p, n)
        <5> SUFFICES ASSUME NEW i \in 1..n PROVE d[0 + i] = code[p + i]
          BY DEF Alike
        <5>1. i \in 1..3 /\ p + i <= Len(code) /\ 0 + i = i
          BY <2>5, <3>2, <4>1
        <5> QED
          BY <2>6, <5>1
      <4>3. p + n <= Len(code)
        BY <2>5, <3>2, <4>1
      <4>4. g \in Readings(code, p)
        BY <2>3, <2>5, <2>7, <4>1, <4>2, <4>3, AlikeReads
      <4> QED
        BY <2>9, <4>4
    <3>4. Datum(d, 0) = Datum(code, p)
      <4>1. 1 \in 1..3 /\ p + 1 <= Len(code)
        BY <2>3, <2>5
      <4>2. d[1] = code[p + 1] /\ 0 + 1 = 1
        BY <2>6, <4>1
      <4> QED
        BY <4>2 DEF Datum
    <3>5. FirstLine(d, a) = {[text |-> Datum(d, 0), len |-> 1]}
      BY <3>3 DEF FirstLine
    <3> QED
      BY <2>1, <2>4, <2>6, <3>1, <3>4, <3>5, Zenon DEF decode_one_6502
  <2> QED
    BY <2>8, <2>9
<1> QED
  BY <1>1, TypeCorrect, FittingHolds, ListedHolds, PTL

==============================================================================
