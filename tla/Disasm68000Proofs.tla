-------------------------- MODULE Disasm68000Proofs --------------------------
(***************************************************************************)
(* The 68000 disassembler proved right for every buffer, every load        *)
(* address and every size of the address space from 64K up.                *)
(***************************************************************************)
EXTENDS Disasm68000, WordLemmas, SequenceTheorems

------------------------------------------------------------------------------
(* Forms and their slots *)

\* A form of the table has up to two slots, each of the type slots have.
LEMMA FormShape ==
  ASSUME NEW f \in SET
  PROVE  \E n \in 0..2 :
           /\ DOMAIN f.operands = 1..n /\ Len(f.operands) = n
           /\ \A s \in 1..n : f.operands[s] \in OperandSlot
<1>1. f.operands \in Seq(OperandSlot) /\ Len(f.operands) <= 2
  BY RowsAreWellFormed
<1>2. Len(f.operands) \in Nat /\ DOMAIN f.operands = 1..Len(f.operands)
  BY <1>1, LenProperties
<1>3. \A s \in 1..Len(f.operands) : f.operands[s] \in OperandSlot
  BY <1>1, ElementOfSeq
<1>4. PICK n \in Nat : n = Len(f.operands)
  BY <1>2
<1>5. n \in 0..2
  <2>1. n <= 2
    BY <1>1, <1>4
  <2> QED
    BY <2>1
<1> QED
  BY <1>2, <1>3, <1>4, <1>5, Zenon

\* A slot of a form is its first or its second, and of its type.
LEMMA SlotTyped ==
  ASSUME NEW f \in SET, NEW s \in DOMAIN f.operands
  PROVE  s \in {1, 2} /\ f.operands[s] \in OperandSlot
<1>1. PICK n \in 0..2 :
        DOMAIN f.operands = 1..n /\ \A t \in 1..n : f.operands[t] \in OperandSlot
  BY FormShape
<1> QED
  BY <1>1

\* A slot has no extension word, one or two.
LEMMA ExtensionLenIs ==
  ASSUME NEW slot, NEW word, NEW size
  PROVE  ExtensionLen(slot, word, size) \in {0, 2, 4}
BY DEF ExtensionLen

\* So has a slot of a form, and one that is not there has none.
LEMMA SlotLenIs ==
  ASSUME NEW f, NEW word, NEW s
  PROVE  SlotLen(f, word, s) \in {0, 2, 4}
BY ExtensionLenIs DEF SlotLen

\* Slot s reads its own part of the instruction, behind the opcode word.
LEMMA SlotPlace ==
  ASSUME NEW f, NEW word, NEW s \in {1, 2}
  PROVE  \E at \in Nat, n \in {0, 2, 4}, len \in Nat :
           /\ at = ExtensionAt(f, word, s) /\ n = SlotLen(f, word, s)
           /\ len = InstructionLen(f, word)
           /\ at >= 2 /\ at + n <= len
<1>1. PICK m \in {0, 2, 4} : m = SlotLen(f, word, 1)
  BY SlotLenIs
<1>2. PICK n \in {0, 2, 4} : n = SlotLen(f, word, 2)
  BY SlotLenIs
<1>3. InstructionLen(f, word) = 2 + m + n
  BY <1>1, <1>2 DEF InstructionLen
<1>4. s \notin ReadBefore(f, s)
  BY DEF ReadBefore
<1>5. CASE s = 1
  BY <1>1, <1>2, <1>3, <1>4, <1>5 DEF ExtensionAt
<1>6. CASE s = 2
  BY <1>1, <1>2, <1>3, <1>4, <1>6 DEF ExtensionAt
<1> QED
  BY <1>5, <1>6

\* An instruction is at least its opcode word.
LEMMA InstructionLenIs ==
  ASSUME NEW f, NEW word
  PROVE  InstructionLen(f, word) \in Nat /\ InstructionLen(f, word) >= 2
BY SlotPlace

\* A word of the buffer.
LEMMA WordRead ==
  ASSUME NEW c \in Seq(Byte), NEW q \in Nat, q + 2 <= Len(c)
  PROVE  /\ be16(c, q) \in Word16 /\ be16(c, q) \in Nat
         /\ HiByte(be16(c, q)) = c[q + 1] /\ LoByte(be16(c, q)) = c[q + 2]
         /\ c[q + 1] \in Byte /\ c[q + 2] \in Byte
<1>1. c[q + 1] \in Byte /\ c[q + 2] \in Byte
  BY TwoBytes
<1>2. PICK w : w = be16(c, q) /\ w = WordOf(c[q + 2], c[q + 1])
  BY DEF be16
<1>3. w \in Word16 /\ LoByte(w) = c[q + 2] /\ HiByte(w) = c[q + 1]
  BY <1>1, <1>2, WordRoundTrip
<1> QED
  BY <1>1, <1>2, <1>3, WordIsInt

\* Every reading is a row of the table, of a size the word names.
LEMMA ReadingIs ==
  ASSUME NEW c, NEW p, NEW f \in Readings(c, p), be16(c, p) \div 4096 \in 0..15
  PROVE  /\ f \in SET
         /\ FixedPart(be16(c, p), f) = f.base
         /\ m68k_size(f.size, be16(c, p)) # "none"
         /\ EaAllowed(f, be16(c, p)) /\ ImmediateAllowed(f, be16(c, p), c, p)
<1>1. PICK n \in 0..15 : n = be16(c, p) \div 4096
  OBVIOUS
<1>2. /\ f \in StartingWith[be16(c, p) \div 4096]
      /\ FixedPart(be16(c, p), f) = f.base
      /\ m68k_size(f.size, be16(c, p)) # "none"
      /\ EaAllowed(f, be16(c, p)) /\ ImmediateAllowed(f, be16(c, p), c, p)
  BY DEF Readings
<1>3. StartingWith[n] \subseteq SET
  BY DEF StartingWith
<1> QED
  BY <1>1, <1>2, <1>3

\* Fields of a word.
LEMMA BitsAre ==
  /\ Bit(0) = 1 /\ Bit(1) = 2 /\ Bit(2) = 4 /\ Bit(3) = 8 /\ Bit(4) = 16 /\ Bit(6) = 64
  /\ Bit(8) = 256 /\ Bit(9) = 512 /\ Bit(12) = 4096
BY DEF Bit

\* What the fields of a word can hold.
LEMMA FieldIs ==
  ASSUME NEW w \in Nat, NEW shift \in {0, 6, 8, 9, 12}
  PROVE  /\ Field(w, shift, 1) \in 0..1 /\ Field(w, shift, 2) \in 0..3
         /\ Field(w, shift, 3) \in 0..7 /\ Field(w, shift, 4) \in 0..15
         /\ Field(w, shift, 6) \in 0..63 /\ Field(w, shift, 8) \in 0..255
<1>1. PICK d \in {1, 64, 256, 512, 4096} : d = Bit(shift)
  BY BitsAre
<1>2. PICK x \in Nat : x = w \div d
  <2>1. d \in Nat /\ d > 0
    OBVIOUS
  <2> QED
    BY <2>1
<1>3. /\ x % 2 \in 0..1 /\ x % 4 \in 0..3 /\ x % 8 \in 0..7 /\ x % 16 \in 0..15
      /\ x % 64 \in 0..63 /\ x % 256 \in 0..255
  OBVIOUS
<1>4. x = w \div Bit(shift)
  BY <1>1, <1>2
<1>5. /\ Field(w, shift, 1) = x % Bit(1) /\ Field(w, shift, 2) = x % Bit(2)
      /\ Field(w, shift, 3) = x % Bit(3) /\ Field(w, shift, 4) = x % Bit(4)
      /\ Field(w, shift, 6) = x % Bit(6) /\ Field(w, shift, 8) = x % Bit(8)
  BY <1>4 DEF Field
<1> QED
  BY <1>3, <1>5, BitsAre

\* The top four bits of a word are a number below 16.
LEMMA TopOfWord ==
  ASSUME NEW w \in Word16
  PROVE  w \in Nat /\ w \div 4096 \in 0..15
<1>1. w \in Nat /\ w < 65536
  BY SMTT(60) DEF Word16
<1> QED
  BY <1>1

\* A size is one of three, or none.
LEMMA SizeIs ==
  ASSUME NEW f \in SET, NEW w \in Nat
  PROVE  m68k_size(f.size, w) \in {"none", "B", "W", "L"}
<1>1. f.size \in {"B", "W", "L", "Std6", "Move", "WL8", "WL6"}
  BY RowsAreWellFormed
<1>2. CASE f.size = "Std6"
  <2>1. PICK x \in 0..3 : x = Field(w, 6, 2)
    BY FieldIs
  <2> QED
    BY <1>2, <2>1 DEF m68k_size
<1>3. CASE f.size = "Move"
  <2>1. PICK x \in 0..3 : x = Field(w, 12, 2)
    BY FieldIs
  <2> QED
    BY <1>3, <2>1 DEF m68k_size
<1>4. CASE f.size = "WL8"
  <2>1. PICK x \in 0..1 : x = Field(w, 8, 1)
    BY FieldIs
  <2> QED
    BY <1>4, <2>1 DEF m68k_size
<1>5. CASE f.size = "WL6"
  <2>1. PICK x \in 0..1 : x = Field(w, 6, 1)
    BY FieldIs
  <2> QED
    BY <1>5, <2>1 DEF m68k_size
<1>6. CASE f.size \in {"B", "W", "L"}
  BY <1>6 DEF m68k_size
<1> QED
  BY <1>1, <1>2, <1>3, <1>4, <1>5, <1>6

\* The mode and the register of an effective address.
LEMMA ModeIs ==
  ASSUME NEW slot \in OperandSlot, NEW w \in Nat
  PROVE  \E m \in 0..7, r \in 0..7 :
           /\ ModeAndRegister(slot, w) = <<m, r>>
           /\ ModeOf(slot, w) = ModeName(m, r)
           /\ Field(w, slot.shift, 6) = IF slot.kind = "Dest" THEN 8 * r + m ELSE 8 * m + r
<1>1. slot.shift \in {0, 6, 9}
  BY DEF OperandSlot
<1>2. PICK x \in 0..63 : x = Field(w, slot.shift, 6)
  BY <1>1, FieldIs
<1>3. PICK m \in 0..7 : m = x \div 8
  OBVIOUS
<1>4. PICK r \in 0..7 : r = x % 8
  OBVIOUS
<1>5. x = 8 * m + r
  BY <1>3, <1>4
<1>6. CASE slot.kind = "Dest"
  <2>1. ModeAndRegister(slot, w) = <<r, m>>
    BY <1>2, <1>3, <1>4, <1>6 DEF ModeAndRegister
  <2> QED
    BY <1>2, <1>5, <1>6, <2>1 DEF ModeOf
<1>7. CASE slot.kind # "Dest"
  <2>1. ModeAndRegister(slot, w) = <<m, r>>
    BY <1>2, <1>3, <1>4, <1>7 DEF ModeAndRegister
  <2> QED
    BY <1>2, <1>5, <1>7, <2>1 DEF ModeOf
<1> QED
  BY <1>6, <1>7

------------------------------------------------------------------------------
(* The texts are texts *)

\* The syntaxes by name.
LEMMA SyntaxesAre ==
  /\ ALL \subseteq Syntaxes
  /\ ALL = {"(An)", "(An)+", "-(An)", "d16(An)", "d8(An+Xn)", "(xxx).W", "(xxx).L", "Dn", "An",
            "d16(PC)", "d8(PC+Xn)", "#imm"}
  /\ {"#imm", "d16(An)", "Dn", "An", "-(An)", "(An)+", "Ccr", "Sr", "Usp", "list", "target"} \subseteq Syntaxes
BY DEF Syntaxes, ALL, DATA, DATA_NOIMM, DATA_ALT, MEM_ALT

\* An operand of up to three numbers is an operand.
LEMMA ShownTyped ==
  /\ \A syntax \in Syntaxes : Shown(syntax, <<>>) \in OperandText
  /\ \A syntax \in Syntaxes, x \in Int : Shown(syntax, <<x>>) \in OperandText
  /\ \A syntax \in Syntaxes, x, y \in Int : Shown(syntax, <<x, y>>) \in OperandText
  /\ \A syntax \in Syntaxes, x, y, z \in Int : Shown(syntax, <<x, y, z>>) \in OperandText
<1>1. <<>> \in Seq(Int)
  OBVIOUS
<1>2. \A x \in Int : <<x>> \in Seq(Int)
  OBVIOUS
<1>3. \A x, y \in Int : <<x, y>> \in Seq(Int)
  OBVIOUS
<1>4. \A x, y, z \in Int : <<x, y, z>> \in Seq(Int)
  OBVIOUS
<1> QED
  BY <1>1, <1>2, <1>3, <1>4, Zenon DEF Shown, OperandText

\* A wrapped number is an address.
LEMMA AddressIsInt ==
  ASSUME NEW n \in Int
  PROVE  WrapAddress(n) \in Address /\ WrapAddress(n) \in Int
BY AddressesHoldWords DEF WrapAddress, Address

\* The numbers a word stands for.
LEMMA NumbersOf ==
  ASSUME NEW w \in Word16
  PROVE  /\ AsI16(w) \in Int /\ AsI8(LoByte(w)) \in Int /\ index_reg(w) \in Int
         /\ w % 16 \in Int /\ w % 8 \in Int /\ AsI8(w % 256) \in Int
<1>1. w \in Nat
  BY WordIsInt
<1>2. w % 256 \in 0..255 /\ w % 16 \in 0..15 /\ w % 8 \in 0..7 /\ w \div 2048 \in Int
  BY <1>1
<1> QED
  BY <1>1, <1>2 DEF AsI16, AsI8, LoByte, index_reg

\* A reversed list is a number.
LEMMA ReversedIsInt ==
  ASSUME NEW w \in Word16
  PROVE  ReverseBits(w) \in Int
<1>1. w \in Nat
  BY WordIsInt
<1>2. PICK lo \in 0..255 : lo = LoByte(w)
  BY <1>1 DEF LoByte
<1>3. PICK hi \in 0..255 : hi = HiByte(w)
  BY <1>1 DEF HiByte
<1>4. \A n \in 0..15 : Reverse4(n) \in Int
  BY DEF Reverse4
<1>5. \A b \in 0..255 : b % 16 \in 0..15 /\ b \div 16 \in 0..15
  OBVIOUS
<1>6. \A b \in 0..255 : Reverse8(b) \in Int
  BY <1>4, <1>5 DEF Reverse8
<1>7. PICK x \in Int : x = Reverse8(lo)
  BY <1>6
<1>8. PICK y \in Int : y = Reverse8(hi)
  BY <1>6
<1>9. ReverseBits(w) = 256 * x + y
  BY <1>2, <1>3, <1>7, <1>8, Zenon DEF ReverseBits
<1> QED
  BY <1>9

\* The words behind offset q of a buffer with n bytes left there.
LEMMA TwoWords ==
  ASSUME NEW c \in Seq(Byte), NEW q \in Nat, NEW n \in {2, 4}, q + n <= Len(c)
  PROVE  /\ be16(c, q) \in Word16 /\ be16(c, q) \in Int
         /\ n = 4 => be16(c, q + 2) \in Word16 /\ be16(c, q + 2) \in Int
<1>1. PICK l \in Nat : l = Len(c)
  BY LenProperties
<1>2. q + 2 <= Len(c)
  BY <1>1
<1>3. be16(c, q) \in Word16 /\ be16(c, q) \in Int
  BY <1>2, WordRead
<1>4. CASE n = 4
  <2>1. PICK r \in Nat : r = q + 2 /\ r + 2 <= Len(c)
    BY <1>1, <1>4
  <2>2. be16(c, r) \in Word16 /\ be16(c, r) \in Int
    BY <2>1, WordRead
  <2> QED
    BY <1>3, <2>1, <2>2
<1> QED
  BY <1>3, <1>4

\* Zero is a number, which the provers want to be told of a parameter.
LEMMA ZeroIsInt == 0 \in Int
OBVIOUS

\* An immediate of either size is an operand, if its words are there.
LEMMA SizedImmediateTyped ==
  ASSUME NEW size, NEW c \in Seq(Byte), NEW q \in Nat, NEW n \in Nat,
         q + n <= Len(c), n = IF size = "L" THEN 4 ELSE 2
  PROVE  SizedImmediate(size, c, q) \in OperandText
<1> "#imm" \in Syntaxes
  BY SyntaxesAre
<1>1. n \in {2, 4} /\ (size = "L" => n = 4)
  OBVIOUS
<1>2. PICK x \in Int : x = be16(c, q)
  BY <1>1, TwoWords
<1>3. CASE size = "L"
  <2>1. PICK y \in Int : y = be16(c, q + 2)
    BY <1>1, <1>3, TwoWords
  <2>2. Shown("#imm", <<x, y>>) \in OperandText
    BY <2>1, ShownTyped, Zenon
  <2> QED
    BY <1>2, <1>3, <2>1, <2>2, Zenon DEF SizedImmediate, Immediate
<1>4. CASE size # "L"
  <2>1. Shown("#imm", <<0, x>>) \in OperandText
    BY ZeroIsInt, ShownTyped, Zenon
  <2> QED
    BY <1>2, <1>4, <2>1, Zenon DEF SizedImmediate, Immediate
<1> QED
  BY <1>3, <1>4

\* A wrapped target is an address.
LEMMA TargetIsInt ==
  ASSUME NEW a \in Int, NEW b \in Int
  PROVE  WrapAddress(a + b) \in Address /\ WrapAddress(a + b) \in Int
<1>1. PICK n \in Int : n = a + b
  OBVIOUS
<1> QED
  BY <1>1, AddressIsInt

\* A short immediate is an operand.
LEMMA ImmediateTyped ==
  ASSUME NEW n \in Int
  PROVE  Immediate(0, n) \in OperandText
BY SyntaxesAre, ShownTyped, ZeroIsInt DEF Immediate

\* The target of a branch is an operand.
LEMMA TargetTyped ==
  ASSUME NEW addr \in Int, NEW v \in Int
  PROVE  BranchTarget(addr, v) \in OperandText
<1>1. PICK a \in Int : a = addr + 2
  OBVIOUS
<1>2. PICK t \in Int : t = WrapAddress(a + v)
  BY TargetIsInt
<1>3. BranchTarget(addr, v) = Shown("target", <<t>>)
  BY <1>1, <1>2, Zenon DEF BranchTarget
<1> QED
  BY <1>3, SyntaxesAre, ShownTyped

\* An effective address with one extension word is an operand.
LEMMA EaWordTyped ==
  ASSUME NEW mode \in {"d16(An)", "d8(An+Xn)", "(xxx).W", "d16(PC)", "d8(PC+Xn)"},
         NEW reg \in Int, NEW size, NEW c \in Seq(Byte), NEW q \in Nat, NEW from \in Int,
         q + 2 <= Len(c)
  PROVE  render_ea(mode, reg, size, c, q, from) \in OperandText
<1>1. PICK w \in Word16 : w = be16(c, q) /\ w \in Int
  BY TwoWords
<1>2. PICK d \in Int : d = AsI16(w)
  BY NumbersOf
<1>3. PICK b \in Int : b = AsI8(LoByte(w))
  BY NumbersOf
<1>4. PICK x \in Int : x = index_reg(w)
  BY NumbersOf
<1>5. PICK t \in Int : t = WrapAddress(from + d)
  BY TargetIsInt
<1>6. PICK u \in Int : u = WrapAddress(from + b)
  BY TargetIsInt
<1>7. mode \in Syntaxes
  BY SyntaxesAre
<1>8. /\ Shown(mode, <<reg, d>>) \in OperandText /\ Shown(mode, <<reg, b, x>>) \in OperandText
      /\ Shown(mode, <<w>>) \in OperandText /\ Shown(mode, <<t>>) \in OperandText
      /\ Shown(mode, <<u, x>>) \in OperandText
  BY <1>1, <1>7, ShownTyped, Zenon
<1>9. render_ea(mode, reg, size, c, q, from)
        \in {Shown(mode, <<reg, d>>), Shown(mode, <<reg, b, x>>), Shown(mode, <<w>>),
             Shown(mode, <<t>>), Shown(mode, <<u, x>>)}
  BY <1>1, <1>2, <1>3, <1>4, <1>5, <1>6 DEF render_ea
<1> QED
  BY <1>8, <1>9, Zenon

\* An absolute long address is an operand.
LEMMA EaLongTyped ==
  ASSUME NEW reg, NEW size, NEW c \in Seq(Byte), NEW q \in Nat, NEW from, q + 4 <= Len(c)
  PROVE  render_ea("(xxx).L", reg, size, c, q, from) \in OperandText
<1>1. PICK x \in Int, y \in Int : x = be16(c, q) /\ y = be16(c, q + 2)
  BY TwoWords
<1>2. Shown("(xxx).L", <<x, y>>) \in OperandText
  BY SyntaxesAre, ShownTyped
<1>3. render_ea("(xxx).L", reg, size, c, q, from) = Shown("(xxx).L", <<be16(c, q), be16(c, q + 2)>>)
  BY DEF render_ea
<1> QED
  BY <1>1, <1>2, <1>3, Zenon

\* An effective address without extension words is an operand.
LEMMA EaPlainTyped ==
  ASSUME NEW mode \in {"(An)", "(An)+", "-(An)", "Dn", "An"},
         NEW reg \in Int, NEW size, NEW c, NEW q, NEW from
  PROVE  render_ea(mode, reg, size, c, q, from) \in OperandText
<1>1. render_ea(mode, reg, size, c, q, from) = Shown(mode, <<reg>>)
  BY DEF render_ea
<1>2. mode \in Syntaxes
  BY SyntaxesAre
<1> QED
  BY <1>1, <1>2, ShownTyped, Zenon

\* What a slot leaves behind the opcode word.
LEMMA EaExtensionLen ==
  ASSUME NEW slot, NEW word, NEW size, IsEa(slot)
  PROVE  /\ ModeOf(slot, word) \in {"d16(An)", "d8(An+Xn)", "(xxx).W", "d16(PC)", "d8(PC+Xn)"}
              => ExtensionLen(slot, word, size) = 2
         /\ ModeOf(slot, word) = "(xxx).L" => ExtensionLen(slot, word, size) = 4
         /\ ModeOf(slot, word) = "#imm"
              => ExtensionLen(slot, word, size) = IF size = "L" THEN 4 ELSE 2
BY DEF ExtensionLen, IsEa

\* How many bytes behind the opcode word the other slots have.
LEMMA OtherExtensionLen ==
  ASSUME NEW slot, NEW word, NEW size
  PROVE  /\ slot.kind = "ImmSized" => ExtensionLen(slot, word, size) = IF size = "L" THEN 4 ELSE 2
         /\ slot.kind \in {"MovepDisp", "ImmWord", "DispW", "RegList"} => ExtensionLen(slot, word, size) = 2
         /\ slot.kind = "BranchW" /\ word % 256 = 0 => ExtensionLen(slot, word, size) = 2
BY DEF ExtensionLen, IsEa

\* The register of an effective address is one of eight.
LEMMA RegisterIs ==
  ASSUME NEW slot \in OperandSlot, NEW word \in Nat
  PROVE  ModeAndRegister(slot, word)[2] \in 0..7 /\ ModeAndRegister(slot, word)[2] \in Int
<1>1. PICK m \in 0..7, r \in 0..7 : ModeAndRegister(slot, word) = <<m, r>>
  BY ModeIs
<1> QED
  BY <1>1

\* Every effective address is an operand, if its words are there.
LEMMA EaTyped ==
  ASSUME NEW slot \in OperandSlot, IsEa(slot), NEW word \in Nat, NEW size,
         ModeOf(slot, word) \in ALL,
         NEW c \in Seq(Byte), NEW q \in Nat, NEW from \in Int,
         NEW n \in Nat, n = ExtensionLen(slot, word, size), q + n <= Len(c)
  PROVE  render_ea(ModeOf(slot, word), ModeAndRegister(slot, word)[2], size, c, q, from) \in OperandText
<1>1. PICK reg \in Int : reg = ModeAndRegister(slot, word)[2]
  BY RegisterIs, Zenon
<1>2. PICK mode \in ALL : mode = ModeOf(slot, word)
  OBVIOUS
<1>3. CASE mode \in {"d16(An)", "d8(An+Xn)", "(xxx).W", "d16(PC)", "d8(PC+Xn)"}
  <2>1. n = 2
    BY <1>2, <1>3, EaExtensionLen
  <2> QED
    BY <1>1, <1>2, <1>3, <2>1, EaWordTyped
<1>4. CASE mode = "(xxx).L"
  <2>1. n = 4
    BY <1>2, <1>4, EaExtensionLen
  <2> QED
    BY <1>1, <1>2, <1>4, <2>1, EaLongTyped
<1>5. CASE mode = "#imm"
  <2>1. n = IF size = "L" THEN 4 ELSE 2
    BY <1>2, <1>5, EaExtensionLen
  <2>2. SizedImmediate(size, c, q) \in OperandText
    BY <2>1, SizedImmediateTyped
  <2>3. render_ea("#imm", reg, size, c, q, from) = SizedImmediate(size, c, q)
    BY DEF render_ea
  <2> QED
    BY <1>1, <1>2, <1>5, <2>2, <2>3, Zenon
<1>6. CASE mode \in {"(An)", "(An)+", "-(An)", "Dn", "An"}
  BY <1>1, <1>2, <1>6, EaPlainTyped, Zenon
<1> QED
  BY <1>3, <1>4, <1>5, <1>6, SyntaxesAre

\* The syntax of an effective address is one of those its slot allows.
LEMMA ModeAllowed ==
  ASSUME NEW f \in SET, NEW word, EaAllowed(f, word), NEW s \in DOMAIN f.operands,
         IsEa(f.operands[s])
  PROVE  ModeOf(f.operands[s], word) \in f.operands[s].modes /\ ModeOf(f.operands[s], word) \in ALL
<1>1. f.operands[s] \in OperandSlot
  BY SlotTyped
<1>2. f.operands[s].modes \subseteq ALL
  BY <1>1 DEF OperandSlot
<1>3. ModeOf(f.operands[s], word) \in f.operands[s].modes
  BY Zenon DEF EaAllowed
<1> QED
  BY <1>2, <1>3

\* What the text of each kind of slot is.
LEMMA EaOperand ==
  ASSUME NEW f, NEW word, NEW c, NEW q, NEW from, NEW addr, NEW s,
         IsEa(f.operands[s])
  PROVE  OperandAt(f, word, c, q, from, addr, s)
           = render_ea(ModeOf(f.operands[s], word), ModeAndRegister(f.operands[s], word)[2],
                       m68k_size(f.size, word), c, q, from)
BY DEF OperandAt, IsEa

\* render_m68k of a slot that holds a register.
LEMMA RegisterOperand ==
  ASSUME NEW f, NEW word, NEW c, NEW q, NEW from, NEW addr, NEW s,
         f.operands[s].kind \in {"Dn", "An", "-(An)", "(An)+"}
  PROVE  OperandAt(f, word, c, q, from, addr, s)
           = Shown(f.operands[s].kind, <<Field(word, f.operands[s].shift, 3)>>)
BY DEF OperandAt, IsEa

\* render_m68k of the immediates within the opcode word.
LEMMA FieldOperand ==
  ASSUME NEW f, NEW word, NEW c, NEW q, NEW from, NEW addr, NEW s
  PROVE  /\ f.operands[s].kind = "Quick8" =>
              OperandAt(f, word, c, q, from, addr, s) = Immediate(0, AsI8(LoByte(word)))
         /\ f.operands[s].kind = "Quick3" /\ Field(word, f.operands[s].shift, 3) = 0 =>
              OperandAt(f, word, c, q, from, addr, s) = Immediate(0, 8)
         /\ f.operands[s].kind = "Quick3" /\ Field(word, f.operands[s].shift, 3) # 0 =>
              OperandAt(f, word, c, q, from, addr, s) = Immediate(0, Field(word, f.operands[s].shift, 3))
         /\ f.operands[s].kind = "Vec4" =>
              OperandAt(f, word, c, q, from, addr, s) = Immediate(0, word % 16)
         /\ f.operands[s].kind \in {"Ccr", "Sr", "Usp"} =>
              OperandAt(f, word, c, q, from, addr, s) = Shown(f.operands[s].kind, <<>>)
         /\ f.operands[s].kind = "BranchW" /\ word % 256 # 0 =>
              OperandAt(f, word, c, q, from, addr, s) = BranchTarget(addr, AsI8(word % 256))
BY DEF OperandAt, IsEa

\* render_m68k of an immediate word.
LEMMA ImmWordOperand ==
  ASSUME NEW f, NEW word, NEW c, NEW q, NEW from, NEW addr, NEW s,
         f.operands[s].kind = "ImmWord"
  PROVE  OperandAt(f, word, c, q, from, addr, s) = Immediate(0, be16(c, q))
BY DEF OperandAt, IsEa

\* render_m68k of an immediate of the size of the instruction.
LEMMA ImmSizedOperand ==
  ASSUME NEW f, NEW word, NEW c, NEW q, NEW from, NEW addr, NEW s,
         f.operands[s].kind = "ImmSized"
  PROVE  OperandAt(f, word, c, q, from, addr, s) = SizedImmediate(m68k_size(f.size, word), c, q)
BY DEF OperandAt, IsEa

\* render_m68k of the address of MOVEP.
LEMMA MovepDispOperand ==
  ASSUME NEW f, NEW word, NEW c, NEW q, NEW from, NEW addr, NEW s,
         f.operands[s].kind = "MovepDisp", NEW r, r = word % 8
  PROVE  OperandAt(f, word, c, q, from, addr, s) = Shown("d16(An)", <<r, AsI16(be16(c, q))>>)
BY DEF OperandAt, IsEa

\* render_m68k of a register list.
LEMMA RegListOperand ==
  ASSUME NEW f, NEW word, NEW c, NEW q, NEW from, NEW addr, NEW s,
         f.operands[s].kind = "RegList"
  PROVE  OperandAt(f, word, c, q, from, addr, s) = Shown("list", <<ListOrder(f, word, be16(c, q))>>)
BY DEF OperandAt, IsEa

\* render_m68k of a branch whose displacement is a word.
LEMMA BranchWordOperand ==
  ASSUME NEW f, NEW word, NEW c, NEW q, NEW from, NEW addr, NEW s,
         f.operands[s].kind = "DispW" \/ (f.operands[s].kind = "BranchW" /\ word % 256 = 0)
  PROVE  OperandAt(f, word, c, q, from, addr, s) = BranchTarget(addr, AsI16(be16(c, q)))
BY DEF OperandAt, IsEa

\* Every operand of a form that is decoded is one.
LEMMA OperandTyped ==
  ASSUME NEW c \in Seq(Byte), NEW p \in Nat, p + 2 <= Len(c), NEW addr \in Int,
         NEW f \in SET, EaAllowed(f, be16(c, p)), p + InstructionLen(f, be16(c, p)) <= Len(c),
         NEW s \in DOMAIN f.operands
  PROVE  Operand(f, be16(c, p), c, p, addr, s) \in OperandText
<1> DEFINE slot == f.operands[s]
<1>1. PICK word \in Word16 : word = be16(c, p)
  BY WordRead
<1>2. word \in Nat /\ word \in Int
  BY WordIsInt
<1>3. PICK size : size = m68k_size(f.size, word)
  OBVIOUS
<1>4. slot \in OperandSlot /\ s \in {1, 2}
  BY SlotTyped
<1>5. PICK at \in Nat, n \in {0, 2, 4} :
        at = ExtensionAt(f, word, s) /\ n = SlotLen(f, word, s) /\ p + at + n <= Len(c)
  <2>1. PICK at \in Nat, n \in {0, 2, 4}, len \in Nat :
          /\ at = ExtensionAt(f, word, s) /\ n = SlotLen(f, word, s)
          /\ len = InstructionLen(f, word) /\ at + n <= len
    BY <1>4, SlotPlace, Zenon
  <2>2. p + len <= Len(c)
    BY <1>1, <2>1
  <2>3. PICK l \in Nat : l = Len(c)
    BY LenProperties
  <2>4. p + at + n <= l
    BY <2>1, <2>2, <2>3
  <2> QED
    BY <2>1, <2>3, <2>4
<1>6. n = ExtensionLen(slot, word, size)
  BY <1>3, <1>5, Zenon DEF SlotLen
<1>7. PICK q \in Nat : q = p + at
  OBVIOUS
<1>8. q + n <= Len(c)
  BY <1>5, <1>7
<1>9. PICK reg \in 0..7 : reg = Field(word, slot.shift, 3) /\ reg \in Int
  <2>1. slot.shift \in {0, 6, 9}
    BY <1>4 DEF OperandSlot
  <2> QED
    BY <1>2, <2>1, FieldIs
<1>10. PICK from \in Int :
         /\ from = ExtensionAddress(addr, at)
         /\ Operand(f, word, c, p, addr, s) = OperandAt(f, word, c, q, from, addr, s)
  <2>1. PICK a \in Int : a = addr + at
    OBVIOUS
  <2>2. WrapAddress(a) \in Int
    BY AddressIsInt
  <2>3. PICK from \in Int : from = ExtensionAddress(addr, at)
    BY <2>1, <2>2, Zenon DEF ExtensionAddress
  <2>4. Operand(f, word, c, p, addr, s) = OperandAt(f, word, c, q, from, addr, s)
    BY <1>5, <1>7, <2>3, Zenon DEF Operand
  <2> QED
    BY <2>3, <2>4
<1> SUFFICES OperandAt(f, word, c, q, from, addr, s) \in OperandText
  BY <1>1, <1>10
<1>11. CASE IsEa(slot)
  <2>2. ModeOf(slot, word) \in ALL
    BY <1>1, <1>11, ModeAllowed, Zenon
  <2>3. render_ea(ModeOf(slot, word), ModeAndRegister(slot, word)[2], size, c, q, from) \in OperandText
    BY <1>2, <1>4, <1>6, <1>8, <1>11, <2>2, EaTyped
  <2> QED
    BY <1>3, <1>11, <2>3, EaOperand
<1>12. CASE slot.kind \in {"Dn", "An", "-(An)", "(An)+"}
  <2>1. slot.kind \in Syntaxes
    BY <1>12, SyntaxesAre
  <2>2. Shown(slot.kind, <<reg>>) \in OperandText
    BY <1>9, <2>1, ShownTyped, Zenon
  <2> QED
    BY <1>9, <1>12, <2>2, RegisterOperand
<1>13. CASE slot.kind = "Quick3"
  <2>1. Immediate(0, reg) \in OperandText /\ Immediate(0, 8) \in OperandText
    BY <1>9, ImmediateTyped
  <2> QED
    BY <1>9, <1>13, <2>1, FieldOperand
<1>14. CASE slot.kind = "Quick8"
  <2>1. Immediate(0, AsI8(LoByte(word))) \in OperandText
    BY NumbersOf, ImmediateTyped
  <2> QED
    BY <1>14, <2>1, FieldOperand
<1>15. CASE slot.kind = "Vec4"
  <2>1. Immediate(0, word % 16) \in OperandText
    BY NumbersOf, ImmediateTyped
  <2> QED
    BY <1>15, <2>1, FieldOperand
<1>16. CASE slot.kind \in {"Ccr", "Sr", "Usp"}
  <2>1. Shown(slot.kind, <<>>) \in OperandText
    BY <1>16, SyntaxesAre, ShownTyped
  <2> QED
    BY <1>16, <2>1, FieldOperand
<1>17. CASE slot.kind = "ImmSized"
  <2>1. n = IF size = "L" THEN 4 ELSE 2
    BY <1>6, <1>17, OtherExtensionLen
  <2>2. SizedImmediate(size, c, q) \in OperandText
    BY <1>8, <2>1, SizedImmediateTyped
  <2> QED
    BY <1>3, <1>17, <2>2, ImmSizedOperand
<1>18. CASE slot.kind = "BranchW" /\ word % 256 # 0
  <2>1. BranchTarget(addr, AsI8(word % 256)) \in OperandText
    BY NumbersOf, TargetTyped
  <2> QED
    BY <1>18, <2>1, FieldOperand
<1>19. CASE slot.kind \in {"ImmWord", "MovepDisp", "RegList", "DispW"} \/ (slot.kind = "BranchW" /\ word % 256 = 0)
  <2>1. n = 2
    BY <1>6, <1>19, OtherExtensionLen
  <2>2. PICK x \in Word16 : x = be16(c, q) /\ x \in Int
    BY <1>8, <2>1, TwoWords
  <2>3. PICK y \in Int : y = AsI16(x)
    BY NumbersOf
  <2>4. CASE slot.kind = "ImmWord"
    <3>1. Immediate(0, x) \in OperandText
      BY <2>2, ImmediateTyped
    <3> QED
      BY <2>2, <2>4, <3>1, ImmWordOperand
  <2>5. CASE slot.kind = "MovepDisp"
    <3>1. PICK r \in Int : r = word % 8
      BY NumbersOf
    <3>2. Shown("d16(An)", <<r, y>>) \in OperandText
      BY SyntaxesAre, ShownTyped
    <3> QED
      BY <2>2, <2>3, <2>5, <3>1, <3>2, MovepDispOperand
  <2>6. CASE slot.kind = "RegList"
    <3>1. PICK m \in Int : m = ListOrder(f, word, x)
      BY <2>2, ReversedIsInt DEF ListOrder
    <3>2. Shown("list", <<m>>) \in OperandText
      BY SyntaxesAre, ShownTyped
    <3> QED
      BY <2>2, <2>6, <3>1, <3>2, RegListOperand
  <2>7. CASE slot.kind = "DispW" \/ (slot.kind = "BranchW" /\ word % 256 = 0)
    <3>1. BranchTarget(addr, y) \in OperandText
      BY TargetTyped
    <3> QED
      BY <2>2, <2>3, <2>7, <3>1, BranchWordOperand
  <2> QED
    BY <1>19, <2>4, <2>5, <2>6, <2>7
<1>20. slot.kind \in {"Ea", "Dest", "Dn", "An", "-(An)", "(An)+", "Quick3", "Quick8", "Vec4", "ImmWord",
                     "ImmSized", "MovepDisp", "RegList", "DispW", "BranchW", "Ccr", "Sr", "Usp"}
  BY <1>4 DEF OperandSlot
<1> QED
  BY <1>11, <1>12, <1>13, <1>14, <1>15, <1>16, <1>17, <1>18, <1>19, <1>20, Zenon DEF IsEa

\* The suffix of every form is one of five.
LEMMA SuffixTyped ==
  ASSUME NEW f \in SET, NEW w \in Nat
  PROVE  Suffix(f, w) \in {"none", "B", "W", "L", "S"}
<1>1. m68k_size(f.size, w) \in {"none", "B", "W", "L"}
  BY SizeIs
<1> QED
  BY <1>1 DEF Suffix

\* The text of a form that is decoded is a text.
LEMMA InstructionTyped ==
  ASSUME NEW c \in Seq(Byte), NEW p \in Nat, p + 2 <= Len(c), NEW addr \in Int,
         NEW f \in SET, EaAllowed(f, be16(c, p)), p + InstructionLen(f, be16(c, p)) <= Len(c)
  PROVE  Instruction(f, c, p, addr) \in Text
<1>1. PICK word : word = be16(c, p) /\ word \in Nat
  BY WordRead
<1>2. PICK ops : ops = [s \in DOMAIN f.operands |-> Operand(f, word, c, p, addr, s)]
  OBVIOUS
<1>3. ops \in Seq(OperandText)
  <2>1. PICK n \in 0..2 : DOMAIN f.operands = 1..n
    BY FormShape
  <2>2. \A s \in 1..n : Operand(f, word, c, p, addr, s) \in OperandText
    BY <1>1, <2>1, OperandTyped
  <2>3. ops \in [1..n -> OperandText]
    BY <1>2, <2>1, <2>2, Zenon
  <2>4. n \in Nat
    OBVIOUS
  <2> QED
    BY <2>3, <2>4, SeqDef
<1>4. Suffix(f, word) \in {"none", "B", "W", "L", "S"}
  BY <1>1, SuffixTyped
<1>5. f.mnemonic \in Mnemonics
  BY DEF Mnemonics
<1>6. Instruction(f, c, p, addr)
        = [kind |-> "instruction", mnemonic |-> f.mnemonic, suffix |-> Suffix(f, word), operands |-> ops]
  BY <1>1, <1>2, Zenon DEF Instruction
<1>7. PICK suffix \in {"none", "B", "W", "L", "S"} : suffix = Suffix(f, word)
  BY <1>4
<1>8. [kind |-> "instruction", mnemonic |-> f.mnemonic, suffix |-> suffix, operands |-> ops] \in Text
  BY <1>3, <1>5 DEF Text
<1> QED
  BY <1>6, <1>7, <1>8

------------------------------------------------------------------------------
(* The lines are lines, and the cursor stays in the buffer *)

OutLine == [at : Nat, addr : Address, bytes : Seq(Byte), text : Text]

Pushed(n, text) ==
  [at |-> pos, addr |-> WrapAddress(origin + pos), bytes |-> SubSeq(code, pos + 1, pos + n), text |-> text]

Pushes(n, text) ==
  /\ n \in Nat /\ n >= 1 /\ pos + n <= Len(code)
  /\ text \in Text
  /\ Push(n, text)

\* What is decoded is a row of the table whose words are all there.
LEMMA DecodedIs ==
  ASSUME NEW c \in Seq(Byte), NEW p \in Nat, p + 2 <= Len(c), NEW f \in decode_m68k(c, p)
  PROVE  /\ f \in Readings(c, p) /\ f \in SET
         /\ FixedPart(be16(c, p), f) = f.base
         /\ EaAllowed(f, be16(c, p)) /\ ImmediateAllowed(f, be16(c, p), c, p)
         /\ p + InstructionLen(f, be16(c, p)) <= Len(c)
<1>1. f \in Readings(c, p)
  BY DEF decode_m68k, Best
<1>2. p + InstructionLen(f, be16(c, p)) <= Len(c)
  BY DEF decode_m68k
<1>3. be16(c, p) \div 4096 \in 0..15
  BY WordRead, TopOfWord
<1> QED
  BY <1>1, <1>2, <1>3, ReadingIs

\* What the types say of the cursor and the load address.
LEMMA OriginIsInt ==
  ASSUME TypeOK
  PROVE  origin \in Int /\ pos \in Nat /\ origin + pos \in Int /\ code \in Seq(Byte)
BY DEF TypeOK, Address

\* Every step but the last pushes a line of at least one byte of the buffer.
LEMMA StepPushes ==
  ASSUME TypeOK, EmitInstruction \/ EmitWord \/ EmitByte
  PROVE  \E n, text : Pushes(n, text)
<1>1. code \in Seq(Byte) /\ pos \in Nat /\ origin + pos \in Int
  BY OriginIsInt
<1>2. PICK l \in Nat : l = Len(code)
  BY <1>1, LenProperties
<1>3. CASE EmitInstruction
  <2>1. PICK f \in decode_m68k(code, pos) :
          Push(InstructionLen(f, be16(code, pos)), Instruction(f, code, pos, WrapAddress(origin + pos)))
    BY <1>3 DEF EmitInstruction
  <2>2. pos + 2 <= Len(code)
    BY <1>3 DEF EmitInstruction
  <2>3. /\ f \in SET /\ EaAllowed(f, be16(code, pos))
        /\ pos + InstructionLen(f, be16(code, pos)) <= Len(code)
    BY <1>1, <2>2, DecodedIs
  <2>4. PICK n \in Nat : n = InstructionLen(f, be16(code, pos)) /\ n >= 2
    BY InstructionLenIs
  <2>5. PICK addr \in Int : addr = WrapAddress(origin + pos)
    BY <1>1, AddressIsInt
  <2>6. PICK text \in Text : text = Instruction(f, code, pos, addr)
    BY <1>1, <2>2, <2>3, <2>5, InstructionTyped
  <2>7. n >= 1 /\ pos + n <= Len(code)
    BY <2>3, <2>4
  <2>8. Push(n, text)
    BY <2>1, <2>4, <2>5, <2>6, Zenon
  <2> QED
    BY <2>4, <2>6, <2>7, <2>8, Zenon DEF Pushes
<1>4. CASE EmitWord
  <2>1. pos + 2 <= Len(code) /\ Push(2, Datum(SubSeq(code, pos + 1, pos + 2)))
    BY <1>4 DEF EmitWord
  <2>2. SubSeq(code, pos + 1, pos + 2) \in Seq(Byte)
    BY <1>1, <2>1, BytesCounted
  <2>3. Datum(SubSeq(code, pos + 1, pos + 2)) \in Text
    BY <2>2 DEF Datum, Text
  <2>4. 2 \in Nat /\ 2 >= 1
    OBVIOUS
  <2> QED
    BY <2>1, <2>3, <2>4, Zenon DEF Pushes
<1>5. CASE EmitByte
  <2>1. pos + 1 = Len(code) /\ Push(1, Datum(<<code[pos + 1]>>))
    BY <1>5 DEF EmitByte
  <2>2. pos + 1 <= Len(code)
    BY <1>2, <2>1
  <2>3. <<code[pos + 1]>> \in Seq(Byte)
    <3>1. PICK b \in Byte : b = code[pos + 1]
      BY <1>1, <2>2, OneByte
    <3>2. <<b>> \in Seq(Byte)
      OBVIOUS
    <3> QED
      BY <3>1, <3>2
  <2>4. Datum(<<code[pos + 1]>>) \in Text
    BY <2>3 DEF Datum, Text
  <2>5. 1 \in Nat /\ 1 >= 1
    OBVIOUS
  <2> QED
    BY <2>1, <2>2, <2>4, <2>5, Zenon DEF Pushes
<1> QED
  BY <1>3, <1>4, <1>5, Zenon

\* The line a step pushes is a line.
LEMMA PushedTyped ==
  ASSUME TypeOK, NEW n, NEW text, Pushes(n, text)
  PROVE  Pushed(n, text) \in OutLine
<1>1. code \in Seq(Byte) /\ pos \in Nat /\ origin + pos \in Int
  BY OriginIsInt
<1>2. n \in Nat /\ pos + n <= Len(code) /\ text \in Text
  BY DEF Pushes
<1>3. SubSeq(code, pos + 1, pos + n) \in Seq(Byte)
  BY <1>1, <1>2, BytesCounted
<1>4. WrapAddress(origin + pos) \in Address
  BY <1>1, AddressIsInt
<1> QED
  BY <1>1, <1>2, <1>3, <1>4 DEF Pushed, OutLine

\* Every state has the types the code gives its variables: the cursor never
\* leaves the buffer, every address is in the address space, every text is one.
THEOREM TypeCorrect == Spec => []TypeOK
<1>1. Init => TypeOK
  <2> SUFFICES ASSUME Init PROVE TypeOK
    OBVIOUS
  <2>1. code \in Seq(Byte) /\ origin \in Address /\ pos = 0 /\ out = <<>>
    BY CodesAreBytes, OriginsAreAddresses DEF Init
  <2>2. pos \in 0..Len(code)
    BY <2>1, LenProperties
  <2>3. out \in Seq(OutLine)
    BY <2>1
  <2> QED
    BY <2>1, <2>2, <2>3 DEF TypeOK, OutLine
<1>2. TypeOK /\ [Next]_vars => TypeOK'
  <2> SUFFICES ASSUME TypeOK, [Next]_vars PROVE TypeOK'
    OBVIOUS
  <2>1. CASE EmitInstruction \/ EmitWord \/ EmitByte
    <3>1. PICK n, text : Pushes(n, text)
      BY <2>1, StepPushes
    <3>2. n \in Nat /\ pos + n <= Len(code) /\ pos' = pos + n /\ UNCHANGED <<code, origin>>
      BY <3>1 DEF Pushes, Push
    <3>3. PICK l \in Nat : l = Len(code)
      BY LenProperties DEF TypeOK
    <3>4. PICK p \in Nat : p = pos
      BY DEF TypeOK
    <3>5. pos' \in 0..Len(code')
      BY <3>2, <3>3, <3>4
    <3>6. PICK line \in OutLine : line = Pushed(n, text)
      BY <3>1, PushedTyped
    <3>7. out' = Append(out, line)
      BY <3>1, <3>6 DEF Pushes, Push, Pushed
    <3>8. out' \in Seq(OutLine)
      BY <3>6, <3>7, AppendProperties DEF TypeOK, OutLine
    <3> QED
      BY <3>2, <3>5, <3>8 DEF TypeOK, OutLine
  <2>2. CASE UNCHANGED vars
    BY <2>2 DEF TypeOK, vars
  <2> QED
    BY <2>1, <2>2 DEF Next, Return
<1> QED
  BY <1>1, <1>2, PTL DEF Spec

------------------------------------------------------------------------------
(* The sweep by words implements the sweep *)

\* A line without its text.
Piece(line) == [at |-> line.at, addr |-> line.addr, bytes |-> line.bytes]

\* To push a line is to append it, its text left out, to the pieces.
LEMMA PiecesOfPush ==
  ASSUME TypeOK, NEW n, NEW text, Pushes(n, text)
  PROVE  Pieces' = Append(Pieces, Piece(Pushed(n, text)))
<1> DEFINE P == [at : Nat, addr : Address, bytes : Seq(Byte)]
<1>1. PICK line \in OutLine : line = Pushed(n, text)
  BY PushedTyped
<1>2. out \in Seq(OutLine) /\ out' = Append(out, line)
  BY <1>1 DEF TypeOK, OutLine, Pushes, Push, Pushed
<1>3. PICK m \in Nat : m = Len(out) /\ DOMAIN out = 1..m
  BY <1>2, LenProperties
<1>4. /\ DOMAIN out' = 1..(m + 1) /\ out'[m + 1] = line
      /\ \A k \in 1..m : out'[k] = out[k] /\ out[k] \in OutLine
  BY <1>2, <1>3, AppendProperties, LenProperties, ElementOfSeq, SMTT(30)
<1>5. PICK ps : ps = Pieces
  OBVIOUS
<1>6. PICK qs : qs = Pieces'
  OBVIOUS
<1>7. ps = [k \in 1..m |-> Piece(out[k])]
  BY <1>3, <1>5 DEF Pieces, Piece
<1>8. qs = [k \in 1..(m + 1) |-> Piece(out'[k])]
  BY <1>4, <1>6 DEF Pieces, Piece
<1>9. \A x \in OutLine : Piece(x) \in P
  BY DEF OutLine, Piece
<1> HIDE DEF P
<1>10. ps \in Seq(P) /\ Len(ps) = m
  <2>1. ps \in [1..m -> P]
    BY <1>4, <1>7, <1>9
  <2> QED
    BY <2>1, SeqDef, LenProperties
<1>11. qs \in Seq(P) /\ Len(qs) = m + 1
  <2>1. \A k \in 1..(m + 1) : out'[k] \in OutLine
    BY <1>1, <1>4
  <2>2. qs \in [1..(m + 1) -> P]
    BY <1>8, <1>9, <2>1
  <2> QED
    BY <2>2, SeqDef, LenProperties
<1>12. PICK rs : rs = Append(ps, Piece(line))
  OBVIOUS
<1>13. /\ rs \in Seq(P) /\ Len(rs) = m + 1
       /\ rs[m + 1] = Piece(line) /\ \A k \in 1..m : rs[k] = ps[k]
  <2>1. Piece(line) \in P
    BY <1>9
  <2> QED
    BY <1>10, <1>12, <2>1, AppendProperties, SMTT(30)
<1>14. \A k \in 1..(m + 1) : rs[k] = qs[k]
  <2> TAKE k \in 1..(m + 1)
  <2>1. CASE k = m + 1
    BY <1>4, <1>8, <1>13, <2>1
  <2>2. CASE k \in 1..m
    BY <1>4, <1>7, <1>8, <1>13, <2>2
  <2> QED
    BY <2>1, <2>2
<1>15. rs = qs
  BY <1>11, <1>13, <1>14, SeqEqual
<1> QED
  BY <1>1, <1>5, <1>6, <1>12, <1>15

\* Every behaviour of disassemble_68000 is, its texts left out, a sweep of the
\* buffer: the bytes are listed once, in order, an odd one at the end too.
THEOREM SweepImplemented == Spec => Listing!Spec
<1>1. Init => Listing!Init
  <2> SUFFICES ASSUME Init PROVE Listing!Init
    OBVIOUS
  <2>1. code \in Seq(Byte) /\ origin \in Address /\ pos = 0 /\ out = <<>>
    BY CodesAreBytes, OriginsAreAddresses DEF Init
  <2>2. Pieces = <<>>
    BY <2>1 DEF Pieces
  <2> QED
    BY <2>1, <2>2 DEF Listing!Init
<1>2. TypeOK /\ [Next]_vars => [Listing!Next]_(Listing!vars)
  <2> SUFFICES ASSUME TypeOK, [Next]_vars PROVE [Listing!Next]_(Listing!vars)
    OBVIOUS
  <2>1. CASE EmitInstruction \/ EmitWord \/ EmitByte
    <3>1. PICK n, text : Pushes(n, text)
      BY <2>1, StepPushes
    <3>2. /\ n \in Nat /\ n >= 1 /\ pos + n <= Len(code)
          /\ pos' = pos + n /\ UNCHANGED <<code, origin>>
      BY <3>1 DEF Pushes, Push
    <3>3. n \in 1..(Len(code) - pos)
      <4>1. PICK l \in Nat : l = Len(code)
        BY LenProperties DEF TypeOK
      <4> QED
        BY <3>2, <4>1 DEF TypeOK
    <3>4. Pieces' = Append(Pieces, Piece(Pushed(n, text)))
      BY <3>1, PiecesOfPush
    <3>5. Piece(Pushed(n, text)) = Listing!LineAt(pos, n)
      <4>1. pos \in Nat
        BY DEF TypeOK
      <4>2. origin + pos \div 1 = origin + pos
        BY <4>1
      <4>3. WrapAddress(origin + pos) = Listing!WrapAddress(origin + pos \div 1)
        BY <4>2 DEF WrapAddress, Listing!WrapAddress
      <4> QED
        BY <4>3 DEF Piece, Pushed, Listing!LineAt
    <3>6. Listing!Emit
      BY <3>2, <3>3, <3>4, <3>5 DEF Listing!Emit
    <3> QED
      BY <3>6 DEF Listing!Next
  <2>2. CASE UNCHANGED vars
    <3>1. UNCHANGED <<code, origin, pos>> /\ Pieces' = Pieces
      BY <2>2 DEF vars, Pieces
    <3> QED
      BY <3>1 DEF Listing!vars
  <2> QED
    BY <2>1, <2>2 DEF Next, Return
<1> QED
  BY <1>1, <1>2, TypeCorrect, PTL DEF Spec, Listing!Spec

------------------------------------------------------------------------------
(* Addresses wrap, displacements come back                                 *)

\* Division with remainder.
LEMMA ModSplit ==
  ASSUME NEW n \in Int, NEW m \in Int, m > 0
  PROVE  \E q \in Int, r \in Int : n = m * q + r /\ r = n % m /\ 0 <= r /\ r < m
<1>1. PICK r \in Int : r = n % m /\ 0 <= r /\ r < m
  OBVIOUS
<1>2. PICK q \in Int : q = n \div m
  OBVIOUS
<1>3. n = m * q + r
  BY <1>1, <1>2
<1> QED
  BY <1>1, <1>3

\* The remainder is the only number there is below the divisor.
LEMMA ModUnique ==
  ASSUME NEW n \in Int, NEW m \in Int, m > 0, NEW k \in Int,
         NEW r \in Int, 0 <= r, r < m, n = m * k + r
  PROVE  n % m = r
OBVIOUS

\* The address space is not empty.
LEMMA SpaceIsInt == AddressSpace \in Int /\ AddressSpace > 0
BY AddressesHoldWords

\* A number is an address and some whole address spaces.
LEMMA AddressSplit ==
  ASSUME NEW n \in Int
  PROVE  \E q \in Int, t \in Int :
           n = AddressSpace * q + t /\ t = WrapAddress(n) /\ 0 <= t /\ t < AddressSpace
BY SpaceIsInt, ModSplit, Zenon DEF WrapAddress

\* The address is the only one there is.
LEMMA AddressUnique ==
  ASSUME NEW n \in Int, NEW k \in Int, NEW r \in Int, 0 <= r, r < AddressSpace,
         n = AddressSpace * k + r
  PROVE  WrapAddress(n) = r
BY SpaceIsInt, ModUnique, Zenon DEF WrapAddress

\* The distance to a target by the wrapped difference.
LEMMA DistanceIs ==
  ASSUME NEW target, NEW from, NEW e, e = target - from, NEW x, x = WrapAddress(e)
  PROVE  Distance(target, from) = IF x >= AddressSpace \div 2 THEN x - AddressSpace ELSE x
BY Zenon DEF Distance

\* A number of whole address spaces.
Spaces(z) == z \in Int /\ \E k \in Int : z = AddressSpace * k

\* What whole address spaces are.
LEMMA SpacesAre ==
  ASSUME NEW z, Spaces(z)
  PROVE  z \in Int /\ \E k \in Int : z = AddressSpace * k
BY DEF Spaces

\* An address and the number it was wrapped from differ by whole spaces.
LEMMA WrappedDiffers ==
  ASSUME NEW n \in Int
  PROVE  \E x \in Int : Spaces(x) /\ WrapAddress(n) = n - x /\ WrapAddress(n) \in Int
<1>1. PICK q \in Int, r \in Int : n = AddressSpace * q + r /\ r = WrapAddress(n)
  BY AddressSplit
<1>2. PICK x \in Int : x = AddressSpace * q
  BY SpaceIsInt
<1>3. Spaces(x)
  BY <1>2, Zenon DEF Spaces
<1>4. r = n - x
  BY <1>1, <1>2
<1> QED
  BY <1>1, <1>3, <1>4

\* None is a number of whole address spaces.
LEMMA NoSpaces == Spaces(0)
<1>1. 0 = AddressSpace * 0 /\ 0 \in Int
  BY SpaceIsInt
<1> QED
  BY <1>1 DEF Spaces

\* Whole address spaces add up to whole address spaces, and so do their negatives.
LEMMA SpacesAdd ==
  ASSUME NEW x \in Int, NEW y \in Int, Spaces(x), Spaces(y)
  PROVE  \E z \in Int : z = 0 - (x + y) /\ Spaces(z)
<1>1. PICK k \in Int : x = AddressSpace * k
  BY SpacesAre
<1>2. PICK q \in Int : y = AddressSpace * q
  BY SpacesAre
<1>3. PICK j \in Int : j = 0 - (k + q)
  OBVIOUS
<1>4. AddressSpace * j = 0 - (x + y)
  BY <1>1, <1>2, <1>3, SpaceIsInt
<1>5. PICK z \in Int : z = 0 - (x + y)
  OBVIOUS
<1>6. Spaces(z)
  BY <1>4, <1>5 DEF Spaces
<1> QED
  BY <1>5, <1>6

\* A number that is off by whole address spaces wraps to what is left.
LEMMA WrapNear ==
  ASSUME NEW z \in Int, Spaces(z), NEW e \in Int, NEW d \in Int, e = z + d,
         0 - AddressSpace <= d, d < AddressSpace
  PROVE  WrapAddress(e) = IF d >= 0 THEN d ELSE d + AddressSpace
<1>1. PICK j \in Int : z = AddressSpace * j
  BY SpacesAre
<1>2. CASE d >= 0
  <2>1. e = AddressSpace * j + d
    BY <1>1
  <2> QED
    BY <1>2, <2>1, AddressUnique
<1>3. CASE d < 0
  <2>1. PICK h \in Int : h = j - 1
    OBVIOUS
  <2>2. AddressSpace * h = z - AddressSpace
    BY <1>1, <2>1, SpaceIsInt
  <2>3. PICK r \in Int : r = d + AddressSpace /\ 0 <= r /\ r < AddressSpace
    BY <1>3, SpaceIsInt
  <2>4. e = AddressSpace * h + r
    BY <2>2, <2>3, SpaceIsInt
  <2>5. WrapAddress(e) = r
    BY <2>3, <2>4, AddressUnique
  <2> QED
    BY <1>3, <2>3, <2>5
<1> QED
  BY <1>2, <1>3

\* A target that is a displacement away, whole address spaces aside, is at that distance.
LEMMA DistanceOf ==
  ASSUME NEW from \in Int, NEW x \in Int, Spaces(x), NEW d \in Int, -32768 <= d, d <= 32767,
         NEW s \in Int, s = (from - x) + d
  PROVE  Distance(WrapAddress(s), from) = d
<1>1. AddressSpace \in Int /\ AddressSpace >= 65536
  BY AddressesHoldWords
<1>2. PICK z \in Int : Spaces(z) /\ WrapAddress(s) - from = z + d /\ WrapAddress(s) \in Int
  <2>1. PICK y \in Int : Spaces(y) /\ WrapAddress(s) = s - y /\ WrapAddress(s) \in Int
    BY WrappedDiffers
  <2>2. PICK z \in Int : z = 0 - (x + y) /\ Spaces(z)
    BY <2>1, SpacesAdd
  <2>3. WrapAddress(s) - from = z + d
    BY <2>1, <2>2
  <2> QED
    BY <2>1, <2>2, <2>3
<1>3. PICK t \in Int : t = WrapAddress(s)
  BY <1>2
<1>4. PICK e \in Int : e = t - from /\ e = z + d
  BY <1>2, <1>3
<1>5. PICK y \in Int : y = WrapAddress(e) /\ y = IF d >= 0 THEN d ELSE d + AddressSpace
  <2>1. 0 - AddressSpace <= d /\ d < AddressSpace
    BY <1>1
  <2>2. WrapAddress(e) = IF d >= 0 THEN d ELSE d + AddressSpace
    BY <1>2, <1>4, <2>1, WrapNear
  <2> QED
    BY <1>1, <2>2
<1>6. Distance(t, from) = IF y >= AddressSpace \div 2 THEN y - AddressSpace ELSE y
  BY <1>4, <1>5, DistanceIs
<1>7. CASE d >= 0
  <2>1. ~(y >= AddressSpace \div 2)
    BY <1>1, <1>5, <1>7
  <2> QED
    BY <1>3, <1>5, <1>6, <1>7, <2>1
<1>8. CASE d < 0
  <2>1. y >= AddressSpace \div 2
    BY <1>1, <1>5, <1>8
  <2>2. y - AddressSpace = d
    BY <1>1, <1>5, <1>8
  <2> QED
    BY <1>3, <1>6, <2>1, <2>2
<1> QED
  BY <1>7, <1>8

\* The distance to a target from where it was counted is what was counted,
\* whether the place it is counted from was wrapped before or not.
LEMMA DistanceBack ==
  ASSUME NEW from \in Int, NEW d \in Int, -32768 <= d, d <= 32767
  PROVE  /\ \A s \in Int : s = from + d => Distance(WrapAddress(s), from) = d
         /\ \A s \in Int : s = WrapAddress(from) + d => Distance(WrapAddress(s), from) = d
<1>1. ASSUME NEW s \in Int, s = from + d PROVE Distance(WrapAddress(s), from) = d
  <2>1. s = (from - 0) + d
    BY <1>1
  <2> QED
    BY <2>1, NoSpaces, DistanceOf
<1>2. ASSUME NEW s \in Int, s = WrapAddress(from) + d PROVE Distance(WrapAddress(s), from) = d
  <2>1. PICK x \in Int : Spaces(x) /\ WrapAddress(from) = from - x
    BY WrappedDiffers
  <2>2. s = (from - x) + d
    BY <1>2, <2>1
  <2> QED
    BY <2>1, <2>2, DistanceOf
<1> QED
  BY <1>1, <1>2

------------------------------------------------------------------------------
(* What a slot lays down for an operand, and the fields of a word          *)

\* A sequence of k things.
SequenceOf(x, k) == \E S : x \in Seq(S) /\ Len(x) = k

\* What becomes of the operand of a slot in the assembler: one the slot takes,
\* the bits and as many words as were read, and if the text says everything,
\* the very words.
Kept(slot, size, operand, suffix, list, addr, from, bits, words, said) ==
  /\ operand.syntax \in SyntaxesOf(slot)
  /\ OperandBits(slot, operand, suffix, addr) = bits
  /\ SequenceOf(OperandWords(slot, operand, size, suffix, list, addr, from), Len(words))
  /\ said => /\ InRange(slot, size, operand)
             /\ OperandWords(slot, operand, size, suffix, list, addr, from) = words

\* The mode of an address goes back to the six bits it was read from.
LEMMA NumbersOfModes ==
  ASSUME NEW x
  PROVE  /\ ModeNumber("Dn") = 0 /\ ModeRegister("Dn", x) = x
         /\ ModeNumber("An") = 1 /\ ModeRegister("An", x) = x
         /\ ModeNumber("(An)") = 2 /\ ModeRegister("(An)", x) = x
         /\ ModeNumber("(An)+") = 3 /\ ModeRegister("(An)+", x) = x
         /\ ModeNumber("-(An)") = 4 /\ ModeRegister("-(An)", x) = x
         /\ ModeNumber("d16(An)") = 5 /\ ModeRegister("d16(An)", x) = x
         /\ ModeNumber("d8(An+Xn)") = 6 /\ ModeRegister("d8(An+Xn)", x) = x
         /\ ModeNumber("(xxx).W") = 7 /\ ModeRegister("(xxx).W", x) = 0
         /\ ModeNumber("(xxx).L") = 7 /\ ModeRegister("(xxx).L", x) = 1
         /\ ModeNumber("d16(PC)") = 7 /\ ModeRegister("d16(PC)", x) = 2
         /\ ModeNumber("d8(PC+Xn)") = 7 /\ ModeRegister("d8(PC+Xn)", x) = 3
         /\ ModeNumber("#imm") = 7 /\ ModeRegister("#imm", x) = 4
BY Zenon DEF ModeNumber, ModeRegister, RegisterModes

\* The modes by their numbers.
LEMMA NamesOfModes ==
  ASSUME NEW r
  PROVE  /\ ModeName(0, r) = "Dn"
         /\ ModeName(1, r) = "An"
         /\ ModeName(2, r) = "(An)"
         /\ ModeName(3, r) = "(An)+"
         /\ ModeName(4, r) = "-(An)"
         /\ ModeName(5, r) = "d16(An)"
         /\ ModeName(6, r) = "d8(An+Xn)"
         /\ ModeName(7, 0) = "(xxx).W"
         /\ ModeName(7, 1) = "(xxx).L"
         /\ ModeName(7, 2) = "d16(PC)"
         /\ ModeName(7, 3) = "d8(PC+Xn)"
         /\ ModeName(7, 4) = "#imm"
         /\ ModeName(7, 5) = "none"
         /\ ModeName(7, 6) = "none"
         /\ ModeName(7, 7) = "none"
BY DEF ModeName

\* The numbers of a mode are those it was named by.
LEMMA ModeNumbers ==
  ASSUME NEW m \in 0..7, NEW r \in 0..7, NEW mode \in ALL, mode = ModeName(m, r),
         NEW x, mode \in RegisterModes => x = r
  PROVE  ModeNumber(mode) = m /\ ModeRegister(mode, x) = r
<1>1. mode # "none"
  BY SyntaxesAre
<1>2. CASE m = 0
  <2>1. mode = "Dn"
    BY <1>2, NamesOfModes
  <2> QED
    BY <1>2, <2>1, NumbersOfModes DEF RegisterModes
<1>3. CASE m = 1
  <2>1. mode = "An"
    BY <1>3, NamesOfModes
  <2> QED
    BY <1>3, <2>1, NumbersOfModes DEF RegisterModes
<1>4. CASE m = 2
  <2>1. mode = "(An)"
    BY <1>4, NamesOfModes
  <2> QED
    BY <1>4, <2>1, NumbersOfModes DEF RegisterModes
<1>5. CASE m = 3
  <2>1. mode = "(An)+"
    BY <1>5, NamesOfModes
  <2> QED
    BY <1>5, <2>1, NumbersOfModes DEF RegisterModes
<1>6. CASE m = 4
  <2>1. mode = "-(An)"
    BY <1>6, NamesOfModes
  <2> QED
    BY <1>6, <2>1, NumbersOfModes DEF RegisterModes
<1>7. CASE m = 5
  <2>1. mode = "d16(An)"
    BY <1>7, NamesOfModes
  <2> QED
    BY <1>7, <2>1, NumbersOfModes DEF RegisterModes
<1>8. CASE m = 6
  <2>1. mode = "d8(An+Xn)"
    BY <1>8, NamesOfModes
  <2> QED
    BY <1>8, <2>1, NumbersOfModes DEF RegisterModes
<1>9. CASE m = 7
  <2>1. CASE r = 0
    <3>1. mode = "(xxx).W"
      BY <1>9, <2>1, NamesOfModes
    <3> QED
      BY <1>9, <2>1, <3>1, NumbersOfModes
  <2>2. CASE r = 1
    <3>1. mode = "(xxx).L"
      BY <1>9, <2>2, NamesOfModes
    <3> QED
      BY <1>9, <2>2, <3>1, NumbersOfModes
  <2>3. CASE r = 2
    <3>1. mode = "d16(PC)"
      BY <1>9, <2>3, NamesOfModes
    <3> QED
      BY <1>9, <2>3, <3>1, NumbersOfModes
  <2>4. CASE r = 3
    <3>1. mode = "d8(PC+Xn)"
      BY <1>9, <2>4, NamesOfModes
    <3> QED
      BY <1>9, <2>4, <3>1, NumbersOfModes
  <2>5. CASE r = 4
    <3>1. mode = "#imm"
      BY <1>9, <2>5, NamesOfModes
    <3> QED
      BY <1>9, <2>5, <3>1, NumbersOfModes
  <2>6. CASE r \in {5, 6, 7}
    BY <1>1, <1>9, <2>6, NamesOfModes
  <2> QED
    BY <2>1, <2>2, <2>3, <2>4, <2>5, <2>6
<1> QED
  BY <1>2, <1>3, <1>4, <1>5, <1>6, <1>7, <1>8, <1>9

\* The bits laid down for an effective address are those it was read from.
LEMMA EaBits ==
  ASSUME NEW slot \in OperandSlot, IsEa(slot), NEW word \in Nat, NEW mode \in ALL,
         mode = ModeOf(slot, word), NEW x,
         mode \in RegisterModes => x = ModeAndRegister(slot, word)[2]
  PROVE  EaField(slot, mode, x) = InField(word, SlotField(slot))
<1>1. PICK m \in 0..7, r \in 0..7 :
        /\ ModeAndRegister(slot, word) = <<m, r>>
        /\ ModeOf(slot, word) = ModeName(m, r)
        /\ Field(word, slot.shift, 6) = IF slot.kind = "Dest" THEN 8 * r + m ELSE 8 * m + r
  BY ModeIs
<1>2. ModeNumber(mode) = m /\ ModeRegister(mode, x) = r
  <2>1. mode \in RegisterModes => x = r
    BY <1>1
  <2>2. mode = ModeName(m, r)
    BY <1>1
  <2>3. m \in 0..7 /\ r \in 0..7
    OBVIOUS
  <2> QED
    BY <2>1, <2>2, <2>3, ModeNumbers
<1>3. EaField(slot, mode, x)
        = Bit(slot.shift) * (IF slot.kind = "Dest" THEN 8 * r + m ELSE 8 * m + r)
  BY <1>2, Zenon DEF EaField
<1>4. SlotField(slot) = <<slot.shift, 6>>
  BY DEF SlotField, IsEa
<1>5. InField(word, SlotField(slot)) = Bit(slot.shift) * Field(word, slot.shift, 6)
  BY <1>4 DEF InField
<1> QED
  BY <1>1, <1>3, <1>5

\* The fields of the other slots.
LEMMA FieldsAre ==
  ASSUME NEW slot, NEW word \in Nat
  PROVE  /\ slot.kind \in {"Dn", "An", "Quick3", "-(An)", "(An)+"} =>
              InField(word, SlotField(slot)) = Bit(slot.shift) * Field(word, slot.shift, 3)
         /\ slot.kind = "MovepDisp" => InField(word, SlotField(slot)) = word % 8
         /\ slot.kind \in {"Quick8", "BranchW"} => InField(word, SlotField(slot)) = word % 256
         /\ slot.kind = "Vec4" => InField(word, SlotField(slot)) = word % 16
         /\ slot.kind \in {"ImmWord", "ImmSized", "RegList", "DispW", "Ccr", "Sr", "Usp"} =>
              InField(word, SlotField(slot)) = 0
<1>1. PICK x \in Nat : x = word \div Bit(0) /\ x = word
  BY BitsAre
<1>2. /\ Field(word, 0, 3) = x % 8 /\ Field(word, 0, 8) = x % 256 /\ Field(word, 0, 4) = x % 16
      /\ Field(word, 0, 0) = x % 1
  BY <1>1, BitsAre DEF Field
<1>3. x % 1 = 0 /\ x % 8 \in Nat /\ x % 256 \in Nat /\ x % 16 \in Nat
  OBVIOUS
<1>4. /\ InField(word, <<0, 3>>) = x % 8 /\ InField(word, <<0, 8>>) = x % 256
      /\ InField(word, <<0, 4>>) = x % 16 /\ InField(word, <<0, 0>>) = 0
  BY <1>2, <1>3, BitsAre DEF InField
<1>5. CASE slot.kind \in {"Dn", "An", "Quick3", "-(An)", "(An)+"}
  <2>1. SlotField(slot) = <<slot.shift, 3>>
    BY <1>5 DEF SlotField, IsEa
  <2>2. InField(word, SlotField(slot)) = Bit(slot.shift) * Field(word, slot.shift, 3)
    BY <2>1 DEF InField
  <2> QED
    BY <1>5, <2>2
<1>6. /\ slot.kind = "MovepDisp" => SlotField(slot) = <<0, 3>>
      /\ slot.kind \in {"Quick8", "BranchW"} => SlotField(slot) = <<0, 8>>
      /\ slot.kind = "Vec4" => SlotField(slot) = <<0, 4>>
      /\ slot.kind \in {"ImmWord", "ImmSized", "RegList", "DispW", "Ccr", "Sr", "Usp"} =>
           SlotField(slot) = <<0, 0>>
  BY DEF SlotField, IsEa, NoField
<1> QED
  BY <1>1, <1>4, <1>5, <1>6

------------------------------------------------------------------------------
(* The bits of the slots that are in the opcode word alone                 *)

\* What the assembler makes of each kind of slot.
LEMMA RegisterSlot ==
  ASSUME NEW slot, slot.kind \in {"Dn", "An", "-(An)", "(An)+"}, NEW op, op.syntax = slot.kind,
         NEW size, NEW suffix, NEW list, NEW addr, NEW from
  PROVE  /\ op.syntax \in SyntaxesOf(slot) /\ InRange(slot, size, op)
         /\ OperandBits(slot, op, suffix, addr) = Bit(slot.shift) * op.numbers[1]
         /\ OperandWords(slot, op, size, suffix, list, addr, from) = <<>>
<1>1. SyntaxesOf(slot) = {slot.kind}
  BY Zenon DEF SyntaxesOf, IsEa
<1>2. InRange(slot, size, op)
  BY <1>1, Zenon DEF InRange, IsEa
<1>3. OperandBits(slot, op, suffix, addr) = Bit(slot.shift) * op.numbers[1]
  BY Zenon DEF OperandBits, IsEa
<1>4. OperandWords(slot, op, size, suffix, list, addr, from) = <<>>
  BY Zenon DEF OperandWords, IsEa
<1> QED
  BY <1>1, <1>2, <1>3, <1>4

\* A slot for a status register takes it and lays nothing down.
LEMMA StatusSlot ==
  ASSUME NEW slot, slot.kind \in {"Ccr", "Sr", "Usp"}, NEW op, op.syntax = slot.kind,
         NEW size, NEW suffix, NEW list, NEW addr, NEW from
  PROVE  /\ op.syntax \in SyntaxesOf(slot) /\ InRange(slot, size, op)
         /\ OperandBits(slot, op, suffix, addr) = 0
         /\ OperandWords(slot, op, size, suffix, list, addr, from) = <<>>
<1>1. SyntaxesOf(slot) = {slot.kind}
  BY Zenon DEF SyntaxesOf, IsEa
<1>2. InRange(slot, size, op)
  BY <1>1, Zenon DEF InRange, IsEa
<1>3. OperandBits(slot, op, suffix, addr) = 0
  BY Zenon DEF OperandBits, IsEa
<1>4. OperandWords(slot, op, size, suffix, list, addr, from) = <<>>
  BY Zenon DEF OperandWords, IsEa
<1> QED
  BY <1>1, <1>2, <1>3, <1>4

\* What an immediate says.
LEMMA ImmediateShows ==
  ASSUME NEW hi, NEW n
  PROVE  Immediate(hi, n).syntax = "#imm" /\ Immediate(hi, n).numbers = <<hi, n>>
         /\ Immediate(hi, n).numbers[2] = n
BY DEF Immediate, Shown

\* A slot for a byte within the opcode word takes it and lays it down there.
LEMMA Quick8Slot ==
  ASSUME NEW slot, slot.kind = "Quick8", NEW op, op.syntax = "#imm",
         NEW size, NEW suffix, NEW list, NEW addr, NEW from
  PROVE  /\ op.syntax \in SyntaxesOf(slot)
         /\ (op.numbers[2] \in -128..127) => InRange(slot, size, op)
         /\ OperandBits(slot, op, suffix, addr) = LoByte(op.numbers[2])
         /\ OperandWords(slot, op, size, suffix, list, addr, from) = <<>>
<1>1. SyntaxesOf(slot) = {"#imm"}
  BY Zenon DEF SyntaxesOf, IsEa
<1>2. (op.numbers[2] \in -128..127) => InRange(slot, size, op)
  BY <1>1, Zenon DEF InRange, IsEa
<1>3. OperandBits(slot, op, suffix, addr) = LoByte(op.numbers[2])
  BY Zenon DEF OperandBits, IsEa
<1>4. OperandWords(slot, op, size, suffix, list, addr, from) = <<>>
  BY Zenon DEF OperandWords, IsEa
<1> QED
  BY <1>1, <1>2, <1>3, <1>4, Zenon

\* A slot for a number from 1 to 8 takes it and lays 8 down as 0.
LEMMA Quick3Slot ==
  ASSUME NEW slot, slot.kind = "Quick3", NEW op, op.syntax = "#imm",
         NEW size, NEW suffix, NEW list, NEW addr, NEW from
  PROVE  /\ op.syntax \in SyntaxesOf(slot)
         /\ (op.numbers[2] \in 1..8) => InRange(slot, size, op)
         /\ OperandBits(slot, op, suffix, addr) = Bit(slot.shift) * (op.numbers[2] % 8)
         /\ OperandWords(slot, op, size, suffix, list, addr, from) = <<>>
<1>1. SyntaxesOf(slot) = {"#imm"}
  BY Zenon DEF SyntaxesOf, IsEa
<1>2. (op.numbers[2] \in 1..8) => InRange(slot, size, op)
  BY <1>1, Zenon DEF InRange, IsEa
<1>3. OperandBits(slot, op, suffix, addr) = Bit(slot.shift) * (op.numbers[2] % 8)
  BY Zenon DEF OperandBits, IsEa
<1>4. OperandWords(slot, op, size, suffix, list, addr, from) = <<>>
  BY Zenon DEF OperandWords, IsEa
<1> QED
  BY <1>1, <1>2, <1>3, <1>4, Zenon

\* A slot for a trap vector takes it and lays it down in the opcode word.
LEMMA Vec4Slot ==
  ASSUME NEW slot, slot.kind = "Vec4", NEW op, op.syntax = "#imm",
         NEW size, NEW suffix, NEW list, NEW addr, NEW from
  PROVE  /\ op.syntax \in SyntaxesOf(slot)
         /\ (op.numbers[2] \in 0..15) => InRange(slot, size, op)
         /\ OperandBits(slot, op, suffix, addr) = op.numbers[2]
         /\ OperandWords(slot, op, size, suffix, list, addr, from) = <<>>
<1>1. SyntaxesOf(slot) = {"#imm"}
  BY Zenon DEF SyntaxesOf, IsEa
<1>2. (op.numbers[2] \in 0..15) => InRange(slot, size, op)
  BY <1>1, Zenon DEF InRange, IsEa
<1>3. OperandBits(slot, op, suffix, addr) = op.numbers[2]
  BY Zenon DEF OperandBits, IsEa
<1>4. OperandWords(slot, op, size, suffix, list, addr, from) = <<>>
  BY Zenon DEF OperandWords, IsEa
<1> QED
  BY <1>1, <1>2, <1>3, <1>4, Zenon

\* A slot for an immediate word takes it and lays it down behind the opcode word.
LEMMA ImmWordSlot ==
  ASSUME NEW slot, slot.kind = "ImmWord", NEW op, op.syntax = "#imm",
         NEW size, NEW suffix, NEW list, NEW addr, NEW from
  PROVE  /\ op.syntax \in SyntaxesOf(slot)
         /\ InRange(slot, size, op)
         /\ OperandBits(slot, op, suffix, addr) = 0
         /\ OperandWords(slot, op, size, suffix, list, addr, from) = <<op.numbers[2]>>
<1>1. SyntaxesOf(slot) = {"#imm"}
  BY Zenon DEF SyntaxesOf, IsEa
<1>2. InRange(slot, size, op)
  BY <1>1, Zenon DEF InRange, IsEa
<1>3. OperandBits(slot, op, suffix, addr) = 0
  BY Zenon DEF OperandBits, IsEa
<1>4. OperandWords(slot, op, size, suffix, list, addr, from) = <<op.numbers[2]>>
  BY Zenon DEF OperandWords, IsEa
<1> QED
  BY <1>1, <1>2, <1>3, <1>4, Zenon

\* A slot for an immediate of the size of the instruction lays down one word or two.
LEMMA ImmSizedSlot ==
  ASSUME NEW slot, slot.kind = "ImmSized", NEW op, op.syntax = "#imm",
         NEW size, NEW suffix, NEW list, NEW addr, NEW from
  PROVE  /\ op.syntax \in SyntaxesOf(slot)
         /\ (size = "B" => op.numbers[2] \in Byte) => InRange(slot, size, op)
         /\ OperandBits(slot, op, suffix, addr) = 0
         /\ OperandWords(slot, op, size, suffix, list, addr, from) = IF size = "L" THEN op.numbers ELSE <<op.numbers[2]>>
<1>1. SyntaxesOf(slot) = {"#imm"}
  BY Zenon DEF SyntaxesOf, IsEa
<1>2. (size = "B" => op.numbers[2] \in Byte) => InRange(slot, size, op)
  BY <1>1, Zenon DEF InRange, IsEa
<1>3. OperandBits(slot, op, suffix, addr) = 0
  BY Zenon DEF OperandBits, IsEa
<1>4. OperandWords(slot, op, size, suffix, list, addr, from) = IF size = "L" THEN op.numbers ELSE <<op.numbers[2]>>
  BY Zenon DEF OperandWords, IsEa
<1> QED
  BY <1>1, <1>2, <1>3, <1>4, Zenon

\* The address of MOVEP is a register in the opcode word and a displacement behind it.
LEMMA MovepSlot ==
  ASSUME NEW slot, slot.kind = "MovepDisp", NEW r, NEW d, NEW op, op = Shown("d16(An)", <<r, d>>),
         NEW size, NEW suffix, NEW list, NEW addr, NEW from
  PROVE  /\ op.syntax \in SyntaxesOf(slot) /\ InRange(slot, size, op)
         /\ OperandBits(slot, op, suffix, addr) = r
         /\ OperandWords(slot, op, size, suffix, list, addr, from) = <<Wrap16(d)>>
<1>1. op.syntax = "d16(An)" /\ op.numbers[1] = r /\ op.numbers[2] = d
  BY DEF Shown
<1>2. SyntaxesOf(slot) = {"d16(An)"}
  BY Zenon DEF SyntaxesOf, IsEa
<1>3. InRange(slot, size, op)
  BY <1>1, <1>2, Zenon DEF InRange, IsEa
<1>4. OperandBits(slot, op, suffix, addr) = r
  BY <1>1, Zenon DEF OperandBits, IsEa
<1>5. OperandWords(slot, op, size, suffix, list, addr, from) = <<Wrap16(d)>>
  BY <1>1, Zenon DEF OperandWords, IsEa
<1> QED
  BY <1>1, <1>2, <1>3, <1>4, <1>5

\* A slot for a register list takes all but the empty one and lays down the mask.
LEMMA RegListSlot ==
  ASSUME NEW slot, slot.kind = "RegList", NEW m, NEW op, op = Shown("list", <<m>>),
         NEW size, NEW suffix, NEW list, NEW addr, NEW from
  PROVE  /\ op.syntax \in SyntaxesOf(slot) /\ (m # 0 => InRange(slot, size, op))
         /\ OperandBits(slot, op, suffix, addr) = 0
         /\ OperandWords(slot, op, size, suffix, list, addr, from) = <<list>>
<1>1. op.syntax = "list" /\ op.numbers[1] = m
  BY DEF Shown
<1>2. SyntaxesOf(slot) = {"list"}
  BY Zenon DEF SyntaxesOf, IsEa
<1>3. m # 0 => InRange(slot, size, op)
  BY <1>1, <1>2, Zenon DEF InRange, IsEa
<1>4. OperandBits(slot, op, suffix, addr) = 0
  BY Zenon DEF OperandBits, IsEa
<1>5. OperandWords(slot, op, size, suffix, list, addr, from) = <<list>>
  BY <1>1, Zenon DEF OperandWords, IsEa
<1> QED
  BY <1>1, <1>2, <1>3, <1>4, <1>5

------------------------------------------------------------------------------
(* Effective addresses as fields, and the words read behind a slot         *)

\* A slot for an effective address takes its modes, but no address register as a byte.
LEMMA EaSlot ==
  ASSUME NEW slot, IsEa(slot), NEW op, op.syntax \in slot.modes,
         NEW size, NEW suffix, NEW list, NEW addr, NEW from
  PROVE  /\ op.syntax \in SyntaxesOf(slot)
         /\ ~(op.syntax = "An" /\ size = "B") /\ (op.syntax = "#imm" /\ size = "B" => op.numbers[2] \in Byte)
              => InRange(slot, size, op)
         /\ OperandBits(slot, op, suffix, addr) = EaField(slot, op.syntax, op.numbers[1])
<1>1. SyntaxesOf(slot) = slot.modes
  BY Zenon DEF SyntaxesOf, IsEa
<1> slot.kind \in {"Ea", "Dest"}
  BY DEF IsEa
<1>2. ASSUME ~(op.syntax = "An" /\ size = "B"), op.syntax = "#imm" /\ size = "B" => op.numbers[2] \in Byte
      PROVE  InRange(slot, size, op)
  BY <1>1, <1>2, Zenon DEF InRange, IsEa
<1>3. OperandBits(slot, op, suffix, addr) = EaField(slot, op.syntax, op.numbers[1])
  BY Zenon DEF OperandBits, IsEa
<1> QED
  BY <1>1, <1>2, <1>3

\* The words a slot has n bytes of at offset q.
WordsAt(c, q, n) ==
  IF n = 4 THEN <<be16(c, q), be16(c, q + 2)>> ELSE IF n = 2 THEN <<be16(c, q)>> ELSE <<>>

\* The words of a slot are a sequence.
LEMMA WordsAtIs ==
  ASSUME NEW c, NEW q, NEW n
  PROVE  SequenceOf(WordsAt(c, q, n), Len(WordsAt(c, q, n)))
<1>1. \A x, y : <<x, y>> \in Seq({x, y})
  OBVIOUS
<1>2. \A x : <<x>> \in Seq({x})
  OBVIOUS
<1>3. <<>> \in Seq({})
  OBVIOUS
<1>4. \E S : WordsAt(c, q, n) \in Seq(S)
  <2>1. CASE n = 4
    <3>1. PICK x, y : x = be16(c, q) /\ y = be16(c, q + 2)
      OBVIOUS
    <3>2. WordsAt(c, q, n) = <<x, y>>
      BY <2>1, <3>1, Zenon DEF WordsAt
    <3>3. <<x, y>> \in Seq({x, y})
      BY <1>1
    <3> QED
      BY <3>2, <3>3
  <2>2. CASE n = 2
    <3>1. WordsAt(c, q, n) = <<be16(c, q)>>
      BY <2>2 DEF WordsAt
    <3> QED
      BY <1>2, <3>1, Zenon
  <2>3. CASE n # 4 /\ n # 2
    <3>1. WordsAt(c, q, n) = <<>>
      BY <2>3 DEF WordsAt
    <3> QED
      BY <1>3, <3>1, Zenon
  <2> QED
    BY <2>1, <2>2, <2>3
<1> QED
  BY <1>4, Zenon DEF SequenceOf

\* One word is a sequence of one.
LEMMA OneWord ==
  ASSUME NEW x
  PROVE  SequenceOf(<<x>>, 1)
<1>1. <<x>> \in Seq({x}) /\ Len(<<x>>) = 1
  OBVIOUS
<1> QED
  BY <1>1, Zenon DEF SequenceOf

\* A word with its high byte empty, or three bits of it.
LEMMA BriefBack ==
  ASSUME NEW w \in Word16, HiByte(w) % 8 = 0, NEW d, LoByte(d) = LoByte(w), NEW x, x = index_reg(w)
  PROVE  Brief(d, x) = w
<1>1. PICK n \in Nat : n = w
  BY WordIsInt
<1>2. n < 65536
  BY <1>1, SMTT(60) DEF Word16
<1>3. PICK h \in Nat : h = n \div 256 /\ h < 256
  BY <1>2
<1>4. PICK l \in Nat : l = n % 256
  BY <1>1
<1>5. n = 256 * h + l /\ l < 256
  BY <1>3, <1>4
<1>6. h % 256 = h
  BY <1>3
<1>7. HiByte(w) = h /\ LoByte(w) = l
  BY <1>1, <1>3, <1>4, <1>6, Zenon DEF HiByte, LoByte
<1>8. PICK i \in Nat : i = h \div 8 /\ h = 8 * i
  BY <1>7
<1>9. n = 2048 * i + l
  BY <1>5, <1>8
<1>10. n \div 2048 = i
  BY <1>5, <1>9
<1>11. index_reg(w) = i
  BY <1>1, <1>10 DEF index_reg
<1>12. Brief(d, x) = 2048 * i + l
  BY <1>7, <1>11 DEF Brief
<1> QED
  BY <1>1, <1>9, <1>12

\* Displacements of 16 and of 8 bits come back after their sign was extended.
LEMMA WordBack ==
  ASSUME NEW w \in Word16
  PROVE  /\ AsI16(w) \in Int /\ -32768 <= AsI16(w) /\ AsI16(w) <= 32767 /\ Wrap16(AsI16(w)) = w
         /\ AsI8(LoByte(w)) \in Int /\ -32768 <= AsI8(LoByte(w)) /\ AsI8(LoByte(w)) <= 32767
         /\ LoByte(AsI8(LoByte(w))) = LoByte(w)
<1>1. PICK n \in Int : n = w /\ 0 <= n /\ n < 65536
  BY WordIsInt, SMTT(60) DEF Word16
<1>2. /\ AsI16(n) \in Int /\ -32768 <= AsI16(n) /\ AsI16(n) <= 32767 /\ Wrap16(AsI16(n)) = n
  BY <1>1, SignedWordLaid
<1>3. PICK l : l = LoByte(w)
  OBVIOUS
<1>4. l \in Byte
  BY <1>1, <1>3 DEF LoByte, Byte
<1>5. AsI8(l) \in -128..127 /\ LoByte(AsI8(l)) = l
  BY <1>4, SignedByteRoundTrip
<1> QED
  BY <1>1, <1>2, <1>3, <1>5

------------------------------------------------------------------------------
(* The words of each mode come back                                        *)

\* An operand of two numbers, taken apart.
LEMMA ShownTwo ==
  ASSUME NEW syntax, NEW x, NEW y, NEW op, op = Shown(syntax, <<x, y>>)
  PROVE  op.syntax = syntax /\ op.numbers[1] = x /\ op.numbers[2] = y
BY DEF Shown

\* An operand of three numbers, taken apart.
LEMMA ShownThree ==
  ASSUME NEW syntax, NEW x, NEW y, NEW z, NEW op, op = Shown(syntax, <<x, y, z>>)
  PROVE  op.syntax = syntax /\ op.numbers[1] = x /\ op.numbers[2] = y /\ op.numbers[3] = z
BY DEF Shown

\* What is written for an effective address, and what is laid down for it.
LEMMA DisplacementEa ==
  ASSUME NEW slot, IsEa(slot), NEW reg, NEW size, NEW c, NEW q, NEW at, NEW w, w = be16(c, q),
         NEW op, op = render_ea("d16(An)", reg, size, c, q, at),
         NEW suffix, NEW list, NEW addr, NEW from
  PROVE  /\ op.syntax = "d16(An)" /\ op.numbers[1] = reg
         /\ OperandWords(slot, op, size, suffix, list, addr, from) = <<Wrap16(AsI16(w))>>
<1>1. op = Shown("d16(An)", <<reg, AsI16(w)>>)
  BY Zenon DEF render_ea
<1>2. op.syntax = "d16(An)" /\ op.numbers = <<reg, AsI16(w)>> /\ op.numbers[1] = reg /\ op.numbers[2] = AsI16(w)
  BY <1>1 DEF Shown
<1>3. OperandWords(slot, op, size, suffix, list, addr, from) = <<Wrap16(AsI16(w))>>
  BY <1>2, Zenon DEF OperandWords, IsEa
<1> QED
  BY <1>2, <1>3

\* An indexed address lays down its index register and its displacement.
LEMMA IndexedEa ==
  ASSUME NEW slot, IsEa(slot), NEW reg, NEW size, NEW c, NEW q, NEW at, NEW w, w = be16(c, q),
         NEW op, op = render_ea("d8(An+Xn)", reg, size, c, q, at),
         NEW suffix, NEW list, NEW addr, NEW from
  PROVE  /\ op.syntax = "d8(An+Xn)" /\ op.numbers[1] = reg
         /\ OperandWords(slot, op, size, suffix, list, addr, from) = <<Brief(AsI8(LoByte(w)), index_reg(w))>>
<1>1. PICK b : b = AsI8(LoByte(w))
  OBVIOUS
<1>2. PICK x : x = index_reg(w)
  OBVIOUS
<1>3. op = Shown("d8(An+Xn)", <<reg, b, x>>)
  BY <1>1, <1>2, Zenon DEF render_ea
<1>4. op.syntax = "d8(An+Xn)" /\ op.numbers[1] = reg /\ op.numbers[2] = b /\ op.numbers[3] = x
  BY <1>3, ShownThree
<1>5. OperandWords(slot, op, size, suffix, list, addr, from) = <<Brief(b, x)>>
  BY <1>4, Zenon DEF OperandWords, IsEa
<1> QED
  BY <1>1, <1>2, <1>4, <1>5, Zenon

\* An absolute short address lays down its word.
LEMMA ShortEa ==
  ASSUME NEW slot, IsEa(slot), NEW reg, NEW size, NEW c, NEW q, NEW at, NEW w, w = be16(c, q),
         NEW op, op = render_ea("(xxx).W", reg, size, c, q, at),
         NEW suffix, NEW list, NEW addr, NEW from
  PROVE  /\ op.syntax = "(xxx).W" /\ op.numbers[1] = w
         /\ OperandWords(slot, op, size, suffix, list, addr, from) = <<w>>
<1>1. op = Shown("(xxx).W", <<w>>)
  BY Zenon DEF render_ea
<1>2. op.syntax = "(xxx).W" /\ op.numbers = <<w>> /\ op.numbers[1] = w
  BY <1>1 DEF Shown
<1>3. OperandWords(slot, op, size, suffix, list, addr, from) = <<w>>
  BY <1>2, Zenon DEF OperandWords, IsEa
<1> QED
  BY <1>2, <1>3

\* An absolute long address lays down its two words.
LEMMA LongEa ==
  ASSUME NEW slot, IsEa(slot), NEW reg, NEW size, NEW c, NEW q, NEW at, NEW w, w = be16(c, q),
         NEW op, op = render_ea("(xxx).L", reg, size, c, q, at),
         NEW suffix, NEW list, NEW addr, NEW from
  PROVE  /\ op.syntax = "(xxx).L" /\ op.numbers[1] = w
         /\ OperandWords(slot, op, size, suffix, list, addr, from) = <<w, be16(c, q + 2)>>
<1>1. op = Shown("(xxx).L", <<w, be16(c, q + 2)>>)
  BY Zenon DEF render_ea
<1>2. op.syntax = "(xxx).L" /\ op.numbers = <<w, be16(c, q + 2)>> /\ op.numbers[1] = w /\ op.numbers[2] = be16(c, q + 2)
  BY <1>1 DEF Shown
<1>3. OperandWords(slot, op, size, suffix, list, addr, from) = <<w, be16(c, q + 2)>>
  BY <1>2, Zenon DEF OperandWords, IsEa
<1> QED
  BY <1>2, <1>3

\* A pc-relative address lays down its distance from its own extension word.
LEMMA PcEa ==
  ASSUME NEW slot, IsEa(slot), NEW reg, NEW size, NEW c, NEW q, NEW at, NEW w, w = be16(c, q),
         NEW op, op = render_ea("d16(PC)", reg, size, c, q, at),
         NEW suffix, NEW list, NEW addr, NEW from
  PROVE  /\ op.syntax = "d16(PC)" /\ op.numbers[1] = WrapAddress(at + AsI16(w))
         /\ OperandWords(slot, op, size, suffix, list, addr, from) = <<Wrap16(Distance(WrapAddress(at + AsI16(w)), from))>>
<1>1. op = Shown("d16(PC)", <<WrapAddress(at + AsI16(w))>>)
  BY Zenon DEF render_ea
<1>2. op.syntax = "d16(PC)" /\ op.numbers = <<WrapAddress(at + AsI16(w))>> /\ op.numbers[1] = WrapAddress(at + AsI16(w))
  BY <1>1 DEF Shown
<1>3. OperandWords(slot, op, size, suffix, list, addr, from) = <<Wrap16(Distance(WrapAddress(at + AsI16(w)), from))>>
  BY <1>2, Zenon DEF OperandWords, IsEa
<1> QED
  BY <1>2, <1>3

\* So does an indexed one, as a byte next to its index register.
LEMMA PcIndexedEa ==
  ASSUME NEW slot, IsEa(slot), NEW reg, NEW size, NEW c, NEW q, NEW at, NEW w, w = be16(c, q),
         NEW op, op = render_ea("d8(PC+Xn)", reg, size, c, q, at),
         NEW suffix, NEW list, NEW addr, NEW from
  PROVE  /\ op.syntax = "d8(PC+Xn)" /\ op.numbers[1] = WrapAddress(at + AsI8(LoByte(w)))
         /\ OperandWords(slot, op, size, suffix, list, addr, from) = <<Brief(Distance(WrapAddress(at + AsI8(LoByte(w))), from), index_reg(w))>>
<1>1. PICK t : t = WrapAddress(at + AsI8(LoByte(w)))
  OBVIOUS
<1>2. PICK x : x = index_reg(w)
  OBVIOUS
<1>3. op = Shown("d8(PC+Xn)", <<t, x>>)
  BY <1>1, <1>2, Zenon DEF render_ea
<1>4. op.syntax = "d8(PC+Xn)" /\ op.numbers[1] = t /\ op.numbers[2] = x
  BY <1>3, ShownTwo
<1>5. OperandWords(slot, op, size, suffix, list, addr, from) = <<Brief(Distance(t, from), x)>>
  BY <1>4, Zenon DEF OperandWords, IsEa
<1> QED
  BY <1>1, <1>2, <1>4, <1>5, Zenon

\* An immediate lays down as many words as its size has.
LEMMA ImmediateEa ==
  ASSUME NEW slot, IsEa(slot), NEW reg, NEW size, NEW c, NEW q, NEW at, NEW w, w = be16(c, q),
         NEW op, op = render_ea("#imm", reg, size, c, q, at),
         NEW suffix, NEW list, NEW addr, NEW from
  PROVE  /\ op.syntax = "#imm" /\ (size # "L" => op.numbers[2] = w)
         /\ OperandWords(slot, op, size, suffix, list, addr, from)
              = IF size = "L" THEN <<w, be16(c, q + 2)>> ELSE <<w>>
<1>1. op = SizedImmediate(size, c, q)
  BY Zenon DEF render_ea
<1>2. CASE size = "L"
  <2>1. op = Shown("#imm", <<w, be16(c, q + 2)>>)
    BY <1>1, <1>2, Zenon DEF SizedImmediate, Immediate
  <2>2. op.syntax = "#imm" /\ op.numbers = <<w, be16(c, q + 2)>>
    BY <2>1 DEF Shown
  <2>3. OperandWords(slot, op, size, suffix, list, addr, from) = <<w, be16(c, q + 2)>>
    BY <1>2, <2>2, Zenon DEF OperandWords, IsEa
  <2> QED
    BY <1>2, <2>2, <2>3
<1>3. CASE size # "L"
  <2>1. op = Shown("#imm", <<0, w>>)
    BY <1>1, <1>3, Zenon DEF SizedImmediate, Immediate
  <2>2. op.syntax = "#imm" /\ op.numbers[2] = w
    BY <2>1 DEF Shown
  <2>3. OperandWords(slot, op, size, suffix, list, addr, from) = <<w>>
    BY <1>3, <2>2, Zenon DEF OperandWords, IsEa
  <2> QED
    BY <1>3, <2>2, <2>3
<1> QED
  BY <1>2, <1>3

\* An address without extension words lays nothing down.
LEMMA PlainEa ==
  ASSUME NEW slot, IsEa(slot), NEW reg, NEW size, NEW c, NEW q, NEW at,
         NEW mode \in {"(An)", "(An)+", "-(An)", "Dn", "An"},
         NEW op, op = render_ea(mode, reg, size, c, q, at),
         NEW suffix, NEW list, NEW addr, NEW from
  PROVE  /\ op.syntax = mode /\ op.numbers[1] = reg
         /\ OperandWords(slot, op, size, suffix, list, addr, from) = <<>>
<1>1. op = Shown(mode, <<reg>>)
  BY Zenon DEF render_ea
<1>2. op.syntax = mode /\ op.numbers[1] = reg
  BY <1>1 DEF Shown
<1>3. OperandWords(slot, op, size, suffix, list, addr, from) = <<>>
  BY <1>2, Zenon DEF OperandWords, IsEa
<1> QED
  BY <1>2, <1>3

\* A target counted from the extension word it was read from.
LEMMA TargetBack ==
  ASSUME NEW from \in Int, NEW d \in Int, -32768 <= d, d <= 32767
  PROVE  Distance(WrapAddress(from + d), from) = d
<1>1. PICK s \in Int : s = from + d
  OBVIOUS
<1>2. Distance(WrapAddress(s), from) = d
  BY <1>1, DistanceBack
<1> QED
  BY <1>1, <1>2

\* A displacement comes back from the target it was turned into, however addresses wrapped.
LEMMA WrappedTargetBack ==
  ASSUME NEW from \in Int, NEW d \in Int, -32768 <= d, d <= 32767
  PROVE  Distance(WrapAddress(WrapAddress(from) + d), from) = d
<1>1. PICK a \in Int : a = WrapAddress(from)
  BY AddressIsInt
<1>2. PICK s \in Int : s = a + d
  OBVIOUS
<1>3. Distance(WrapAddress(s), from) = d
  BY <1>1, <1>2, DistanceBack
<1> QED
  BY <1>1, <1>2, <1>3

------------------------------------------------------------------------------
(* Every effective address comes back                                      *)

WordLaid(op, mode, reg, words, w, said) ==
  /\ op.syntax = mode /\ (mode \in RegisterModes => op.numbers[1] = reg)
  /\ SequenceOf(words, 1)
  /\ said => words = <<w>>

\* The words of an effective address that has one, or none, or an immediate.
LEMMA EaWordsKept ==
  ASSUME NEW slot, IsEa(slot), NEW reg, NEW size, NEW c, NEW q, NEW from \in Int, NEW at \in Int,
         NEW mode \in {"d16(An)", "d8(An+Xn)", "(xxx).W", "d16(PC)", "d8(PC+Xn)"},
         NEW w \in Word16, w = be16(c, q),
         NEW op, op = render_ea(mode, reg, size, c, q, at),
         NEW suffix, NEW list, NEW addr,
         NEW said, said => at = WrapAddress(from),
         said => (mode \in {"d8(An+Xn)", "d8(PC+Xn)"} => HiByte(w) % 8 = 0)
  PROVE  WordLaid(op, mode, reg, OperandWords(slot, op, size, suffix, list, addr, from), w, said)
<1>0. PICK words : words = OperandWords(slot, op, size, suffix, list, addr, from)
  OBVIOUS
<1> SUFFICES /\ op.syntax = mode /\ (mode \in RegisterModes => op.numbers[1] = reg)
             /\ SequenceOf(words, 1)
             /\ said => words = <<w>>
  BY <1>0 DEF WordLaid
<1>1. SequenceOf(<<w>>, 1)
  BY OneWord
<1>2. CASE mode = "d16(An)"
  <2>1. op.syntax = mode /\ op.numbers[1] = reg /\ words = <<Wrap16(AsI16(w))>>
    BY <1>2, <1>0, DisplacementEa
  <2>2. words = <<w>>
    BY <2>1, WordBack
  <2> QED
    BY <1>1, <2>1, <2>2
<1>3. CASE mode = "d8(An+Xn)"
  <2>1. PICK b : b = Brief(AsI8(LoByte(w)), index_reg(w))
    OBVIOUS
  <2>2. op.syntax = mode /\ op.numbers[1] = reg /\ words = <<b>>
    BY <1>3, <2>1, <1>0, IndexedEa
  <2>3. HiByte(w) % 8 = 0 => b = w
    BY <2>1, WordBack, BriefBack
  <2>4. SequenceOf(<<b>>, 1)
    BY OneWord
  <2> QED
    BY <1>3, <2>2, <2>3, <2>4
<1>4. CASE mode = "(xxx).W"
  <2>1. op.syntax = mode /\ words = <<w>>
    BY <1>4, <1>0, ShortEa
  <2> QED
    BY <1>1, <1>4, <2>1 DEF RegisterModes
<1>5. CASE mode = "d16(PC)"
  <2>1. PICK d \in Int : d = AsI16(w) /\ -32768 <= d /\ d <= 32767 /\ Wrap16(d) = w
    BY WordBack
  <2>2. PICK b : b = Wrap16(Distance(WrapAddress(at + d), from))
    OBVIOUS
  <2>3. op.syntax = mode /\ words = <<b>>
    BY <1>5, <2>1, <2>2, <1>0, PcEa
  <2>4. at = WrapAddress(from) => b = w
    <3>1. SUFFICES ASSUME at = WrapAddress(from) PROVE b = w
      OBVIOUS
    <3>2. Distance(WrapAddress(at + d), from) = d
      BY <2>1, <3>1, WrappedTargetBack
    <3> QED
      BY <2>1, <2>2, <3>2
  <2>5. SequenceOf(<<b>>, 1)
    BY OneWord
  <2> QED
    BY <1>5, <2>3, <2>4, <2>5 DEF RegisterModes
<1>6. CASE mode = "d8(PC+Xn)"
  <2>1. PICK d \in Int : d = AsI8(LoByte(w)) /\ -32768 <= d /\ d <= 32767 /\ LoByte(d) = LoByte(w)
    BY WordBack
  <2>2. PICK b : b = Brief(Distance(WrapAddress(at + d), from), index_reg(w))
    OBVIOUS
  <2>3. op.syntax = mode /\ words = <<b>>
    BY <1>6, <2>1, <2>2, <1>0, PcIndexedEa
  <2>4. at = WrapAddress(from) /\ HiByte(w) % 8 = 0 => b = w
    <3>1. SUFFICES ASSUME at = WrapAddress(from), HiByte(w) % 8 = 0 PROVE b = w
      OBVIOUS
    <3>2. Distance(WrapAddress(at + d), from) = d
      BY <2>1, <3>1, WrappedTargetBack
    <3>3. b = Brief(d, index_reg(w))
      BY <2>2, <3>2
    <3> QED
      BY <2>1, <3>1, <3>3, BriefBack
  <2>5. SequenceOf(<<b>>, 1)
    BY OneWord
  <2> QED
    BY <1>6, <2>3, <2>4, <2>5 DEF RegisterModes
<1> QED
  BY <1>2, <1>3, <1>4, <1>5, <1>6

\* A slot of an effective address, whose mode in word it allows.
EaMode(slot, word, mode, size) ==
  /\ slot \in OperandSlot /\ IsEa(slot)
  /\ mode \in ALL /\ mode = ModeOf(slot, word) /\ mode \in slot.modes
  /\ ~(mode = "An" /\ size = "B")

\* The text has it all, and the target was counted from the word it is in.
EaSays(mode, size, w, here, from) ==
  /\ here = WrapAddress(from)
  /\ mode \in {"d8(An+Xn)", "d8(PC+Xn)"} => HiByte(w) % 8 = 0
  /\ mode = "#imm" /\ size = "B" => w \in Byte

\* Every effective address comes back, if its text says all that its words do.
LEMMA EaKept ==
  ASSUME NEW slot, NEW word \in Nat, NEW mode, NEW size, EaMode(slot, word, mode, size),
         NEW c \in Seq(Byte), NEW q \in Nat,
         NEW n \in Nat, n = ExtensionLen(slot, word, size), q + n <= Len(c),
         NEW from \in Int, NEW here \in Int, NEW addr, NEW suffix, NEW list,
         NEW reg, reg = ModeAndRegister(slot, word)[2], NEW op, op = render_ea(mode, reg, size, c, q, here),
         NEW w, w = be16(c, q), NEW said, said => EaSays(mode, size, w, here, from)
  PROVE  Kept(slot, size, op, suffix, list, addr, from,
              InField(word, SlotField(slot)), WordsAt(c, q, n), said)
<1>1. /\ slot \in OperandSlot /\ IsEa(slot) /\ ~(mode = "An" /\ size = "B")
      /\ mode \in ALL /\ mode = ModeOf(slot, word) /\ mode \in slot.modes
  BY DEF EaMode
<1>0. /\ said => here = WrapAddress(from)
      /\ said => (mode \in {"d8(An+Xn)", "d8(PC+Xn)"} => HiByte(w) % 8 = 0)
      /\ said => (mode = "#imm" /\ size = "B" => w \in Byte)
  BY DEF EaSays
<1>2. PICK words : words = OperandWords(slot, op, size, suffix, list, addr, from)
  OBVIOUS
<1>3. /\ op.syntax = mode /\ (mode \in RegisterModes => op.numbers[1] = reg)
      /\ SequenceOf(words, Len(WordsAt(c, q, n)))
      /\ said => words = WordsAt(c, q, n)
      /\ said /\ mode = "#imm" /\ size = "B" => op.numbers[2] \in Byte
  <2>1. CASE mode \in {"d16(An)", "d8(An+Xn)", "(xxx).W", "d16(PC)", "d8(PC+Xn)"}
    <3>1. n = 2
      BY <1>1, <2>1, EaExtensionLen
    <3>2. w \in Word16
      BY <3>1, TwoWords
    <3>3. WordsAt(c, q, n) = <<w>>
      BY <3>1, <3>2 DEF WordsAt
    <3>4. WordLaid(op, mode, reg, OperandWords(slot, op, size, suffix, list, addr, from), w, said)
      BY <1>0, <1>1, <2>1, <3>2, EaWordsKept
    <3>5. Len(WordsAt(c, q, n)) = 1
      BY <3>3
    <3> QED
      BY <1>2, <2>1, <3>3, <3>4, <3>5 DEF WordLaid
  <2>2. CASE mode = "(xxx).L"
    <3>1. n = 4
      BY <1>1, <2>2, EaExtensionLen
    <3>2. op.syntax = mode /\ words = <<w, be16(c, q + 2)>>
      BY <1>1, <1>2, <2>2, LongEa
    <3>3. WordsAt(c, q, n) = words
      BY <3>1, <3>2 DEF WordsAt
    <3> QED
      BY <2>2, <3>2, <3>3, WordsAtIs DEF RegisterModes
  <2>3. CASE mode = "#imm"
    <3>1. n = IF size = "L" THEN 4 ELSE 2
      BY <1>1, <2>3, EaExtensionLen
    <3>2. /\ op.syntax = mode /\ (size # "L" => op.numbers[2] = w)
          /\ words = IF size = "L" THEN <<w, be16(c, q + 2)>> ELSE <<w>>
      BY <1>1, <1>2, <2>3, ImmediateEa
    <3>3. WordsAt(c, q, n) = words
      BY <3>1, <3>2 DEF WordsAt
    <3> QED
      BY <1>0, <2>3, <3>2, <3>3, WordsAtIs DEF RegisterModes
  <2>4. CASE mode \in {"(An)", "(An)+", "-(An)", "Dn", "An"}
    <3>1. n = 0
      BY <1>1, <2>4, Zenon DEF ExtensionLen, IsEa
    <3>2. op.syntax = mode /\ op.numbers[1] = reg /\ words = <<>>
      BY <1>1, <1>2, <2>4, PlainEa
    <3>3. WordsAt(c, q, n) = <<>>
      BY <3>1 DEF WordsAt
    <3> QED
      BY <2>4, <3>2, <3>3, WordsAtIs
  <2> QED
    BY <1>1, <2>1, <2>2, <2>3, <2>4, SyntaxesAre
<1>4. op.syntax \in SyntaxesOf(slot)
  BY <1>1, <1>3, EaSlot
<1>5. OperandBits(slot, op, suffix, addr) = InField(word, SlotField(slot))
  <2>1. OperandBits(slot, op, suffix, addr) = EaField(slot, mode, op.numbers[1])
    BY <1>1, <1>3, EaSlot
  <2>2. EaField(slot, mode, op.numbers[1]) = InField(word, SlotField(slot))
    BY <1>1, <1>3, EaBits
  <2> QED
    BY <2>1, <2>2
<1>6. said => InRange(slot, size, op)
  BY <1>1, <1>3, EaSlot
<1> QED
  BY <1>2, <1>3, <1>4, <1>5, <1>6, Zenon DEF Kept

------------------------------------------------------------------------------
(* Register lists are reversed and reversed again                          *)

\* Numbers of two digits.
LEMMA DigitsOf16 ==
  ASSUME NEW h \in Int, 0 <= h, h < 16, NEW l \in Int, 0 <= l, l < 16
  PROVE  \E r \in Int : r = 16 * h + l /\ 0 <= r /\ r < 256 /\ r % 16 = l /\ r \div 16 = h
<1>1. PICK r \in Int : r = 16 * h + l /\ 0 <= r /\ r < 256
  OBVIOUS
<1>2. r % 16 = l
  BY <1>1
<1>3. r \div 16 = h
  BY <1>1
<1> QED
  BY <1>1, <1>2, <1>3

\* A byte is its own low byte.
LEMMA SmallMod256 ==
  ASSUME NEW n \in Int, 0 <= n, n < 256
  PROVE  n % 256 = n
OBVIOUS

\* A byte is two digits of four bits.
LEMMA Digits16 ==
  ASSUME NEW n \in Int, 0 <= n, n < 256
  PROVE  \E h \in Int, l \in Int :
           h = n \div 16 /\ l = n % 16 /\ n = 16 * h + l /\ 0 <= h /\ h < 16 /\ 0 <= l /\ l < 16
<1>1. PICK h \in Int : h = n \div 16 /\ 0 <= h /\ h < 16
  OBVIOUS
<1>2. PICK l \in Int : l = n % 16 /\ 0 <= l /\ l < 16
  OBVIOUS
<1>3. n = 16 * h + l
  BY <1>1, <1>2
<1> QED
  BY <1>1, <1>2, <1>3

\* A word is two bytes.
LEMMA Digits256 ==
  ASSUME NEW n \in Int, 0 <= n, n < 65536
  PROVE  \E h \in Int, l \in Int :
           h = n \div 256 /\ l = n % 256 /\ n = 256 * h + l /\ 0 <= h /\ h < 256 /\ 0 <= l /\ l < 256
<1>1. PICK h \in Int : h = n \div 256 /\ 0 <= h /\ h < 256
  OBVIOUS
<1>2. PICK l \in Int : l = n % 256 /\ 0 <= l /\ l < 256
  OBVIOUS
<1>3. n = 256 * h + l
  BY <1>1, <1>2
<1> QED
  BY <1>1, <1>2, <1>3

\* Four bits that are reversed twice are as before.
LEMMA Reverse4Twice ==
  ASSUME NEW n \in Int, 0 <= n, n < 16
  PROVE  /\ Reverse4(n) \in Int /\ 0 <= Reverse4(n) /\ Reverse4(n) < 16
         /\ Reverse4(Reverse4(n)) = n
BY DEF Reverse4

\* So is a byte.
LEMMA Reverse8Twice ==
  ASSUME NEW b \in Int, 0 <= b, b < 256
  PROVE  /\ Reverse8(b) \in Int /\ 0 <= Reverse8(b) /\ Reverse8(b) < 256
         /\ Reverse8(Reverse8(b)) = b
<1>1. PICK h \in Int, l \in Int :
        h = b \div 16 /\ l = b % 16 /\ b = 16 * h + l /\ 0 <= h /\ h < 16 /\ 0 <= l /\ l < 16
  BY Digits16
<1>2. PICK x \in Int : x = Reverse4(l) /\ Reverse4(x) = l /\ 0 <= x /\ x < 16
  BY <1>1, Reverse4Twice
<1>3. PICK y \in Int : y = Reverse4(h) /\ Reverse4(y) = h /\ 0 <= y /\ y < 16
  BY <1>1, Reverse4Twice
<1>4. PICK r \in Int : r = 16 * x + y /\ 0 <= r /\ r < 256 /\ r % 16 = y /\ r \div 16 = x
  BY <1>2, <1>3, DigitsOf16
<1>5. r % 16 = y /\ r \div 16 = x
  BY <1>4
<1>6. Reverse8(b) = r
  BY <1>1, <1>2, <1>3, <1>4, Zenon DEF Reverse8
<1>7. Reverse8(r) = 16 * h + l
  BY <1>2, <1>3, <1>5, Zenon DEF Reverse8
<1> QED
  BY <1>1, <1>4, <1>6, <1>7

\* So is a word.
LEMMA ReversedTwice ==
  ASSUME NEW w \in Word16
  PROVE  ReverseBits(ReverseBits(w)) = w
<1>1. PICK n \in Int : n = w /\ 0 <= n /\ n < 65536
  BY WordIsInt, SMTT(60) DEF Word16
<1>2. PICK h \in Int, l \in Int :
        h = n \div 256 /\ l = n % 256 /\ n = 256 * h + l /\ 0 <= h /\ h < 256 /\ 0 <= l /\ l < 256
  BY <1>1, Digits256
<1>3. h % 256 = h
  BY <1>2, SmallMod256
<1>4. HiByte(w) = h /\ LoByte(w) = l
  <2>1. n = w /\ h = n \div 256 /\ l = n % 256
    BY <1>1, <1>2
  <2>2. HiByte(n) = h
    BY <1>3, <2>1, Zenon DEF HiByte
  <2>3. LoByte(n) = l
    BY <2>1, Zenon DEF LoByte
  <2> QED
    BY <2>1, <2>2, <2>3
<1>5. PICK x \in Int : x = Reverse8(l) /\ Reverse8(x) = l /\ 0 <= x /\ x < 256
  BY <1>2, Reverse8Twice
<1>6. PICK y \in Int : y = Reverse8(h) /\ Reverse8(y) = h /\ 0 <= y /\ y < 256
  BY <1>2, Reverse8Twice
<1>7. PICK r \in Int : r = 256 * x + y
  BY <1>5, <1>6
<1>8. r % 256 = y /\ r \div 256 = x /\ x % 256 = x
  BY <1>5, <1>6, <1>7
<1>9. ReverseBits(w) = r
  BY <1>4, <1>5, <1>6, <1>7, Zenon DEF ReverseBits
<1>10. HiByte(r) = x /\ LoByte(r) = y
  BY <1>8, Zenon DEF HiByte, LoByte
<1>11. ReverseBits(r) = 256 * h + l
  BY <1>5, <1>6, <1>10, Zenon DEF ReverseBits
<1> QED
  BY <1>1, <1>2, <1>9, <1>11

\* No registers are no registers in either order.
LEMMA ReversedZero == ReverseBits(0) = 0
<1>1. LoByte(0) = 0 /\ HiByte(0) = 0
  BY DEF LoByte, HiByte
<1>2. Reverse8(0) = 0
  BY DEF Reverse8, Reverse4
<1> QED
  BY <1>1, <1>2 DEF ReverseBits

\* The mask of a list is stored as it is or reversed, and is empty in neither if it is not.
LEMMA ListOrderIs ==
  ASSUME NEW f, NEW word, NEW m \in Word16
  PROVE  /\ ListOrder(f, word, m) \in {m, ReverseBits(m)}
         /\ m # 0 => ListOrder(f, word, m) # 0
<1>1. ListOrder(f, word, m) \in {m, ReverseBits(m)}
  BY DEF ListOrder
<1>2. ReverseBits(m) = 0 => m = 0
  BY ReversedTwice, ReversedZero
<1> QED
  BY <1>1, <1>2

\* The text of the slots without extension words.
LEMMA FieldKept ==
  ASSUME NEW f, NEW s, NEW slot, slot = f.operands[s], slot \in OperandSlot, NEW word \in Word16,
         slot.kind \in {"Dn", "An", "-(An)", "(An)+", "Quick3", "Quick8", "Vec4", "Ccr", "Sr", "Usp"},
         NEW c, NEW q, NEW at, NEW addr, NEW size, NEW op, op = OperandAt(f, word, c, q, at, addr, s),
         NEW n, n = ExtensionLen(slot, word, size), NEW suffix, NEW list, NEW from, NEW said
  PROVE  Kept(slot, size, op, suffix, list, addr, from, InField(word, SlotField(slot)), WordsAt(c, q, n), said)
<1>1. word \in Nat
  BY WordIsInt
<1>2. n = 0
  BY Zenon DEF ExtensionLen, IsEa
<1>3. WordsAt(c, q, n) = <<>>
  BY <1>2 DEF WordsAt
<1>4. slot.shift \in {0, 6, 9}
  BY DEF OperandSlot
<1>5. PICK reg \in 0..7 : reg = Field(word, slot.shift, 3)
  BY <1>1, <1>4, FieldIs
<1> SUFFICES /\ op.syntax \in SyntaxesOf(slot) /\ InRange(slot, size, op)
             /\ OperandBits(slot, op, suffix, addr) = InField(word, SlotField(slot))
             /\ OperandWords(slot, op, size, suffix, list, addr, from) = <<>>
  BY <1>3, WordsAtIs DEF Kept
<1>6. CASE slot.kind \in {"Dn", "An", "-(An)", "(An)+"}
  <2>1. op = Shown(slot.kind, <<reg>>)
    BY <1>5, <1>6, RegisterOperand
  <2>2. op.syntax = slot.kind /\ op.numbers[1] = reg
    BY <2>1 DEF Shown
  <2>3. InField(word, SlotField(slot)) = Bit(slot.shift) * reg
    BY <1>1, <1>5, <1>6, FieldsAre
  <2>4. OperandBits(slot, op, suffix, addr) = Bit(slot.shift) * op.numbers[1]
    BY <1>6, Zenon DEF OperandBits, IsEa
  <2>5. /\ op.syntax \in SyntaxesOf(slot) /\ InRange(slot, size, op)
        /\ OperandWords(slot, op, size, suffix, list, addr, from) = <<>>
    BY <1>6, <2>2, RegisterSlot
  <2> QED
    BY <2>2, <2>3, <2>4, <2>5, Zenon
<1>7. CASE slot.kind \in {"Ccr", "Sr", "Usp"}
  <2>1. op = Shown(slot.kind, <<>>)
    BY <1>7, FieldOperand
  <2>2. op.syntax = slot.kind
    BY <2>1 DEF Shown
  <2>3. InField(word, SlotField(slot)) = 0
    BY <1>1, <1>7, FieldsAre
  <2> QED
    BY <1>7, <2>2, <2>3, StatusSlot
<1>8. CASE slot.kind = "Quick8"
  <2>1. PICK b \in Byte : b = LoByte(word) /\ b = word % 256
    BY <1>1 DEF LoByte, Byte
  <2>2. PICK v \in -128..127 : v = AsI8(LoByte(word)) /\ LoByte(v) = b
    BY <2>1, SignedByteRoundTrip
  <2>3. op = Immediate(0, v)
    BY <1>8, <2>2, Zenon DEF OperandAt, IsEa
  <2>4. op.syntax = "#imm" /\ op.numbers[2] = v
    BY <2>3, ImmediateShows
  <2>5. InField(word, SlotField(slot)) = b
    BY <1>1, <1>8, <2>1, FieldsAre
  <2>6. OperandBits(slot, op, suffix, addr) = b
    <3>1. OperandBits(slot, op, suffix, addr) = LoByte(op.numbers[2])
      BY <1>8, <2>4, Quick8Slot
    <3> QED
      BY <2>2, <2>4, <3>1, Zenon
  <2>7. /\ op.syntax \in SyntaxesOf(slot) /\ InRange(slot, size, op)
        /\ OperandWords(slot, op, size, suffix, list, addr, from) = <<>>
    BY <1>8, <2>4, Quick8Slot
  <2> QED
    BY <2>5, <2>6, <2>7, Zenon
<1>9. CASE slot.kind = "Quick3"
  <2>1. PICK v \in 1..8 : v = (IF reg = 0 THEN 8 ELSE reg) /\ v % 8 = reg
    OBVIOUS
  <2>2. op = Immediate(0, v)
    BY <1>5, <1>9, <2>1, Zenon DEF OperandAt, IsEa
  <2>3. op.syntax = "#imm" /\ op.numbers[2] = v
    BY <2>2, ImmediateShows
  <2>4. InField(word, SlotField(slot)) = Bit(slot.shift) * reg
    BY <1>1, <1>5, <1>9, FieldsAre
  <2>5. OperandBits(slot, op, suffix, addr) = Bit(slot.shift) * reg
    BY <1>9, <2>1, <2>3, Zenon DEF OperandBits, IsEa
  <2>6. /\ op.syntax \in SyntaxesOf(slot) /\ InRange(slot, size, op)
        /\ OperandWords(slot, op, size, suffix, list, addr, from) = <<>>
    BY <1>9, <2>3, Quick3Slot
  <2> QED
    BY <2>4, <2>5, <2>6, Zenon
<1>10. CASE slot.kind = "Vec4"
  <2>1. PICK v \in 0..15 : v = word % 16
    BY <1>1
  <2>2. op = Immediate(0, v)
    BY <1>10, <2>1, Zenon DEF OperandAt, IsEa
  <2>3. op.syntax = "#imm" /\ op.numbers[2] = v
    BY <2>2, ImmediateShows
  <2>4. InField(word, SlotField(slot)) = v
    BY <1>1, <1>10, <2>1, FieldsAre
  <2>5. OperandBits(slot, op, suffix, addr) = v
    BY <1>10, <2>3, Zenon DEF OperandBits, IsEa
  <2>6. /\ op.syntax \in SyntaxesOf(slot) /\ InRange(slot, size, op)
        /\ OperandWords(slot, op, size, suffix, list, addr, from) = <<>>
    BY <1>10, <2>3, Vec4Slot
  <2> QED
    BY <2>4, <2>5, <2>6, Zenon
<1> QED
  BY <1>6, <1>7, <1>8, <1>9, <1>10

------------------------------------------------------------------------------
(* The slots with an extension word of their own come back                 *)

\* The text of the slots with extension words of their own.
LEMMA ImmWordKept ==
  ASSUME NEW f, NEW s, NEW slot, slot = f.operands[s], slot.kind = "ImmWord", NEW word \in Word16,
         NEW c, NEW q, NEW at, NEW addr, NEW size, NEW op, op = OperandAt(f, word, c, q, at, addr, s),
         NEW n, n = ExtensionLen(slot, word, size), NEW suffix, NEW list, NEW from, NEW said
  PROVE  Kept(slot, size, op, suffix, list, addr, from, InField(word, SlotField(slot)), WordsAt(c, q, n), said)
<1>1. word \in Nat
  BY WordIsInt
<1>2. n = 2
  BY OtherExtensionLen
<1>3. PICK w : w = be16(c, q)
  OBVIOUS
<1>4. WordsAt(c, q, n) = <<w>>
  BY <1>2, <1>3 DEF WordsAt
<1>5. op = Immediate(0, w)
  BY <1>3, ImmWordOperand
<1>6. op.syntax = "#imm" /\ op.numbers[2] = w
  BY <1>5, ImmediateShows
<1>7. InField(word, SlotField(slot)) = 0
  BY <1>1, FieldsAre
<1>8. /\ op.syntax \in SyntaxesOf(slot) /\ InRange(slot, size, op)
      /\ OperandBits(slot, op, suffix, addr) = 0
      /\ OperandWords(slot, op, size, suffix, list, addr, from) = <<w>>
  BY <1>6, ImmWordSlot
<1> QED
  BY <1>4, <1>7, <1>8, WordsAtIs, Zenon DEF Kept

\* An immediate of the size of the instruction comes back.
LEMMA ImmSizedKept ==
  ASSUME NEW f, NEW s, NEW slot, slot = f.operands[s], slot.kind = "ImmSized", NEW word \in Word16,
         NEW c, NEW q, NEW at, NEW addr, NEW size, size = m68k_size(f.size, word),
         NEW op, op = OperandAt(f, word, c, q, at, addr, s),
         NEW n, n = ExtensionLen(slot, word, size), NEW suffix, NEW list, NEW from, NEW said,
         said /\ size = "B" => be16(c, q) \in Byte
  PROVE  Kept(slot, size, op, suffix, list, addr, from, InField(word, SlotField(slot)), WordsAt(c, q, n), said)
<1>1. word \in Nat
  BY WordIsInt
<1>2. n = IF size = "L" THEN 4 ELSE 2
  BY OtherExtensionLen
<1>3. op = SizedImmediate(size, c, q)
  BY ImmSizedOperand
<1>4. /\ op.syntax = "#imm" /\ (size # "L" => op.numbers[2] = be16(c, q))
      /\ WordsAt(c, q, n) = IF size = "L" THEN op.numbers ELSE <<op.numbers[2]>>
  <2>1. CASE size = "L"
    <3>1. op = Immediate(be16(c, q), be16(c, q + 2))
      BY <1>3, <2>1, Zenon DEF SizedImmediate
    <3>2. op.syntax = "#imm" /\ op.numbers = <<be16(c, q), be16(c, q + 2)>>
      BY <3>1, ImmediateShows
    <3>3. n = 4
      BY <1>2, <2>1
    <3>4. WordsAt(c, q, n) = <<be16(c, q), be16(c, q + 2)>>
      BY <3>3, Zenon DEF WordsAt
    <3> QED
      BY <2>1, <3>2, <3>4
  <2>2. CASE size # "L"
    <3>1. op = Immediate(0, be16(c, q))
      BY <1>3, <2>2, Zenon DEF SizedImmediate
    <3>2. op.syntax = "#imm" /\ op.numbers[2] = be16(c, q)
      BY <3>1, ImmediateShows
    <3>3. n = 2
      BY <1>2, <2>2
    <3>4. WordsAt(c, q, n) = <<be16(c, q)>>
      BY <3>3 DEF WordsAt
    <3> QED
      BY <2>2, <3>2, <3>4
  <2> QED
    BY <2>1, <2>2
<1>5. said /\ size = "B" => op.numbers[2] \in Byte
  BY <1>4
<1>6. InField(word, SlotField(slot)) = 0
  BY <1>1, FieldsAre
<1>7. /\ op.syntax \in SyntaxesOf(slot) /\ (said => InRange(slot, size, op))
      /\ OperandBits(slot, op, suffix, addr) = 0
      /\ OperandWords(slot, op, size, suffix, list, addr, from) = IF size = "L" THEN op.numbers ELSE <<op.numbers[2]>>
  BY <1>4, <1>5, ImmSizedSlot
<1> QED
  BY <1>4, <1>6, <1>7, WordsAtIs, Zenon DEF Kept

\* The address of MOVEP comes back.
LEMMA MovepKept ==
  ASSUME NEW f, NEW s, NEW slot, slot = f.operands[s], slot.kind = "MovepDisp", NEW word \in Word16,
         NEW c \in Seq(Byte), NEW q \in Nat, NEW at, NEW addr, NEW size,
         NEW op, op = OperandAt(f, word, c, q, at, addr, s),
         NEW n \in Nat, n = ExtensionLen(slot, word, size), q + n <= Len(c),
         NEW suffix, NEW list, NEW from, NEW said
  PROVE  Kept(slot, size, op, suffix, list, addr, from, InField(word, SlotField(slot)), WordsAt(c, q, n), said)
<1>1. word \in Nat
  BY WordIsInt
<1>2. n = 2
  BY OtherExtensionLen
<1>3. PICK w \in Word16 : w = be16(c, q)
  BY <1>2, TwoWords
<1>4. WordsAt(c, q, n) = <<w>>
  BY <1>2, <1>3 DEF WordsAt
<1>5. PICK r : r = word % 8
  OBVIOUS
<1>6. PICK d : d = AsI16(w) /\ Wrap16(d) = w
  BY WordBack
<1>7. op = Shown("d16(An)", <<r, d>>)
  BY <1>3, <1>5, <1>6, MovepDispOperand
<1>8. InField(word, SlotField(slot)) = r
  BY <1>1, <1>5, FieldsAre
<1>9. /\ op.syntax \in SyntaxesOf(slot) /\ InRange(slot, size, op)
      /\ OperandBits(slot, op, suffix, addr) = r
      /\ OperandWords(slot, op, size, suffix, list, addr, from) = <<Wrap16(d)>>
  BY <1>7, MovepSlot
<1> QED
  BY <1>4, <1>6, <1>8, <1>9, WordsAtIs, Zenon DEF Kept

\* A register list comes back, if there are registers in it.
LEMMA RegListKept ==
  ASSUME NEW f, NEW s, NEW slot, slot = f.operands[s], slot.kind = "RegList", NEW word \in Word16,
         NEW c \in Seq(Byte), NEW q \in Nat, NEW at, NEW addr, NEW size,
         NEW op, op = OperandAt(f, word, c, q, at, addr, s),
         NEW n \in Nat, n = ExtensionLen(slot, word, size), q + n <= Len(c),
         NEW suffix, NEW list, NEW from, NEW said, said => be16(c, q) # 0 /\ list = be16(c, q)
  PROVE  Kept(slot, size, op, suffix, list, addr, from, InField(word, SlotField(slot)), WordsAt(c, q, n), said)
<1>1. word \in Nat
  BY WordIsInt
<1>2. n = 2
  BY OtherExtensionLen
<1>3. PICK w \in Word16 : w = be16(c, q)
  BY <1>2, TwoWords
<1>4. WordsAt(c, q, n) = <<w>>
  BY <1>2, <1>3 DEF WordsAt
<1>5. PICK m : m = ListOrder(f, word, w) /\ (w # 0 => m # 0)
  BY ListOrderIs
<1>6. op = Shown("list", <<m>>)
  BY <1>3, <1>5, RegListOperand
<1>7. InField(word, SlotField(slot)) = 0
  BY <1>1, FieldsAre
<1>8. /\ op.syntax \in SyntaxesOf(slot) /\ (m # 0 => InRange(slot, size, op))
      /\ OperandBits(slot, op, suffix, addr) = 0
      /\ OperandWords(slot, op, size, suffix, list, addr, from) = <<list>>
  BY <1>6, RegListSlot
<1>9. said => m # 0 /\ list = w
  BY <1>3, <1>5
<1>10. SequenceOf(<<list>>, Len(<<w>>))
  <2>1. Len(<<w>>) = 1
    OBVIOUS
  <2> QED
    BY <2>1, OneWord
<1> QED
  BY <1>4, <1>7, <1>8, <1>9, <1>10, Zenon DEF Kept

\* A branch by a word comes back.
LEMMA LongBranchKept ==
  ASSUME NEW f, NEW s, NEW slot, slot = f.operands[s], NEW word \in Word16, NEW suffix,
         slot.kind = "DispW" \/ (slot.kind = "BranchW" /\ word % 256 = 0 /\ suffix = "W"),
         NEW c \in Seq(Byte), NEW q \in Nat, NEW at, NEW addr \in Int, NEW size,
         NEW op, op = OperandAt(f, word, c, q, at, addr, s),
         NEW n \in Nat, n = ExtensionLen(slot, word, size), q + n <= Len(c),
         NEW list, NEW from, NEW said
  PROVE  Kept(slot, size, op, suffix, list, addr, from, InField(word, SlotField(slot)), WordsAt(c, q, n), said)
<1>1. word \in Nat
  BY WordIsInt
<1>2. n = 2
  BY OtherExtensionLen
<1>3. PICK w \in Word16 : w = be16(c, q)
  BY <1>2, TwoWords
<1>4. WordsAt(c, q, n) = <<w>>
  BY <1>2, <1>3 DEF WordsAt
<1>5. PICK d \in Int : d = AsI16(w) /\ Wrap16(d) = w /\ -32768 <= d /\ d <= 32767
  BY WordBack
<1>6. PICK here \in Int : here = addr + 2
  OBVIOUS
<1>7. PICK t : t = WrapAddress(here + d) /\ Distance(t, here) = d
  BY <1>5, TargetBack
<1>8. op = BranchTarget(addr, d)
  BY <1>3, <1>5, BranchWordOperand
<1>9. op = Shown("target", <<t>>)
  BY <1>6, <1>7, <1>8, Zenon DEF BranchTarget
<1>10. InField(word, SlotField(slot)) = 0
  BY <1>1, FieldsAre
<1>11. op.syntax = "target" /\ op.numbers[1] = t
  BY <1>9 DEF Shown
<1>12. addr + 2 = here /\ d = Distance(op.numbers[1], here) /\ Wrap16(d) = w
  BY <1>5, <1>6, <1>7, <1>11
<1>13. SyntaxesOf(slot) = {"target"}
  BY Zenon DEF SyntaxesOf, IsEa
<1>14. InRange(slot, size, op)
  BY <1>11, <1>13, Zenon DEF InRange, IsEa
<1>15. OperandBits(slot, op, suffix, addr) = 0
  BY Zenon DEF OperandBits, IsEa
<1>16. OperandWords(slot, op, size, suffix, list, addr, from) = <<w>>
  BY <1>11, <1>12, Zenon DEF OperandWords, IsEa
<1>17. op.syntax \in SyntaxesOf(slot)
  BY <1>11, <1>13
<1> QED
  BY <1>4, <1>10, <1>14, <1>15, <1>16, <1>17, WordsAtIs, Zenon DEF Kept

\* A branch by a byte comes back.
LEMMA ShortBranchKept ==
  ASSUME NEW f, NEW s, NEW slot, slot = f.operands[s], NEW word \in Word16,
         slot.kind = "BranchW", word % 256 # 0,
         NEW c, NEW q, NEW at, NEW addr \in Int, NEW size,
         NEW op, op = OperandAt(f, word, c, q, at, addr, s),
         NEW n, n = ExtensionLen(slot, word, size), NEW list, NEW from, NEW said
  PROVE  Kept(slot, size, op, "S", list, addr, from, InField(word, SlotField(slot)), WordsAt(c, q, n), said)
<1>1. word \in Nat
  BY WordIsInt
<1>2. n = 0
  BY Zenon DEF ExtensionLen, IsEa
<1>3. WordsAt(c, q, n) = <<>>
  BY <1>2 DEF WordsAt
<1>4. PICK b \in Byte : b = word % 256
  BY <1>1 DEF Byte
<1>5. PICK d \in Int : d = AsI8(b) /\ LoByte(d) = b /\ -32768 <= d /\ d <= 32767
  <2>1. AsI8(b) \in -128..127 /\ LoByte(AsI8(b)) = b
    BY SignedByteRoundTrip
  <2> QED
    BY <2>1
<1>6. PICK here \in Int : here = addr + 2
  OBVIOUS
<1>7. PICK t : t = WrapAddress(here + d) /\ Distance(t, here) = d
  BY <1>5, TargetBack
<1>8. op = BranchTarget(addr, d)
  BY <1>4, <1>5, FieldOperand
<1>9. op = Shown("target", <<t>>)
  BY <1>6, <1>7, <1>8, Zenon DEF BranchTarget
<1>10. InField(word, SlotField(slot)) = b
  BY <1>1, <1>4, FieldsAre
<1>11. op.syntax = "target" /\ op.numbers[1] = t
  BY <1>9 DEF Shown
<1>12. addr + 2 = here /\ d = Distance(op.numbers[1], here) /\ LoByte(d) = b
  BY <1>5, <1>6, <1>7, <1>11
<1>13. SyntaxesOf(slot) = {"target"}
  BY Zenon DEF SyntaxesOf, IsEa
<1>14. InRange(slot, size, op)
  BY <1>11, <1>13, Zenon DEF InRange, IsEa
<1>15. OperandBits(slot, op, "S", addr) = b
  BY <1>11, <1>12, Zenon DEF OperandBits, IsEa
<1>16. OperandWords(slot, op, size, "S", list, addr, from) = <<>>
  BY <1>11, Zenon DEF OperandWords, IsEa
<1>17. op.syntax \in SyntaxesOf(slot)
  BY <1>11, <1>13
<1> QED
  BY <1>3, <1>10, <1>14, <1>15, <1>16, <1>17, WordsAtIs, Zenon DEF Kept

------------------------------------------------------------------------------
(* Every operand comes back                                                *)

\* What the text of an operand leaves unsaid, w being its extension word.
Says(slot, size, operand, w) ==
  /\ operand.syntax \in {"d8(An+Xn)", "d8(PC+Xn)"} => HiByte(w) % 8 = 0
  /\ IsEa(slot) /\ operand.syntax = "#imm" /\ size = "B" => HiByte(w) = 0
  /\ operand.syntax = "list" => w # 0

\* An effective address is shown in its mode.
LEMMA RenderedSyntax ==
  ASSUME NEW mode \in ALL, NEW reg, NEW size, NEW c, NEW q, NEW from
  PROVE  render_ea(mode, reg, size, c, q, from).syntax = mode
<1>1. \A numbers : Shown(mode, numbers).syntax = mode
  BY DEF Shown
<1>2. CASE mode = "#imm"
  <2>1. render_ea(mode, reg, size, c, q, from) = SizedImmediate(size, c, q)
    BY <1>2, Zenon DEF render_ea
  <2>2. SizedImmediate(size, c, q).syntax = "#imm"
    BY ImmediateShows, Zenon DEF SizedImmediate
  <2> QED
    BY <1>2, <2>1, <2>2, Zenon
<1>3. CASE mode # "#imm"
  <2>1. \E numbers : render_ea(mode, reg, size, c, q, from) = Shown(mode, numbers)
    <3>1. CASE mode = "d16(An)"
      BY <3>1, Zenon DEF render_ea
    <3>2. CASE mode = "d8(An+Xn)"
      BY <3>2, Zenon DEF render_ea
    <3>3. CASE mode = "(xxx).W"
      BY <3>3, Zenon DEF render_ea
    <3>4. CASE mode = "(xxx).L"
      BY <3>4, Zenon DEF render_ea
    <3>5. CASE mode = "d16(PC)"
      BY <3>5, Zenon DEF render_ea
    <3>6. CASE mode = "d8(PC+Xn)"
      BY <3>6, Zenon DEF render_ea
    <3>7. CASE mode \in {"(An)", "(An)+", "-(An)", "Dn", "An"}
      BY <3>7, Zenon DEF render_ea
    <3> QED
      BY <1>3, <3>1, <3>2, <3>3, <3>4, <3>5, <3>6, <3>7, SyntaxesAre
  <2> QED
    BY <1>1, <2>1
<1> QED
  BY <1>2, <1>3

\* A word without a high byte is a byte.
LEMMA LowWord ==
  ASSUME NEW w \in Word16, HiByte(w) = 0
  PROVE  w \in Byte
<1>1. PICK n \in Int : n = w /\ 0 <= n /\ n < 65536
  BY WordIsInt, SMTT(60) DEF Word16
<1>2. PICK h \in Int, l \in Int :
        h = n \div 256 /\ l = n % 256 /\ n = 256 * h + l /\ 0 <= h /\ h < 256 /\ 0 <= l /\ l < 256
  BY <1>1, Digits256
<1>3. h % 256 = h
  BY <1>2, SmallMod256
<1>4. h = 0
  <2>1. n = w /\ h = n \div 256
    BY <1>1, <1>2
  <2>2. HiByte(n) = h
    BY <1>3, <2>1, Zenon DEF HiByte
  <2> QED
    BY <2>1, <2>2
<1>5. n = l
  BY <1>2, <1>4
<1>6. n \in Byte
  BY <1>2, <1>5 DEF Byte
<1> QED
  BY <1>1, <1>6

\* A sized immediate is read right behind the opcode word.
LEMMA ImmSizedAt ==
  ASSUME NEW f \in SET, NEW word, NEW s \in DOMAIN f.operands, f.operands[s].kind = "ImmSized"
  PROVE  s = 1 /\ ExtensionAt(f, word, s) = 2
<1>1. s = 1
  BY SlotsKeepTheirPlaces
<1>2. PICK n \in 0..2 : DOMAIN f.operands = 1..n /\ Len(f.operands) = n
  BY FormShape
<1>3. n = 2 => f.operands[2].kind # "RegList"
  BY <1>1, <1>2, SlotsKeepTheirPlaces
<1>4. 1 \notin ReadBefore(f, 1) /\ 2 \notin ReadBefore(f, 1)
  BY <1>2, <1>3 DEF ReadBefore
<1>5. ExtensionAt(f, word, 1) = 2 + 0 + 0
  BY <1>4, Zenon DEF ExtensionAt
<1> QED
  BY <1>1, <1>5

\* The suffix of a branch tells how long its displacement is.
LEMMA BranchSuffix ==
  ASSUME NEW f \in SET, NEW word, NEW s \in DOMAIN f.operands, f.operands[s].kind = "BranchW"
  PROVE  Suffix(f, word) = IF word % 256 = 0 THEN "W" ELSE "S"
<1>1. Len(f.operands) = 1 /\ f.mnemonic \notin BitOperations
  BY SlotsKeepTheirPlaces
<1>2. PICK n \in 0..2 : DOMAIN f.operands = 1..n /\ Len(f.operands) = n
  BY FormShape
<1>3. s = 1
  BY <1>1, <1>2
<1>4. f.operands # <<>> /\ f.operands[1].kind = "BranchW"
  BY <1>1, <1>3
<1> QED
  BY <1>1, <1>4, Zenon DEF Suffix

HasSize(f, word, size) == size = m68k_size(f.size, word)

\* Where slot s of form f is read: n bytes at offset q.
Place(f, word, p, s, n, q) ==
  /\ n \in Nat /\ n = SlotLen(f, word, s)
  /\ q \in Nat /\ q = p + ExtensionAt(f, word, s)

\* Every operand comes back, read from its own offset.
LEMMA OperandAtKept ==
  ASSUME NEW c \in Seq(Byte), NEW addr \in Int, NEW word \in Word16, NEW f \in SET, EaAllowed(f, word),
         NEW s \in DOMAIN f.operands, NEW slot, slot = f.operands[s], NEW size, HasSize(f, word, size),
         NEW q \in Nat, NEW n \in Nat, n = ExtensionLen(slot, word, size), q + n <= Len(c),
         NEW from \in Int, NEW here \in Int, NEW said, said => (IsEa(slot) => here = WrapAddress(from)),
         NEW op, op = OperandAt(f, word, c, q, here, addr, s),
         NEW suffix, suffix = Suffix(f, word), NEW w, w = be16(c, q),
         slot.kind = "ImmSized" /\ size = "B" => HiByte(w) = 0,
         NEW list, said => Says(slot, size, op, w),
         said /\ slot.kind = "RegList" => list = w
  PROVE  Kept(slot, size, op, suffix, list, addr, from,
              InField(word, SlotField(slot)), WordsAt(c, q, n), said)
<1>1. word \in Nat
  BY WordIsInt
<1>2. slot \in OperandSlot
  BY SlotTyped
<1>3. size = m68k_size(f.size, word)
  BY DEF HasSize
<1>6. CASE IsEa(slot)
  <2>1. PICK mode \in ALL : mode = ModeOf(slot, word) /\ mode \in slot.modes
    BY <1>6, ModeAllowed
  <2>2. ~(mode = "An" /\ size = "B")
    BY <1>3, <1>6, <2>1, Zenon DEF EaAllowed
  <2>3. PICK reg : reg = ModeAndRegister(slot, word)[2] /\ op = render_ea(mode, reg, size, c, q, here)
    BY <1>3, <1>6, <2>1, EaOperand
  <2>4. op.syntax = mode
    BY <2>3, RenderedSyntax
  <2>5. said => (mode \in {"d8(An+Xn)", "d8(PC+Xn)"} => HiByte(w) % 8 = 0)
    BY <2>4, Zenon DEF Says
  <2>6. said => (mode = "#imm" /\ size = "B" => w \in Byte)
    <3>1. SUFFICES ASSUME said, mode = "#imm", size = "B" PROVE w \in Byte
      OBVIOUS
    <3>2. n = 2
      BY <1>6, <2>1, <3>1, EaExtensionLen
    <3>3. w \in Word16
      BY <3>2, TwoWords
    <3>4. HiByte(w) = 0
      BY <1>6, <2>4, <3>1, Zenon DEF Says
    <3> QED
      BY <3>3, <3>4, LowWord
  <2>7. EaMode(slot, word, mode, size)
    BY <1>2, <1>6, <2>1, <2>2, Zenon DEF EaMode
  <2>8. said => here = WrapAddress(from)
    BY <1>6
  <2>9. said => EaSays(mode, size, w, here, from)
    BY <2>5, <2>6, <2>8, Zenon DEF EaSays
  <2> QED
    BY <1>1, <2>3, <2>7, <2>9, EaKept
<1>7. CASE slot.kind \in {"Dn", "An", "-(An)", "(An)+", "Quick3", "Quick8", "Vec4", "Ccr", "Sr", "Usp"}
  BY <1>2, <1>7, FieldKept
<1>8. CASE slot.kind = "ImmWord"
  BY <1>8, ImmWordKept
<1>9. CASE slot.kind = "ImmSized"
  <2>1. said /\ size = "B" => w \in Byte
    <3>1. SUFFICES ASSUME size = "B" PROVE w \in Byte
      OBVIOUS
    <3>2. n = 2
      BY <1>9, <3>1, OtherExtensionLen
    <3>3. w \in Word16
      BY <3>2, TwoWords
    <3> QED
      BY <1>9, <3>1, <3>3, LowWord
  <2> QED
    BY <1>3, <1>9, <2>1, ImmSizedKept
<1>10. CASE slot.kind = "MovepDisp"
  BY <1>10, MovepKept
<1>11. CASE slot.kind = "RegList"
  <2>1. op.syntax = "list"
    <3>1. op = Shown("list", <<ListOrder(f, word, w)>>)
      BY <1>11, RegListOperand
    <3> QED
      BY <3>1 DEF Shown
  <2>2. said => w # 0 /\ list = w
    BY <1>11, <2>1, Zenon DEF Says
  <2> QED
    BY <1>11, <2>2, RegListKept
<1>12. CASE slot.kind = "DispW"
  BY <1>12, LongBranchKept
<1>13. CASE slot.kind = "BranchW" /\ word % 256 = 0
  <2>1. suffix = "W"
    BY <1>13, BranchSuffix
  <2> QED
    BY <1>13, <2>1, LongBranchKept
<1>14. CASE slot.kind = "BranchW" /\ word % 256 # 0
  <2>1. suffix = "S"
    BY <1>14, BranchSuffix
  <2>2. Kept(slot, size, op, "S", list, addr, from, InField(word, SlotField(slot)), WordsAt(c, q, n), said)
    BY <1>14, ShortBranchKept
  <2> QED
    BY <2>1, <2>2
<1>15. slot.kind \in {"Ea", "Dest", "Dn", "An", "-(An)", "(An)+", "Quick3", "Quick8", "Vec4", "ImmWord",
                     "ImmSized", "MovepDisp", "RegList", "DispW", "BranchW", "Ccr", "Sr", "Usp"}
  BY <1>2 DEF OperandSlot
<1> QED
  BY <1>6, <1>7, <1>8, <1>9, <1>10, <1>11, <1>12, <1>13, <1>14, <1>15, Zenon DEF IsEa

\* Every operand comes back, read where its slot's words are.
LEMMA OperandKept ==
  ASSUME NEW c \in Seq(Byte), NEW p \in Nat, NEW addr \in Int, NEW word \in Word16,
         NEW f \in SET, EaAllowed(f, word), ImmediateAllowed(f, word, c, p),
         NEW s \in DOMAIN f.operands, NEW slot, slot = f.operands[s],
         NEW size, HasSize(f, word, size),
         NEW n, NEW q, Place(f, word, p, s, n, q), q + n <= Len(c),
         NEW from \in Int, NEW said,
         said => (IsEa(slot) => from = addr + ExtensionAt(f, word, s)),
         NEW op, op = Operand(f, word, c, p, addr, s),
         NEW suffix, suffix = Suffix(f, word), NEW w, w = be16(c, q),
         NEW list, said => Says(slot, size, op, w),
         said /\ slot.kind = "RegList" => list = w
  PROVE  Kept(slot, size, op, suffix, list, addr, from,
              InField(word, SlotField(slot)), WordsAt(c, q, n), said)
<1>1. q \in Nat /\ n \in Nat
  BY DEF Place
<1>2. n = ExtensionLen(slot, word, size)
  BY Zenon DEF SlotLen, Place, HasSize
<1>3. PICK at : at = ExtensionAt(f, word, s)
  OBVIOUS
<1>30. at \in Int /\ addr + at \in Int
  <2>1. s \in {1, 2}
    BY FormShape
  <2>2. at \in Nat
    BY <1>3, <2>1, SlotPlace
  <2> QED
    BY <2>2
<1>31. PICK here \in Int : here = WrapAddress(addr + at)
  BY <1>30, AddressIsInt
<1>32. op = OperandAt(f, word, c, q, here, addr, s)
  BY <1>3, <1>31, Zenon DEF Operand, ExtensionAddress, Place
<1>33. said => (IsEa(slot) => here = WrapAddress(from))
  BY <1>3, <1>31, Zenon
<1>4. slot.kind = "ImmSized" /\ size = "B" => HiByte(w) = 0
  <2>1. SUFFICES ASSUME slot.kind = "ImmSized", size = "B" PROVE HiByte(w) = 0
    OBVIOUS
  <2>2. s = 1 /\ q = p + 2
    BY <2>1, ImmSizedAt DEF Place
  <2>3. f.operands # <<>> /\ f.operands[1].kind = "ImmSized"
    BY <2>1, <2>2
  <2>4. c[p + 3] = 0
    BY <2>1, <2>3, Zenon DEF ImmediateAllowed, HasSize
  <2>5. n = 2
    BY <1>2, <2>1, OtherExtensionLen
  <2>6. HiByte(w) = c[q + 1]
    BY <1>1, <2>5, WordRead
  <2>7. q + 1 = p + 3
    BY <2>2
  <2> QED
    BY <2>4, <2>6, <2>7
<1> QED
  BY <1>1, <1>2, <1>32, <1>33, <1>4, OperandAtKept

------------------------------------------------------------------------------
(* Sizes are told apart, and so are forms                                  *)

\* There is nothing in a field of no bits.
LEMMA NoFieldEmpty ==
  ASSUME NEW word \in Nat
  PROVE  InField(word, NoField) = 0
<1>1. PICK x \in Nat : x = word \div Bit(0)
  BY BitsAre
<1>2. x % 1 = 0
  BY <1>1
<1>3. Field(word, 0, 0) = 0
  BY <1>1, <1>2, BitsAre DEF Field
<1> QED
  BY <1>3, BitsAre DEF InField, NoField

\* What the bits of a size field say.
LEMMA SizeBitsKept ==
  ASSUME NEW size \in {"B", "W", "L", "Std6", "Move", "WL8", "WL6"}, NEW word \in Nat,
         m68k_size(size, word) # "none"
  PROVE  /\ m68k_size(size, word) \in SizesOf(size)
         /\ size_bits(size, m68k_size(size, word)) = InField(word, SizeField(size))
         /\ InField(word, SizeField(size)) \in Int
<1>1. CASE size = "Std6"
  <2>1. SizeField(size) = <<6, 2>>
    BY <1>1 DEF SizeField
  <2>2. PICK x \in 0..3 : x = Field(word, 6, 2)
    BY FieldIs
  <2>3. InField(word, SizeField(size)) = 64 * x
    BY <2>1, <2>2, BitsAre DEF InField
  <2>4. m68k_size(size, word) = <<"B", "W", "L", "none">>[x + 1]
    BY <1>1, <2>2, Zenon DEF m68k_size
  <2>5. x # 3
    BY <2>4
  <2>6. m68k_size(size, word) \in {"B", "W", "L"}
        /\ SizeBits["Std6"][m68k_size(size, word)] = 64 * x
    BY <2>4, <2>5 DEF SizeBits
  <2>7. "Std6" \in DOMAIN SizeBits /\ DOMAIN SizeBits["Std6"] = {"B", "W", "L"}
    BY DEF SizeBits
  <2> QED
    BY <1>1, <2>3, <2>6, <2>7 DEF size_bits, SizesOf
<1>2. CASE size = "Move"
  <2>1. SizeField(size) = <<12, 2>>
    BY <1>2 DEF SizeField
  <2>2. PICK x \in 0..3 : x = Field(word, 12, 2)
    BY FieldIs
  <2>3. InField(word, SizeField(size)) = 4096 * x
    BY <2>1, <2>2, BitsAre DEF InField
  <2>4. m68k_size(size, word) = <<"none", "B", "L", "W">>[x + 1]
    BY <1>2, <2>2, Zenon DEF m68k_size
  <2>5. x # 0
    BY <2>4
  <2>6. m68k_size(size, word) \in {"B", "W", "L"}
        /\ SizeBits["Move"][m68k_size(size, word)] = 4096 * x
    BY <2>4, <2>5 DEF SizeBits
  <2>7. "Move" \in DOMAIN SizeBits /\ DOMAIN SizeBits["Move"] = {"B", "W", "L"}
    BY DEF SizeBits
  <2> QED
    BY <1>2, <2>3, <2>6, <2>7 DEF size_bits, SizesOf
<1>3. CASE size = "WL8"
  <2>1. SizeField(size) = <<8, 1>>
    BY <1>3 DEF SizeField
  <2>2. PICK x \in 0..1 : x = Field(word, 8, 1)
    BY FieldIs
  <2>3. InField(word, SizeField(size)) = 256 * x
    BY <2>1, <2>2, BitsAre DEF InField
  <2>4. m68k_size(size, word) = <<"W", "L">>[x + 1]
    BY <1>3, <2>2, Zenon DEF m68k_size
  <2>6. m68k_size(size, word) \in {"W", "L"}
        /\ SizeBits["WL8"][m68k_size(size, word)] = 256 * x
    BY <2>4 DEF SizeBits
  <2>7. "WL8" \in DOMAIN SizeBits /\ DOMAIN SizeBits["WL8"] = {"W", "L"}
    BY DEF SizeBits
  <2> QED
    BY <1>3, <2>3, <2>6, <2>7 DEF size_bits, SizesOf
<1>4. CASE size = "WL6"
  <2>1. SizeField(size) = <<6, 1>>
    BY <1>4 DEF SizeField
  <2>2. PICK x \in 0..1 : x = Field(word, 6, 1)
    BY FieldIs
  <2>3. InField(word, SizeField(size)) = 64 * x
    BY <2>1, <2>2, BitsAre DEF InField
  <2>4. m68k_size(size, word) = <<"W", "L">>[x + 1]
    BY <1>4, <2>2, Zenon DEF m68k_size
  <2>6. m68k_size(size, word) \in {"W", "L"}
        /\ SizeBits["WL6"][m68k_size(size, word)] = 64 * x
    BY <2>4 DEF SizeBits
  <2>7. "WL6" \in DOMAIN SizeBits /\ DOMAIN SizeBits["WL6"] = {"W", "L"}
    BY DEF SizeBits
  <2> QED
    BY <1>4, <2>3, <2>6, <2>7 DEF size_bits, SizesOf
<1>5. CASE size \in {"B", "W", "L"}
  <2>1. SizeField(size) = NoField
    BY <1>5 DEF SizeField
  <2>2. InField(word, NoField) = 0
    BY NoFieldEmpty
  <2>3. m68k_size(size, word) = size
    BY <1>5, Zenon DEF m68k_size
  <2>4. size \notin DOMAIN SizeBits
    BY <1>5 DEF SizeBits
  <2> QED
    BY <2>1, <2>2, <2>3, <2>4 DEF size_bits, SizesOf
<1> QED
  BY <1>1, <1>2, <1>3, <1>4, <1>5

\* Of the sizes a form has, the text names the one that was read.
LEMMA OnlySize ==
  ASSUME NEW f \in SET, NEW word \in Nat, m68k_size(f.size, word) # "none",
         NEW z \in SizesOf(f.size), NEW text, text.suffix = Suffix(f, word), Takes(f, z, text)
  PROVE  z = m68k_size(f.size, word)
<1>1. CASE f.size \in {"B", "W", "L"}
  <2>1. m68k_size(f.size, word) = f.size
    BY <1>1, Zenon DEF m68k_size
  <2>2. f.size \notin DOMAIN SizeBits
    BY <1>1 DEF SizeBits
  <2> QED
    BY <2>1, <2>2 DEF SizesOf
<1>2. CASE f.size \notin {"B", "W", "L"}
  <2>1. f.mnemonic \notin BitOperations
    BY <1>2, SlotsKeepTheirPlaces
  <2>2. ~(f.operands # <<>> /\ f.operands[1].kind = "BranchW")
    <3>1. SUFFICES ASSUME f.operands # <<>>, f.operands[1].kind = "BranchW" PROVE FALSE
      OBVIOUS
    <3>2. 1 \in DOMAIN f.operands
      BY <3>1, FormShape
    <3> QED
      BY <1>2, <3>1, <3>2, SlotsKeepTheirPlaces
  <2>3. f.size # "W"
    BY <1>2
  <2>4. Suffix(f, word) = m68k_size(f.size, word)
    BY <2>1, <2>2, <2>3, Zenon DEF Suffix
  <2>5. text.suffix = z
    BY <2>1, <2>2, <2>3, Zenon DEF Takes
  <2> QED
    BY <2>4, <2>5
<1> QED
  BY <1>1, <1>2

\* A text is of the name and the operands of one form only.
LEMMA OnlyForm ==
  ASSUME NEW f \in SET, NEW g \in SET, f.mnemonic = g.mnemonic,
         NEW operands, Len(f.operands) = Len(operands), Len(g.operands) = Len(operands),
         \A s \in DOMAIN f.operands : operands[s].syntax \in SyntaxesOf(f.operands[s]),
         \A s \in DOMAIN g.operands : operands[s].syntax \in SyntaxesOf(g.operands[s])
  PROVE  g = f
<1> SUFFICES ASSUME f # g PROVE FALSE
  OBVIOUS
<1>1. PICK s \in DOMAIN f.operands : SyntaxesOf(f.operands[s]) \cap SyntaxesOf(g.operands[s]) = {}
  BY SlotsTellForms
<1>2. s \in DOMAIN g.operands
  BY FormShape
<1>3. operands[s].syntax \in SyntaxesOf(f.operands[s]) /\ operands[s].syntax \in SyntaxesOf(g.operands[s])
  BY <1>1, <1>2
<1> QED
  BY <1>1, <1>3

------------------------------------------------------------------------------
(* The order words are laid down in                                        *)

\* Putting sequences together.
LEMMA JoinedSequences ==
  ASSUME NEW x, NEW m, SequenceOf(x, m), NEW y, NEW n, SequenceOf(y, n)
  PROVE  SequenceOf(x \o y, m + n) /\ m \in Nat /\ n \in Nat
<1>1. PICK S : x \in Seq(S) /\ Len(x) = m
  BY DEF SequenceOf
<1>2. PICK T : y \in Seq(T) /\ Len(y) = n
  BY DEF SequenceOf
<1>3. PICK U : U = S \cup T
  OBVIOUS
<1>4. S \subseteq U /\ T \subseteq U
  BY <1>3
<1>5. x \in Seq(U)
  BY <1>1, <1>4, SeqMonotonic
<1>6. y \in Seq(U)
  BY <1>2, <1>4, SeqMonotonic
<1>7. x \o y \in Seq(U) /\ Len(x \o y) = Len(x) + Len(y)
  BY <1>5, <1>6, ConcatProperties
<1>8. m \in Nat /\ n \in Nat
  BY <1>1, <1>2, LenProperties
<1> QED
  BY <1>1, <1>2, <1>7, <1>8 DEF SequenceOf

\* Sequences may be joined in any order.
LEMMA JoinedTwice ==
  ASSUME NEW x, NEW m, SequenceOf(x, m), NEW y, NEW n, SequenceOf(y, n), NEW z, NEW k, SequenceOf(z, k)
  PROVE  (x \o y) \o z = x \o (y \o z)
<1>1. PICK S : x \in Seq(S)
  BY DEF SequenceOf
<1>2. PICK T : y \in Seq(T)
  BY DEF SequenceOf
<1>3. PICK R : z \in Seq(R)
  BY DEF SequenceOf
<1>4. PICK U : S \subseteq U /\ T \subseteq U /\ R \subseteq U
  <2>1. PICK V : V = S \cup T \cup R
    OBVIOUS
  <2>2. S \subseteq V /\ T \subseteq V /\ R \subseteq V
    BY <2>1
  <2> QED
    BY <2>2
<1>5. x \in Seq(U)
  BY <1>1, <1>4, SeqMonotonic
<1>6. y \in Seq(U)
  BY <1>2, <1>4, SeqMonotonic
<1>7. z \in Seq(U)
  BY <1>3, <1>4, SeqMonotonic
<1> QED
  BY <1>5, <1>6, <1>7, ConcatAssociative

\* Joining nothing changes nothing.
LEMMA NothingJoined ==
  ASSUME NEW x, NEW m, SequenceOf(x, m)
  PROVE  x \o <<>> = x /\ <<>> \o x = x
BY ConcatEmptySeq DEF SequenceOf

\* The words of a slot, if the form has it.
PartOf(f, words, s) == IF s \in DOMAIN f.operands THEN words[s] ELSE <<>>

\* Whether the second slot is laid down before the first.
Swapped(f) == 2 \in DOMAIN f.operands /\ IsEa(f.operands[1]) /\ ~IsEa(f.operands[2])

InLaidOrder(f, x, a, b) == IF Swapped(f) THEN x \o (b \o a) ELSE x \o (a \o b)

\* Words are laid down slot by slot, those of an effective address last.
LEMMA LaidParts ==
  ASSUME NEW f \in SET, NEW word, NEW words, NEW a, a = PartOf(f, words, 1), NEW k, SequenceOf(a, k),
         NEW b, b = PartOf(f, words, 2), NEW l, SequenceOf(b, l)
  PROVE  Laid(f, word, words) = WordBytes(InLaidOrder(f, <<word>>, a, b))
<1>1. PICK x : x = <<word>> /\ SequenceOf(x, 1)
  BY OneWord
<1>2. x \o <<>> = x
  BY <1>1, NothingJoined
<1>3. /\ a \o <<>> = a /\ b \o <<>> = b /\ <<>> \o a = a
  BY NothingJoined
<1>4. (x \o a) \o <<>> = x \o a
  <2>1. SequenceOf(x \o a, 1 + k)
    BY <1>1, JoinedSequences
  <2> QED
    BY <2>1, NothingJoined
<1>5. (x \o a) \o b = x \o (a \o b) /\ (x \o b) \o a = x \o (b \o a)
  BY <1>1, JoinedTwice
<1>6. (x \o b) \o <<>> = x \o b
  <2>1. SequenceOf(x \o b, 1 + l)
    BY <1>1, JoinedSequences
  <2> QED
    BY <2>1, NothingJoined
<1>7. (x \o (a \o b)) \o <<>> = x \o (a \o b) /\ (x \o (b \o a)) \o <<>> = x \o (b \o a)
  <2>1. PICK u, m : u = a \o b /\ SequenceOf(u, m)
    BY JoinedSequences
  <2>2. SequenceOf(x \o u, 1 + m)
    BY <1>1, <2>1, JoinedSequences
  <2>3. (x \o u) \o <<>> = x \o u
    BY <2>2, NothingJoined
  <2>4. PICK v, n : v = b \o a /\ SequenceOf(v, n)
    BY JoinedSequences
  <2>5. SequenceOf(x \o v, 1 + n)
    BY <1>1, <2>4, JoinedSequences
  <2>6. (x \o v) \o <<>> = x \o v
    BY <2>5, NothingJoined
  <2> QED
    BY <2>1, <2>3, <2>4, <2>6
<1>8. PICK n \in 0..2 : DOMAIN f.operands = 1..n
  BY FormShape
<1> DEFINE Part(ea, s) == IF s \in DOMAIN f.operands /\ IsEa(f.operands[s]) = ea THEN words[s] ELSE <<>>
<1>9. Laid(f, word, words) = WordBytes(x \o Part(FALSE, 1) \o Part(FALSE, 2) \o Part(TRUE, 1) \o Part(TRUE, 2))
  BY <1>1, Zenon DEF Laid
<1>10. PICK p1 : p1 = Part(FALSE, 1)
  OBVIOUS
<1>11. PICK p2 : p2 = Part(FALSE, 2)
  OBVIOUS
<1>12. PICK p3 : p3 = Part(TRUE, 1)
  OBVIOUS
<1>13. PICK p4 : p4 = Part(TRUE, 2)
  OBVIOUS
<1>14. Laid(f, word, words) = WordBytes(x \o p1 \o p2 \o p3 \o p4)
  BY <1>9, <1>10, <1>11, <1>12, <1>13, Zenon
<1>15. IsEa(f.operands[1]) \in BOOLEAN /\ IsEa(f.operands[2]) \in BOOLEAN
  BY DEF IsEa
<1>16. x \o p1 \o p2 \o p3 \o p4 = InLaidOrder(f, x, a, b)
  <2>1. CASE 1 \notin DOMAIN f.operands
    <3>1. 2 \notin DOMAIN f.operands
      BY <1>8, <2>1
    <3>2. p1 = <<>> /\ p2 = <<>> /\ p3 = <<>> /\ p4 = <<>> /\ a = <<>> /\ b = <<>> /\ ~Swapped(f)
      BY <1>10, <1>11, <1>12, <1>13, <2>1, <3>1, Zenon DEF PartOf, Swapped
    <3> QED
      BY <1>2, <1>3, <3>2, Zenon DEF InLaidOrder
  <2>2. CASE 1 \in DOMAIN f.operands /\ 2 \notin DOMAIN f.operands /\ IsEa(f.operands[1])
    <3>2. p1 = <<>> /\ p2 = <<>> /\ p3 = a /\ p4 = <<>> /\ b = <<>> /\ ~Swapped(f)
      BY <1>10, <1>11, <1>12, <1>13, <1>15, <2>2, Zenon DEF PartOf, Swapped
    <3> QED
      BY <1>2, <1>3, <1>4, <3>2, Zenon DEF InLaidOrder
  <2>3. CASE 1 \in DOMAIN f.operands /\ 2 \notin DOMAIN f.operands /\ ~IsEa(f.operands[1])
    <3>2. p1 = a /\ p2 = <<>> /\ p3 = <<>> /\ p4 = <<>> /\ b = <<>> /\ ~Swapped(f)
      BY <1>10, <1>11, <1>12, <1>13, <1>15, <2>3, Zenon DEF PartOf, Swapped
    <3> QED
      BY <1>2, <1>3, <1>4, <3>2, Zenon DEF InLaidOrder
  <2>4. CASE 1 \in DOMAIN f.operands /\ 2 \in DOMAIN f.operands /\ IsEa(f.operands[1]) /\ IsEa(f.operands[2])
    <3>2. p1 = <<>> /\ p2 = <<>> /\ p3 = a /\ p4 = b /\ ~Swapped(f)
      BY <1>10, <1>11, <1>12, <1>13, <1>15, <2>4, Zenon DEF PartOf, Swapped
    <3> QED
      BY <1>2, <1>5, <3>2, Zenon DEF InLaidOrder
  <2>5. CASE 1 \in DOMAIN f.operands /\ 2 \in DOMAIN f.operands /\ ~IsEa(f.operands[1]) /\ ~IsEa(f.operands[2])
    <3>2. p1 = a /\ p2 = b /\ p3 = <<>> /\ p4 = <<>> /\ ~Swapped(f)
      BY <1>10, <1>11, <1>12, <1>13, <1>15, <2>5, Zenon DEF PartOf, Swapped
    <3> QED
      BY <1>5, <1>7, <3>2, Zenon DEF InLaidOrder
  <2>6. CASE 1 \in DOMAIN f.operands /\ 2 \in DOMAIN f.operands /\ ~IsEa(f.operands[1]) /\ IsEa(f.operands[2])
    <3>2. p1 = a /\ p2 = <<>> /\ p3 = <<>> /\ p4 = b /\ ~Swapped(f)
      BY <1>10, <1>11, <1>12, <1>13, <1>15, <2>6, Zenon DEF PartOf, Swapped
    <3> QED
      BY <1>4, <1>5, <3>2, Zenon DEF InLaidOrder
  <2>7. CASE 1 \in DOMAIN f.operands /\ 2 \in DOMAIN f.operands /\ IsEa(f.operands[1]) /\ ~IsEa(f.operands[2])
    <3>2. p1 = <<>> /\ p2 = b /\ p3 = a /\ p4 = <<>> /\ Swapped(f)
      BY <1>10, <1>11, <1>12, <1>13, <1>15, <2>7, Zenon DEF PartOf, Swapped
    <3> QED
      BY <1>2, <1>5, <1>7, <3>2, Zenon DEF InLaidOrder
  <2> QED
    BY <2>1, <2>2, <2>3, <2>4, <2>5, <2>6, <2>7
<1> QED
  BY <1>1, <1>14, <1>16

------------------------------------------------------------------------------
(* The order words are read in, which is the same                          *)

\* A slot with nothing behind the opcode word, or none at all.
LEMMA NoWordsRead ==
  ASSUME NEW f, NEW word, NEW s, s \in DOMAIN f.operands => f.operands[s].kind \in NoWords
  PROVE  SlotLen(f, word, s) = 0
<1>1. CASE s \in DOMAIN f.operands
  <2>1. PICK slot : slot = f.operands[s]
    OBVIOUS
  <2>2. slot.kind \in {"Dn", "An", "-(An)", "(An)+", "Quick3", "Quick8", "Vec4", "Ccr", "Sr", "Usp"}
    BY <1>1, <2>1 DEF NoWords
  <2>3. ExtensionLen(slot, word, m68k_size(f.size, word)) = 0
    BY <2>2, Zenon DEF ExtensionLen, IsEa
  <2> QED
    BY <1>1, <2>1, <2>3, Zenon DEF SlotLen
<1>2. CASE s \notin DOMAIN f.operands
  BY <1>2, Zenon DEF SlotLen
<1> QED
  BY <1>1, <1>2

\* Where a slot is read, by the slots read before it.
LEMMA ExtensionAtIs ==
  ASSUME NEW f, NEW word, NEW s, NEW m, m = SlotLen(f, word, 1), NEW n, n = SlotLen(f, word, 2)
  PROVE  /\ m \in {0, 2, 4} /\ n \in {0, 2, 4}
         /\ 1 \notin ReadBefore(f, s) /\ 2 \notin ReadBefore(f, s) => ExtensionAt(f, word, s) = 2
         /\ 1 \in ReadBefore(f, s) /\ 2 \notin ReadBefore(f, s) => ExtensionAt(f, word, s) = 2 + m
         /\ 1 \notin ReadBefore(f, s) /\ 2 \in ReadBefore(f, s) => ExtensionAt(f, word, s) = 2 + n
<1>1. m \in {0, 2, 4} /\ n \in {0, 2, 4}
  BY SlotLenIs
<1>2. ExtensionAt(f, word, s)
        = 2 + (IF 1 \in ReadBefore(f, s) THEN m ELSE 0) + (IF 2 \in ReadBefore(f, s) THEN n ELSE 0)
  BY Zenon DEF ExtensionAt
<1> QED
  BY <1>1, <1>2

\* Reading and laying down go through the words in the same order.
LEMMA ReadingOrder ==
  ASSUME NEW f \in SET, NEW word, NEW m, m = SlotLen(f, word, 1), NEW n, n = SlotLen(f, word, 2)
  PROVE  /\ Swapped(f) => ExtensionAt(f, word, 1) = 2 + n /\ (n = 0 \/ ExtensionAt(f, word, 2) = 2)
         /\ ~Swapped(f) => (m = 0 \/ ExtensionAt(f, word, 1) = 2) /\ (n = 0 \/ ExtensionAt(f, word, 2) = 2 + m)
<1>1. PICK k \in 0..2 : DOMAIN f.operands = 1..k /\ Len(f.operands) = k
  BY FormShape
<1>2. m \in {0, 2, 4} /\ n \in {0, 2, 4}
  BY ExtensionAtIs
<1>3. CASE Swapped(f)
  <2>1. k = 2 /\ IsEa(f.operands[1]) /\ ~IsEa(f.operands[2])
    BY <1>1, <1>3 DEF Swapped
  <2>2. f.operands[2].kind \in NoWords \cup {"RegList"}
    BY <1>1, <2>1, SlotsKeepTheirPlaces
  <2>3. f.operands[1].kind # "RegList"
    BY <2>1 DEF IsEa
  <2>4. CASE f.operands[2].kind = "RegList"
    <3>1. 1 \notin ReadBefore(f, 1) /\ 2 \in ReadBefore(f, 1)
      BY <1>1, <2>1, <2>3, <2>4 DEF ReadBefore
    <3>2. 1 \notin ReadBefore(f, 2) /\ 2 \notin ReadBefore(f, 2)
      BY <1>1, <2>1, <2>3, <2>4 DEF ReadBefore
    <3> QED
      BY <1>3, <3>1, <3>2, ExtensionAtIs
  <2>5. CASE f.operands[2].kind \in NoWords
    <3>1. f.operands[2].kind # "RegList"
      BY <2>5 DEF NoWords
    <3>2. n = 0
      BY <2>5, NoWordsRead
    <3>3. 1 \notin ReadBefore(f, 1) /\ 2 \notin ReadBefore(f, 1)
      BY <1>1, <2>1, <2>3, <3>1 DEF ReadBefore
    <3>4. ExtensionAt(f, word, 1) = 2
      BY <3>3, ExtensionAtIs
    <3> QED
      BY <1>3, <3>2, <3>4
  <2> QED
    BY <2>2, <2>4, <2>5
<1>4. CASE ~Swapped(f) /\ k = 2
  <2>1. f.operands[2].kind # "RegList"
    <3>1. SUFFICES ASSUME f.operands[2].kind = "RegList" PROVE FALSE
      OBVIOUS
    <3>2. IsEa(f.operands[1])
      BY <1>1, <1>4, <3>1, SlotsKeepTheirPlaces
    <3>3. ~IsEa(f.operands[2])
      BY <3>1 DEF IsEa
    <3> QED
      BY <1>1, <1>4, <3>2, <3>3 DEF Swapped
  <2>2. 1 \notin ReadBefore(f, 1) /\ 2 \notin ReadBefore(f, 1)
    BY <1>1, <1>4, <2>1 DEF ReadBefore
  <2>3. 1 \in ReadBefore(f, 2) /\ 2 \notin ReadBefore(f, 2)
    BY <1>1, <1>4, <2>1 DEF ReadBefore
  <2> QED
    BY <1>4, <2>2, <2>3, ExtensionAtIs
<1>5. CASE ~Swapped(f) /\ k = 1
  <2>1. n = 0
    BY <1>1, <1>5, NoWordsRead
  <2>2. 1 \notin ReadBefore(f, 1) /\ 2 \notin ReadBefore(f, 1)
    BY <1>1, <1>5 DEF ReadBefore
  <2> QED
    BY <1>5, <2>1, <2>2, ExtensionAtIs
<1>6. CASE ~Swapped(f) /\ k = 0
  <2>1. n = 0 /\ m = 0
    BY <1>1, <1>6, NoWordsRead
  <2> QED
    BY <1>6, <2>1
<1> QED
  BY <1>1, <1>3, <1>4, <1>5, <1>6

\* Before an effective address as much is laid down as was read.
LEMMA EaOrder ==
  ASSUME NEW f \in SET, NEW word, NEW m, m = SlotLen(f, word, 1), NEW n, n = SlotLen(f, word, 2),
         NEW s \in DOMAIN f.operands, IsEa(f.operands[s])
  PROVE  ExtensionAt(f, word, s)
           = 2 + (IF 1 \in LaidBefore(f, s) THEN m ELSE 0) + (IF 2 \in LaidBefore(f, s) THEN n ELSE 0)
<1>1. PICK k \in 0..2 : DOMAIN f.operands = 1..k /\ Len(f.operands) = k
  BY FormShape
<1>2. m \in {0, 2, 4} /\ n \in {0, 2, 4}
  BY ExtensionAtIs
<1>3. IsEa(f.operands[1]) \in BOOLEAN /\ IsEa(f.operands[2]) \in BOOLEAN
  BY DEF IsEa
<1>4. CASE s = 1 /\ 2 \notin DOMAIN f.operands
  <2>1. 1 \notin ReadBefore(f, 1) /\ 2 \notin ReadBefore(f, 1)
    BY <1>4 DEF ReadBefore
  <2>2. 1 \notin LaidBefore(f, 1) /\ 2 \notin LaidBefore(f, 1)
    BY <1>4 DEF LaidBefore
  <2> QED
    BY <1>4, <2>1, <2>2, ExtensionAtIs
<1>5. CASE s = 1 /\ 2 \in DOMAIN f.operands /\ IsEa(f.operands[2])
  <2>1. f.operands[2].kind # "RegList"
    BY <1>5 DEF IsEa
  <2>2. 1 \notin ReadBefore(f, 1) /\ 2 \notin ReadBefore(f, 1)
    BY <1>5, <2>1 DEF ReadBefore
  <2>3. IsEa(f.operands[1]) = IsEa(f.operands[2])
    BY <1>5 DEF IsEa
  <2>4. 1 \notin LaidBefore(f, 1) /\ 2 \notin LaidBefore(f, 1)
    BY <2>3 DEF LaidBefore
  <2> QED
    BY <1>5, <2>2, <2>4, ExtensionAtIs
<1>6. CASE s = 1 /\ 2 \in DOMAIN f.operands /\ ~IsEa(f.operands[2])
  <2>1. Swapped(f)
    BY <1>6 DEF Swapped
  <2>2. ExtensionAt(f, word, 1) = 2 + n
    BY <2>1, ReadingOrder
  <2>3. 1 \notin LaidBefore(f, 1) /\ 2 \in LaidBefore(f, 1)
    BY <1>1, <1>3, <1>6 DEF LaidBefore
  <2> QED
    BY <1>2, <1>6, <2>2, <2>3
<1>7. CASE s = 2
  <2>1. f.operands[2].kind # "RegList" /\ 1 \in DOMAIN f.operands
    BY <1>1, <1>7 DEF IsEa
  <2>2. 1 \in ReadBefore(f, 2) /\ 2 \notin ReadBefore(f, 2)
    BY <1>7, <2>1 DEF ReadBefore
  <2>3. 1 \in LaidBefore(f, 2) /\ 2 \notin LaidBefore(f, 2)
    BY <1>3, <1>7, <2>1 DEF LaidBefore
  <2> QED
    BY <1>2, <1>7, <2>2, <2>3, ExtensionAtIs
<1>8. s \in {1, 2}
  BY SlotTyped
<1> QED
  BY <1>4, <1>5, <1>6, <1>7, <1>8

------------------------------------------------------------------------------
(* Bytes of the buffer and words read from it                              *)

\* The words of the buffer from offset q on.
Reads(c, q, words) ==
  /\ words \in Seq(Word16) /\ q + 2 * Len(words) <= Len(c)
  /\ \A i \in 1..Len(words), k \in Nat : k = q + 2 * (i - 1) => words[i] = be16(c, k)

\* Words read one behind the other are read as one sequence.
LEMMA ReadsJoined ==
  ASSUME NEW c, NEW q \in Nat, NEW a, Reads(c, q, a), NEW r \in Nat, r = q + 2 * Len(a),
         NEW b, Reads(c, r, b)
  PROVE  Reads(c, q, a \o b)
<1>1. a \in Seq(Word16) /\ b \in Seq(Word16)
  BY DEF Reads
<1>2. PICK m \in Nat : m = Len(a)
  BY <1>1, LenProperties
<1>3. PICK n \in Nat : n = Len(b)
  BY <1>1, LenProperties
<1>4. /\ a \o b \in Seq(Word16) /\ Len(a \o b) = m + n
      /\ \A i \in 1..(m + n) : (a \o b)[i] = IF i <= m THEN a[i] ELSE b[i - m]
  BY <1>1, <1>2, <1>3, ConcatProperties
<1>5. ASSUME NEW i \in 1..(m + n), NEW k \in Nat, k = q + 2 * (i - 1) PROVE (a \o b)[i] = be16(c, k)
  <2>1. CASE i <= m
    <3>1. i \in 1..Len(a)
      BY <1>2, <2>1
    <3>2. a[i] = be16(c, k)
      BY <1>5, <3>1, Zenon DEF Reads
    <3> QED
      BY <1>4, <2>1, <3>2
  <2>2. CASE ~(i <= m)
    <3>0. PICK j \in 1..n : j = i - m
      BY <2>2
    <3>1. j \in 1..Len(b)
      BY <1>3, <3>0
    <3>2. k = r + 2 * (j - 1)
      BY <1>2, <1>5, <3>0
    <3>3. b[j] = be16(c, k)
      BY <3>1, <3>2, Zenon DEF Reads
    <3> QED
      BY <1>4, <2>2, <3>0, <3>3
  <2> QED
    BY <2>1, <2>2
<1>6. r + 2 * n <= Len(c)
  BY <1>3 DEF Reads
<1>7. q + 2 * (m + n) = r + 2 * n
  BY <1>2, <1>3
<1> QED
  BY <1>4, <1>5, <1>6, <1>7 DEF Reads

\* Words laid down are the bytes they were read from.
LEMMA ReadBytes ==
  ASSUME NEW c \in Seq(Byte), NEW p \in Nat, NEW words, Reads(c, p, words),
         NEW n \in Nat, n = 2 * Len(words)
  PROVE  WordBytes(words) = SubSeq(c, p + 1, p + n)
<1>1. PICK m \in Nat : m = Len(words)
  BY LenProperties DEF Reads
<1>2. n = 2 * m /\ p + n <= Len(c)
  BY <1>1 DEF Reads
<1>3. Len(c) \in Nat
  BY LenProperties
<1>4. \A i \in (p + 1)..(p + n) : c[i] \in Byte
  <2>1. SUFFICES ASSUME NEW i \in (p + 1)..(p + n) PROVE c[i] \in Byte
    OBVIOUS
  <2>2. i \in 1..Len(c)
    BY <1>2, <1>3
  <2> QED
    BY <2>2, ElementOfSeq
<1>5. PICK b : b = SubSeq(c, p + 1, p + n)
  OBVIOUS
<1>6. b \in Seq(Byte) /\ Len(b) = n /\ \A i \in 1..n : b[i] = c[p + i]
  <2>1. PICK l \in Int, h \in Int : l = p + 1 /\ h = p + n
    OBVIOUS
  <2>2. \A i \in l..h : c[i] \in Byte
    BY <1>4, <2>1
  <2>3. /\ SubSeq(c, l, h) \in Seq(Byte)
        /\ Len(SubSeq(c, l, h)) = IF l <= h THEN h - l + 1 ELSE 0
        /\ \A i \in 1..(h - l + 1) : SubSeq(c, l, h)[i] = c[l + i - 1]
    BY <2>2, SubSeqProperties
  <2>4. h - l + 1 = n /\ \A i \in 1..n : l + i - 1 = p + i
    BY <2>1
  <2> QED
    BY <1>5, <2>1, <2>3, <2>4
<1>7. b \in [1..n -> Byte]
  BY <1>6, LenProperties
<1>8. ASSUME NEW k \in 1..n
      PROVE  (IF k % 2 = 1 THEN HiByte(words[(k + 1) \div 2]) ELSE LoByte(words[k \div 2])) = b[k]
  <2>1. CASE k % 2 = 1
    <3>1. PICK i \in 1..m : i = (k + 1) \div 2 /\ 2 * (i - 1) + 1 = k
      BY <1>2, <2>1
    <3>2. PICK q \in Nat : q = p + 2 * (i - 1)
      BY <3>1
    <3>3. q + 1 = p + k /\ q + 2 <= Len(c)
      BY <1>2, <1>3, <3>1, <3>2
    <3>4. words[i] = be16(c, q)
      BY <1>1, <3>2 DEF Reads
    <3>5. HiByte(be16(c, q)) = c[q + 1]
      BY <3>3, WordRead
    <3>6. b[k] = c[p + k]
      BY <1>6
    <3> QED
      BY <2>1, <3>1, <3>3, <3>4, <3>5, <3>6
  <2>2. CASE k % 2 # 1
    <3>1. PICK i \in 1..m : i = k \div 2 /\ 2 * (i - 1) + 2 = k
      BY <1>2, <2>2
    <3>2. PICK q \in Nat : q = p + 2 * (i - 1)
      BY <3>1
    <3>3. q + 2 = p + k /\ q + 2 <= Len(c)
      BY <1>2, <1>3, <3>1, <3>2
    <3>4. words[i] = be16(c, q)
      BY <1>1, <3>2 DEF Reads
    <3>5. LoByte(be16(c, q)) = c[q + 2]
      BY <3>3, WordRead
    <3>6. b[k] = c[p + k]
      BY <1>6
    <3> QED
      BY <2>2, <3>1, <3>3, <3>4, <3>5, <3>6
  <2> QED
    BY <2>1, <2>2
<1>9. WordBytes(words)
        = [k \in 1..n |-> IF k % 2 = 1 THEN HiByte(words[(k + 1) \div 2]) ELSE LoByte(words[k \div 2])]
  BY <1>1, <1>2, Zenon DEF WordBytes
<1>10. b = [k \in 1..n |-> IF k % 2 = 1 THEN HiByte(words[(k + 1) \div 2]) ELSE LoByte(words[k \div 2])]
  BY <1>7, <1>8
<1> QED
  BY <1>5, <1>9, <1>10

\* As long as its words, whatever they are.
LEMMA WordBytesLong ==
  ASSUME NEW words, NEW n \in Nat, Len(words) = n
  PROVE  Len(WordBytes(words)) = 2 * n
<1>1. PICK m \in Nat : m = 2 * n
  OBVIOUS
<1>2. WordBytes(words)
        = [k \in 1..m |-> IF k % 2 = 1 THEN HiByte(words[(k + 1) \div 2]) ELSE LoByte(words[k \div 2])]
  BY <1>1, Zenon DEF WordBytes
<1>3. DOMAIN WordBytes(words) = 1..m
  BY <1>2
<1> QED
  BY <1>1, <1>3

\* The words behind a slot are words of the buffer.
LEMMA WordsAtRead ==
  ASSUME NEW c \in Seq(Byte), NEW q \in Nat, NEW n \in {0, 2, 4}, q + n <= Len(c)
  PROVE  Reads(c, q, WordsAt(c, q, n)) /\ 2 * Len(WordsAt(c, q, n)) = n
<1>1. Len(c) \in Nat
  BY LenProperties
<1>2. CASE n = 0
  <2>1. PICK b : b = WordsAt(c, q, n)
    OBVIOUS
  <2>2. b = <<>>
    BY <1>2, <2>1 DEF WordsAt
  <2>3. b \in Seq(Word16) /\ Len(b) = 0 /\ 1..Len(b) = {}
    BY <2>2
  <2>4. Reads(c, q, b)
    BY <1>1, <1>2, <2>3 DEF Reads
  <2> QED
    BY <1>2, <2>1, <2>3, <2>4
<1>3. CASE n = 2
  <2>1. PICK w \in Word16 : w = be16(c, q)
    BY <1>3, WordRead
  <2>2. PICK b : b = WordsAt(c, q, n)
    OBVIOUS
  <2>7. b = <<w>>
    BY <1>3, <2>1, <2>2 DEF WordsAt
  <2>3. b \in Seq(Word16) /\ Len(b) = 1 /\ b[1] = w
    BY <2>7
  <2>4. ASSUME NEW i \in 1..1, NEW k \in Nat, k = q + 2 * (i - 1) PROVE b[i] = be16(c, k)
    <3>1. i = 1 /\ k = q
      BY <2>4
    <3> QED
      BY <2>1, <2>3, <3>1
  <2>5. Reads(c, q, b)
    BY <1>3, <2>3, <2>4 DEF Reads
  <2>6. 2 * Len(b) = n
    BY <1>3, <2>3
  <2> QED
    BY <2>2, <2>5, <2>6
<1>4. CASE n = 4
  <2>1. PICK w \in Word16 : w = be16(c, q)
    BY <1>1, <1>4, WordRead
  <2>2. PICK r \in Nat : r = q + 2 /\ r + 2 <= Len(c)
    BY <1>1, <1>4
  <2>3. PICK v \in Word16 : v = be16(c, r)
    BY <2>2, WordRead
  <2>4. PICK b : b = WordsAt(c, q, n)
    OBVIOUS
  <2>8. b = <<w, v>>
    BY <1>4, <2>1, <2>2, <2>3, <2>4 DEF WordsAt
  <2>5. b \in Seq(Word16) /\ Len(b) = 2 /\ b[1] = w /\ b[2] = v
    BY <2>8
  <2>6. ASSUME NEW i \in 1..2, NEW k \in Nat, k = q + 2 * (i - 1) PROVE b[i] = be16(c, k)
    <3>1. CASE i = 1
      <4>1. k = q
        BY <2>6, <3>1
      <4> QED
        BY <2>1, <2>5, <3>1, <4>1
    <3>2. CASE i = 2
      <4>1. k = r
        BY <2>2, <2>6, <3>2
      <4> QED
        BY <2>3, <2>5, <3>2, <4>1
    <3> QED
      BY <3>1, <3>2
  <2>7. Reads(c, q, b)
    BY <1>4, <2>5, <2>6 DEF Reads
  <2>9. 2 * Len(b) = n
    BY <1>4, <2>5
  <2> QED
    BY <2>4, <2>7, <2>9
<1> QED
  BY <1>2, <1>3, <1>4

------------------------------------------------------------------------------
(* The words of an instruction are its bytes                               *)

\* The words that were read for a slot.
SlotWords(f, word, c, p, s) == WordsAt(c, p + ExtensionAt(f, word, s), SlotLen(f, word, s))

\* The words of a slot lie within the instruction and are as many as its bytes say.
LEMMA SlotWordsLong ==
  ASSUME NEW f, NEW word, NEW c \in Seq(Byte), NEW p \in Nat, NEW s \in {1, 2},
         p + InstructionLen(f, word) <= Len(c),
         NEW n, n = SlotLen(f, word, s)
  PROVE  /\ Reads(c, p + ExtensionAt(f, word, s), SlotWords(f, word, c, p, s))
         /\ SequenceOf(SlotWords(f, word, c, p, s), Len(SlotWords(f, word, c, p, s)))
         /\ Len(SlotWords(f, word, c, p, s)) \in Nat
         /\ 2 * Len(SlotWords(f, word, c, p, s)) = n
<1>1. PICK at \in Nat, k \in {0, 2, 4}, len \in Nat :
        /\ at = ExtensionAt(f, word, s) /\ k = SlotLen(f, word, s)
        /\ len = InstructionLen(f, word) /\ at + k <= len
  BY SlotPlace
<1>2. Len(c) \in Nat
  BY LenProperties
<1>3. PICK q \in Nat : q = p + at /\ q + k <= Len(c)
  <2>1. p + len <= Len(c)
    BY <1>1
  <2>2. PICK q \in Nat : q = p + at
    OBVIOUS
  <2>3. q + k <= Len(c)
    BY <1>1, <1>2, <2>1, <2>2
  <2> QED
    BY <2>2, <2>3
<1>4. PICK b : b = WordsAt(c, q, k)
  OBVIOUS
<1>5. Reads(c, q, b) /\ 2 * Len(b) = k
  BY <1>3, <1>4, WordsAtRead
<1>6. SequenceOf(b, Len(b))
  BY <1>4, WordsAtIs
<1>7. Len(b) \in Nat
  BY <1>5, LenProperties DEF Reads
<1>8. b = SlotWords(f, word, c, p, s)
  BY <1>1, <1>3, <1>4, Zenon DEF SlotWords
<1> QED
  BY <1>1, <1>3, <1>5, <1>6, <1>7, <1>8

\* A slot of no words is read wherever one likes.
LEMMA SlotReadAt ==
  ASSUME NEW f, NEW word, NEW c \in Seq(Byte), NEW p \in Nat, NEW s \in {1, 2},
         p + InstructionLen(f, word) <= Len(c), NEW b, b = SlotWords(f, word, c, p, s),
         NEW n, n = SlotLen(f, word, s),
         NEW at \in Nat, n = 0 \/ ExtensionAt(f, word, s) = at,
         NEW q \in Nat, q = p + at, q <= Len(c)
  PROVE  Reads(c, q, b)
<1>1. Reads(c, p + ExtensionAt(f, word, s), b) /\ Len(b) \in Nat /\ 2 * Len(b) = n
  BY SlotWordsLong
<1>2. CASE n = 0
  <2>1. Len(b) = 0 /\ b \in Seq(Word16)
    BY <1>1, <1>2 DEF Reads
  <2>2. 1..Len(b) = {}
    BY <2>1
  <2>3. q + 2 * Len(b) <= Len(c)
    BY <2>1
  <2> QED
    BY <2>1, <2>2, <2>3 DEF Reads
<1>3. CASE ExtensionAt(f, word, s) = at
  BY <1>1, <1>3
<1> QED
  BY <1>2, <1>3

\* All of an instruction is read, in the order it is laid down.
LEMMA InstructionRead ==
  ASSUME NEW c \in Seq(Byte), NEW p \in Nat, NEW word, word = be16(c, p), NEW f \in SET,
         NEW len, len = InstructionLen(f, word), p + len <= Len(c),
         NEW a, a = SlotWords(f, word, c, p, 1), NEW b, b = SlotWords(f, word, c, p, 2),
         NEW all, all = InLaidOrder(f, <<word>>, a, b)
  PROVE  Reads(c, p, all) /\ 2 * Len(all) = len
<1>1. PICK m \in {0, 2, 4} : m = SlotLen(f, word, 1) /\ 2 * Len(a) = m /\ Len(a) \in Nat
  BY SlotWordsLong, SlotLenIs
<1>2. PICK n \in {0, 2, 4} : n = SlotLen(f, word, 2) /\ 2 * Len(b) = n /\ Len(b) \in Nat
  BY SlotWordsLong, SlotLenIs
<1>3. len = 2 + m + n
  BY <1>1, <1>2 DEF InstructionLen
<1>4. Len(c) \in Nat
  BY LenProperties
<1>5. PICK x : x = <<word>>
  OBVIOUS
<1>6. Reads(c, p, x) /\ Len(x) = 1
  <2>1. p + 2 <= Len(c)
    BY <1>3, <1>4
  <2>2. Reads(c, p, WordsAt(c, p, 2))
    BY <2>1, WordsAtRead
  <2>3. WordsAt(c, p, 2) = x
    BY <1>5 DEF WordsAt
  <2> QED
    BY <1>5, <2>2, <2>3
<1>7. PICK q \in Nat : q = p + 2
  OBVIOUS
<1>10. q = p + 2 * Len(x)
  BY <1>6, <1>7
<1>8. CASE Swapped(f)
  <2>1. PICK r \in Nat : r = q + n
    OBVIOUS
  <2>2. ExtensionAt(f, word, 1) = 2 + n /\ (n = 0 \/ ExtensionAt(f, word, 2) = 2)
    BY <1>1, <1>2, <1>8, ReadingOrder
  <2>3. Reads(c, q, b)
    <3>1. q <= Len(c)
      BY <1>3, <1>4, <1>7
    <3> QED
      BY <1>2, <1>7, <2>2, <3>1, SlotReadAt
  <2>4. Reads(c, r, a)
    <3>1. PICK at \in Nat : at = 2 + n
      OBVIOUS
    <3>2. r <= Len(c) /\ r = p + at
      BY <1>3, <1>4, <1>7, <2>1, <3>1
    <3> QED
      BY <1>1, <2>2, <3>1, <3>2, SlotReadAt
  <2>5. Reads(c, q, b \o a)
    BY <1>2, <2>1, <2>3, <2>4, ReadsJoined
  <2>6. Reads(c, p, x \o (b \o a))
    BY <1>6, <1>10, <2>5, ReadsJoined
  <2>7. all = x \o (b \o a)
    BY <1>5, <1>8, Zenon DEF InLaidOrder
  <2>8. Len(all) = Len(x) + (Len(b) + Len(a))
    <3>1. b \in Seq(Word16) /\ a \in Seq(Word16) /\ x \in Seq(Word16) /\ b \o a \in Seq(Word16)
      BY <1>6, <2>3, <2>4, <2>5 DEF Reads
    <3> QED
      BY <2>7, <3>1, ConcatProperties
  <2>9. PICK i \in Nat, j \in Nat : i = Len(a) /\ j = Len(b)
    BY <1>1, <1>2
  <2>10. 2 * i = m /\ 2 * j = n /\ Len(all) = 1 + (i + j)
    BY <1>1, <1>2, <1>6, <2>8, <2>9
  <2>11. 2 * Len(all) = len
    BY <1>3, <2>10
  <2> QED
    BY <2>6, <2>7, <2>11
<1>9. CASE ~Swapped(f)
  <2>1. PICK r \in Nat : r = q + m
    OBVIOUS
  <2>2. (m = 0 \/ ExtensionAt(f, word, 1) = 2) /\ (n = 0 \/ ExtensionAt(f, word, 2) = 2 + m)
    BY <1>1, <1>2, <1>9, ReadingOrder
  <2>3. Reads(c, q, a)
    <3>1. q <= Len(c)
      BY <1>3, <1>4, <1>7
    <3> QED
      BY <1>1, <1>7, <2>2, <3>1, SlotReadAt
  <2>4. Reads(c, r, b)
    <3>1. PICK at \in Nat : at = 2 + m
      OBVIOUS
    <3>2. r <= Len(c) /\ r = p + at
      BY <1>3, <1>4, <1>7, <2>1, <3>1
    <3> QED
      BY <1>2, <2>2, <3>1, <3>2, SlotReadAt
  <2>5. Reads(c, q, a \o b)
    BY <1>1, <2>1, <2>3, <2>4, ReadsJoined
  <2>6. Reads(c, p, x \o (a \o b))
    BY <1>6, <1>10, <2>5, ReadsJoined
  <2>7. all = x \o (a \o b)
    BY <1>5, <1>9, Zenon DEF InLaidOrder
  <2>8. Len(all) = Len(x) + (Len(a) + Len(b))
    <3>1. b \in Seq(Word16) /\ a \in Seq(Word16) /\ x \in Seq(Word16) /\ a \o b \in Seq(Word16)
      BY <1>6, <2>3, <2>4, <2>5 DEF Reads
    <3> QED
      BY <2>7, <3>1, ConcatProperties
  <2>9. PICK i \in Nat, j \in Nat : i = Len(a) /\ j = Len(b)
    BY <1>1, <1>2
  <2>10. 2 * i = m /\ 2 * j = n /\ Len(all) = 1 + (i + j)
    BY <1>1, <1>2, <1>6, <2>8, <2>9
  <2>11. 2 * Len(all) = len
    BY <1>3, <2>10
  <2> QED
    BY <2>6, <2>7, <2>11
<1> QED
  BY <1>8, <1>9

------------------------------------------------------------------------------
(* A decoded form, and the text of it                                      *)

\* A form that was decoded at offset p, from a word.
Decoded(c, p, f, word) ==
  /\ c \in Seq(Byte) /\ p \in Nat /\ p + 2 <= Len(c) /\ word \in Word16 /\ word = be16(c, p)
  /\ f \in SET /\ FixedPart(word, f) = f.base /\ m68k_size(f.size, word) # "none"
  /\ EaAllowed(f, word) /\ ImmediateAllowed(f, word, c, p)
  /\ p + InstructionLen(f, word) <= Len(c)

\* The parts of the text of an instruction.
LEMMA TextIs ==
  ASSUME NEW f, NEW c, NEW p, NEW addr, NEW word, word = be16(c, p),
         NEW text, text = Instruction(f, c, p, addr)
  PROVE  /\ text.kind = "instruction" /\ text.mnemonic = f.mnemonic /\ text.suffix = Suffix(f, word)
         /\ DOMAIN text.operands = DOMAIN f.operands
         /\ \A s \in DOMAIN f.operands : text.operands[s] = Operand(f, word, c, p, addr, s)
<1>1. PICK ops : ops = [s \in DOMAIN f.operands |-> Operand(f, word, c, p, addr, s)]
  OBVIOUS
<1>2. PICK suffix : suffix = Suffix(f, word)
  OBVIOUS
<1>3. text = [kind |-> "instruction", mnemonic |-> f.mnemonic, suffix |-> suffix, operands |-> ops]
  BY <1>1, <1>2, Zenon DEF Instruction
<1>4. /\ text.kind = "instruction" /\ text.mnemonic = f.mnemonic /\ text.suffix = suffix
      /\ text.operands = ops
  BY <1>3
<1>5. DOMAIN ops = DOMAIN f.operands
  BY <1>1
<1>6. \A s \in DOMAIN f.operands : ops[s] = Operand(f, word, c, p, addr, s)
  BY <1>1, Zenon
<1> QED
  BY <1>2, <1>4, <1>5, <1>6, Zenon

\* A text has as many operands as its form.
LEMMA TextLong ==
  ASSUME NEW f \in SET, NEW c, NEW p, NEW addr, NEW word, word = be16(c, p),
         NEW text, text = Instruction(f, c, p, addr)
  PROVE  Len(text.operands) = Len(f.operands)
<1>1. PICK n \in 0..2 : DOMAIN f.operands = 1..n /\ Len(f.operands) = n
  BY FormShape
<1>2. PICK ops : ops = text.operands
  OBVIOUS
<1>3. DOMAIN ops = 1..n
  BY <1>1, <1>2, TextIs
<1>4. n \in Nat
  OBVIOUS
<1>5. Len(ops) = n
  BY <1>3, <1>4
<1> QED
  BY <1>1, <1>2, <1>5

SaidAt(f, word, c, p, text, s) ==
  Says(f.operands[s], m68k_size(f.size, word), text.operands[s], be16(c, p + ExtensionAt(f, word, s)))

\* Every operand of a text comes back.
LEMMA OperandTextKept ==
  ASSUME NEW c, NEW p, NEW f, NEW word, Decoded(c, p, f, word), NEW addr \in Int,
         NEW text, text = Instruction(f, c, p, addr), NEW s \in DOMAIN f.operands,
         NEW slot, slot = f.operands[s], NEW size, HasSize(f, word, size), NEW from \in Int, NEW list,
         NEW said, said => SaidAt(f, word, c, p, text, s),
         said => (IsEa(slot) => from = addr + ExtensionAt(f, word, s)),
         said => (slot.kind = "RegList" => list = be16(c, p + ExtensionAt(f, word, s)))
  PROVE  Kept(slot, size, text.operands[s], text.suffix, list, addr, from,
              InField(word, FieldOf(f, s)), SlotWords(f, word, c, p, s), said)
<1>1. /\ c \in Seq(Byte) /\ p \in Nat /\ word \in Word16 /\ word = be16(c, p) /\ f \in SET
      /\ EaAllowed(f, word) /\ ImmediateAllowed(f, word, c, p)
      /\ p + InstructionLen(f, word) <= Len(c)
  BY DEF Decoded
<1>2. s \in {1, 2}
  BY <1>1, SlotTyped
<1>3. PICK op : op = text.operands[s] /\ op = Operand(f, word, c, p, addr, s)
  BY <1>1, TextIs
<1>4. PICK suffix : suffix = text.suffix /\ suffix = Suffix(f, word)
  BY <1>1, TextIs
<1>5. PICK at \in Nat, n \in {0, 2, 4}, len \in Nat :
        /\ at = ExtensionAt(f, word, s) /\ n = SlotLen(f, word, s)
        /\ len = InstructionLen(f, word) /\ at + n <= len
  BY <1>2, SlotPlace
<1>6. PICK q \in Nat : q = p + at
  BY <1>1
<1>7. q + n <= Len(c)
  <2>1. p + len <= Len(c)
    BY <1>1, <1>5
  <2>2. Len(c) \in Nat
    BY <1>1, LenProperties
  <2> QED
    BY <1>1, <1>5, <1>6, <2>1, <2>2
<1>15. n \in Nat
  OBVIOUS
<1>8. Place(f, word, p, s, n, q)
  BY <1>5, <1>6, <1>15, Zenon DEF Place
<1>9. PICK w : w = be16(c, q)
  OBVIOUS
<1>10. said => Says(slot, size, op, w)
  BY <1>3, <1>5, <1>6, <1>9, Zenon DEF SaidAt, HasSize
<1>11. said /\ slot.kind = "RegList" => list = w
  BY <1>5, <1>6, <1>9
<1>12. Kept(slot, size, op, suffix, list, addr, from, InField(word, SlotField(slot)), WordsAt(c, q, n), said)
  BY <1>1, <1>3, <1>4, <1>7, <1>8, <1>9, <1>10, <1>11, OperandKept
<1>13. InField(word, FieldOf(f, s)) = InField(word, SlotField(slot))
  BY Zenon DEF FieldOf
<1>14. SlotWords(f, word, c, p, s) = WordsAt(c, q, n)
  BY <1>5, <1>6, Zenon DEF SlotWords
<1> QED
  BY <1>3, <1>4, <1>12, <1>13, <1>14, Zenon

\* An effective address is written in the syntax of its mode.
LEMMA EaTextSyntax ==
  ASSUME NEW c, NEW p, NEW f, NEW word, Decoded(c, p, f, word), NEW addr \in Int,
         NEW text, text = Instruction(f, c, p, addr), NEW s \in DOMAIN f.operands, IsEa(f.operands[s])
  PROVE  text.operands[s].syntax = ModeOf(f.operands[s], word)
<1>1. word = be16(c, p) /\ f \in SET /\ EaAllowed(f, word)
  BY DEF Decoded
<1>2. PICK mode \in ALL : mode = ModeOf(f.operands[s], word)
  BY <1>1, ModeAllowed
<1>3. text.operands[s] = Operand(f, word, c, p, addr, s)
  BY <1>1, TextIs
<1>4. PICK q, from : Operand(f, word, c, p, addr, s) = OperandAt(f, word, c, q, from, addr, s)
  BY Zenon DEF Operand
<1>5. PICK reg, size : OperandAt(f, word, c, q, from, addr, s) = render_ea(mode, reg, size, c, q, from)
  BY <1>2, EaOperand
<1>6. render_ea(mode, reg, size, c, q, from).syntax = mode
  BY RenderedSyntax
<1> QED
  BY <1>2, <1>3, <1>4, <1>5, <1>6, Zenon

\* The register list is stored the way it was: reversed twice or not at all.
LEMMA ListMaskKept ==
  ASSUME NEW c, NEW p, NEW f, NEW word, Decoded(c, p, f, word), NEW addr \in Int,
         NEW text, text = Instruction(f, c, p, addr), NEW s \in DOMAIN f.operands,
         f.operands[s].kind = "RegList"
  PROVE  ListMask(f, text) = be16(c, p + ExtensionAt(f, word, s))
<1>1. /\ c \in Seq(Byte) /\ p \in Nat /\ word = be16(c, p) /\ f \in SET
      /\ p + InstructionLen(f, word) <= Len(c)
  BY DEF Decoded
<1>2. s \in {1, 2}
  BY <1>1, SlotTyped
<1>3. PICK at \in Nat, n \in {0, 2, 4}, len \in Nat :
        /\ at = ExtensionAt(f, word, s) /\ n = SlotLen(f, word, s)
        /\ len = InstructionLen(f, word) /\ at + n <= len
  BY <1>2, SlotPlace
<1>4. n = 2
  <2>1. ExtensionLen(f.operands[s], word, m68k_size(f.size, word)) = 2
    BY Zenon DEF ExtensionLen, IsEa
  <2> QED
    BY <1>3, <2>1, Zenon DEF SlotLen
<1>5. PICK q \in Nat : q = p + at
  BY <1>1
<1>6. q + 2 <= Len(c)
  <2>1. p + len <= Len(c)
    BY <1>1, <1>3
  <2>2. Len(c) \in Nat
    BY <1>1, LenProperties
  <2> QED
    BY <1>1, <1>3, <1>4, <1>5, <2>1, <2>2
<1>7. PICK w \in Word16 : w = be16(c, q)
  BY <1>1, <1>6, WordRead
<1>8. PICK here : Operand(f, word, c, p, addr, s) = OperandAt(f, word, c, q, here, addr, s)
  BY <1>3, <1>5, Zenon DEF Operand
<1>9. text.operands[s] = Shown("list", <<ListOrder(f, word, w)>>)
  BY <1>1, <1>7, <1>8, RegListOperand, TextIs
<1>10. text.operands[s].syntax = "list" /\ text.operands[s].numbers[1] = ListOrder(f, word, w)
  BY <1>9 DEF Shown
<1>11. \A t \in DOMAIN f.operands : f.operands[t].kind = "RegList" => t = s
  <2>1. \A t \in DOMAIN f.operands : t = s \/ IsEa(f.operands[t])
    BY <1>1, SlotsKeepTheirPlaces
  <2> QED
    BY <2>1 DEF IsEa
<1>12. (CHOOSE t \in DOMAIN f.operands : f.operands[t].kind = "RegList") = s
  BY <1>11
<1>13. DOMAIN text.operands = DOMAIN f.operands
  BY <1>1, TextIs
<1>14. (\E t \in DOMAIN text.operands : text.operands[t].syntax = "-(An)")
         <=> (\E t \in DOMAIN f.operands : IsEa(f.operands[t]) /\ ModeOf(f.operands[t], word) = "-(An)")
  <2>1. \A t \in DOMAIN f.operands : IsEa(f.operands[t]) => text.operands[t].syntax = ModeOf(f.operands[t], word)
    BY EaTextSyntax
  <2>2. \A t \in DOMAIN f.operands : t = s \/ IsEa(f.operands[t])
    BY <1>1, SlotsKeepTheirPlaces
  <2>3. text.operands[s].syntax # "-(An)"
    BY <1>10
  <2> QED
    BY <1>13, <2>1, <2>2, <2>3, Zenon
<1>15. CASE \E t \in DOMAIN f.operands : IsEa(f.operands[t]) /\ ModeOf(f.operands[t], word) = "-(An)"
  <2>1. ListOrder(f, word, w) = ReverseBits(w)
    BY <1>15, Zenon DEF ListOrder
  <2>2. ListMask(f, text) = ReverseBits(ListOrder(f, word, w))
    BY <1>10, <1>12, <1>14, <1>15, Zenon DEF ListMask
  <2> QED
    BY <1>3, <1>5, <1>7, <2>1, <2>2, ReversedTwice
<1>16. CASE ~\E t \in DOMAIN f.operands : IsEa(f.operands[t]) /\ ModeOf(f.operands[t], word) = "-(An)"
  <2>1. ListOrder(f, word, w) = w
    BY <1>16, Zenon DEF ListOrder
  <2>2. ListMask(f, text) = ListOrder(f, word, w)
    BY <1>10, <1>12, <1>14, <1>16, Zenon DEF ListMask
  <2> QED
    BY <1>3, <1>5, <1>7, <2>1, <2>2
<1> QED
  BY <1>15, <1>16

------------------------------------------------------------------------------
(* What a text lays down is what was read                                  *)

\* A field of a word is a number, whatever the slot.
LEMMA FieldsAreInt ==
  ASSUME NEW f \in SET, NEW word \in Nat
  PROVE  InField(word, FieldOf(f, 1)) \in Int /\ InField(word, FieldOf(f, 2)) \in Int
<1>1. ASSUME NEW shift \in {0, 6, 8, 9, 12}, NEW width \in {3, 4, 6, 8}
      PROVE  InField(word, <<shift, width>>) \in Int
  <2>1. PICK b \in Int : b = Bit(shift)
    BY BitsAre
  <2>2. PICK x \in Int : x = Field(word, shift, width)
    <3>1. Field(word, shift, width) \in Int
      BY FieldIs
    <3> QED
      BY <3>1
  <2>3. InField(word, <<shift, width>>) = b * x
    BY <2>1, <2>2 DEF InField
  <2> QED
    BY <2>3
<1>2. InField(word, NoField) \in Int
  BY NoFieldEmpty
<1>3. ASSUME NEW slot \in OperandSlot PROVE InField(word, SlotField(slot)) \in Int
  <2>1. slot.shift \in {0, 6, 9}
    BY DEF OperandSlot
  <2>2. SlotField(slot) \in {<<slot.shift, 3>>, <<slot.shift, 6>>, <<0, 3>>, <<0, 8>>, <<0, 4>>, NoField}
    BY DEF SlotField
  <2> QED
    BY <1>1, <1>2, <2>1, <2>2
<1>4. ASSUME NEW s PROVE InField(word, FieldOf(f, s)) \in Int
  <2>1. CASE s \in DOMAIN f.operands
    <3>1. f.operands[s] \in OperandSlot
      BY <2>1, SlotTyped
    <3>2. FieldOf(f, s) = SlotField(f.operands[s])
      BY <2>1, Zenon DEF FieldOf
    <3> QED
      BY <1>3, <3>1, <3>2
  <2>2. CASE s \notin DOMAIN f.operands
    <3>1. FieldOf(f, s) = NoField
      BY <2>2, Zenon DEF FieldOf
    <3> QED
      BY <1>2, <3>1
  <2> QED
    BY <2>1, <2>2
<1> QED
  BY <1>4

\* The text of a decoded form, and the size it was read at.
TextOf(c, p, f, word, addr, text, size) ==
  /\ Decoded(c, p, f, word) /\ addr \in Int /\ text = Instruction(f, c, p, addr) /\ HasSize(f, word, size)

\* What it is to be the text of a decoded form.
LEMMA TextOfIs ==
  ASSUME NEW c, NEW p, NEW f, NEW word, NEW addr, NEW text, NEW size, TextOf(c, p, f, word, addr, text, size)
  PROVE  /\ Decoded(c, p, f, word) /\ addr \in Int /\ text = Instruction(f, c, p, addr) /\ HasSize(f, word, size)
         /\ c \in Seq(Byte) /\ p \in Nat /\ p + 2 <= Len(c) /\ word \in Word16 /\ word \in Nat /\ word = be16(c, p)
         /\ f \in SET /\ p + InstructionLen(f, word) <= Len(c)
         /\ FixedPart(word, f) = f.base /\ m68k_size(f.size, word) # "none"
<1>1. Decoded(c, p, f, word) /\ addr \in Int /\ text = Instruction(f, c, p, addr) /\ HasSize(f, word, size)
  BY DEF TextOf
<1> QED
  BY <1>1, WordIsInt DEF Decoded

\* A slot that is not there has no words.
LEMMA NoSlotWords ==
  ASSUME NEW f, NEW word, NEW c, NEW p, NEW s, s \notin DOMAIN f.operands
  PROVE  SlotWords(f, word, c, p, s) = <<>>
<1>1. SlotLen(f, word, s) = 0
  BY Zenon DEF SlotLen
<1>2. PICK q : q = p + ExtensionAt(f, word, s)
  OBVIOUS
<1>3. WordsAt(c, q, 0) = <<>>
  BY DEF WordsAt
<1> QED
  BY <1>1, <1>2, <1>3, Zenon DEF SlotWords

\* The bits and the length of what a slot lays down, wherever it is laid.
LEMMA SlotLaid ==
  ASSUME NEW c, NEW p, NEW f, NEW word, NEW addr, NEW text, NEW size, TextOf(c, p, f, word, addr, text, size),
         NEW s \in {1, 2}, NEW from \in Int
  PROVE  /\ SequenceOf(WordsLaid(f, size, text, addr, from, s), Len(SlotWords(f, word, c, p, s)))
         /\ BitsLaid(f, text, addr, s) = InField(word, FieldOf(f, s))
<1>1. /\ Decoded(c, p, f, word) /\ addr \in Int /\ text = Instruction(f, c, p, addr) /\ HasSize(f, word, size)
      /\ word \in Nat
  BY TextOfIs
<1>2. CASE s \in DOMAIN f.operands
  <2>1. PICK slot : slot = f.operands[s]
    OBVIOUS
  <2>2. PICK list : list = ListMask(f, text)
    OBVIOUS
  <2>3. Kept(slot, size, text.operands[s], text.suffix, list, addr, from,
             InField(word, FieldOf(f, s)), SlotWords(f, word, c, p, s), FALSE)
    BY <1>1, <1>2, <2>1, OperandTextKept
  <2>4. /\ OperandBits(slot, text.operands[s], text.suffix, addr) = InField(word, FieldOf(f, s))
        /\ SequenceOf(OperandWords(slot, text.operands[s], size, text.suffix, list, addr, from),
                      Len(SlotWords(f, word, c, p, s)))
    BY <2>3, Zenon DEF Kept
  <2> QED
    BY <1>2, <2>1, <2>2, <2>4, Zenon DEF WordsLaid, BitsLaid
<1>3. CASE s \notin DOMAIN f.operands
  <2>1. SlotWords(f, word, c, p, s) = <<>>
    BY <1>3, NoSlotWords
  <2>2. WordsLaid(f, size, text, addr, from, s) = <<>> /\ BitsLaid(f, text, addr, s) = 0
    BY <1>3, Zenon DEF WordsLaid, BitsLaid
  <2>3. FieldOf(f, s) = NoField
    BY <1>3, Zenon DEF FieldOf
  <2>4. InField(word, NoField) = 0
    BY <1>1, NoFieldEmpty
  <2>5. SequenceOf(<<>>, Len(<<>>))
    <3>1. <<>> \in Seq({})
      OBVIOUS
    <3> QED
      BY <3>1 DEF SequenceOf
  <2> QED
    BY <2>1, <2>2, <2>3, <2>4, <2>5
<1> QED
  BY <1>2, <1>3

\* Where the words of a slot are laid down, those of an effective address
\* where they were read.
LEMMA LaidAtIs ==
  ASSUME NEW c, NEW p, NEW f, NEW word, NEW addr, NEW text, NEW size, TextOf(c, p, f, word, addr, text, size),
         NEW s
  PROVE  /\ LaidAt(f, size, text, addr, s) \in Int
         /\ s \in DOMAIN f.operands /\ IsEa(f.operands[s]) =>
              LaidAt(f, size, text, addr, s) = addr + ExtensionAt(f, word, s)
<1>1. /\ addr \in Int /\ c \in Seq(Byte) /\ p \in Nat /\ f \in SET /\ p + InstructionLen(f, word) <= Len(c)
  BY TextOfIs
<1>2. PICK m \in {0, 2, 4} : m = SlotLen(f, word, 1)
  BY SlotLenIs
<1>3. PICK n \in {0, 2, 4} : n = SlotLen(f, word, 2)
  BY SlotLenIs
<1>4. 2 * Len(WordsLaid(f, size, text, addr, 0, 1)) = m
  <2>1. SequenceOf(WordsLaid(f, size, text, addr, 0, 1), Len(SlotWords(f, word, c, p, 1)))
    BY SlotLaid
  <2>2. Len(WordsLaid(f, size, text, addr, 0, 1)) = Len(SlotWords(f, word, c, p, 1))
    BY <2>1 DEF SequenceOf
  <2>3. 2 * Len(SlotWords(f, word, c, p, 1)) = m
    BY <1>1, <1>2, SlotWordsLong
  <2> QED
    BY <2>2, <2>3
<1>5. 2 * Len(WordsLaid(f, size, text, addr, 0, 2)) = n
  <2>1. SequenceOf(WordsLaid(f, size, text, addr, 0, 2), Len(SlotWords(f, word, c, p, 2)))
    BY SlotLaid
  <2>2. Len(WordsLaid(f, size, text, addr, 0, 2)) = Len(SlotWords(f, word, c, p, 2))
    BY <2>1 DEF SequenceOf
  <2>3. 2 * Len(SlotWords(f, word, c, p, 2)) = n
    BY <1>1, <1>3, SlotWordsLong
  <2> QED
    BY <2>2, <2>3
<1>6. LaidAt(f, size, text, addr, s)
        = addr + 2 + (IF 1 \in LaidBefore(f, s) THEN m ELSE 0) + (IF 2 \in LaidBefore(f, s) THEN n ELSE 0)
  BY <1>4, <1>5, Zenon DEF LaidAt
<1>7. ASSUME s \in DOMAIN f.operands, IsEa(f.operands[s])
      PROVE  LaidAt(f, size, text, addr, s) = addr + ExtensionAt(f, word, s)
  <2>1. ExtensionAt(f, word, s)
          = 2 + (IF 1 \in LaidBefore(f, s) THEN m ELSE 0) + (IF 2 \in LaidBefore(f, s) THEN n ELSE 0)
    BY <1>1, <1>2, <1>3, <1>7, EaOrder
  <2> QED
    BY <1>1, <1>6, <2>1
<1>8. LaidAt(f, size, text, addr, s) \in Int
  BY <1>1, <1>6
<1> QED
  BY <1>7, <1>8

\* A slot whose text says everything is laid down as it was read.
LEMMA SlotSaid ==
  ASSUME NEW c, NEW p, NEW f, NEW word, NEW addr, NEW text, NEW size, TextOf(c, p, f, word, addr, text, size),
         NEW s \in DOMAIN f.operands, SaidAt(f, word, c, p, text, s)
  PROVE  /\ InRange(f.operands[s], size, text.operands[s])
         /\ WordsLaid(f, size, text, addr, LaidAt(f, size, text, addr, s), s) = SlotWords(f, word, c, p, s)
<1>1. /\ Decoded(c, p, f, word) /\ addr \in Int /\ text = Instruction(f, c, p, addr) /\ HasSize(f, word, size)
  BY TextOfIs
<1>2. PICK slot : slot = f.operands[s]
  OBVIOUS
<1>3. PICK list : list = ListMask(f, text)
  OBVIOUS
<1>4. PICK from \in Int : from = LaidAt(f, size, text, addr, s)
  BY LaidAtIs
<1>5. IsEa(slot) => from = addr + ExtensionAt(f, word, s)
  BY <1>2, <1>4, LaidAtIs
<1>6. slot.kind = "RegList" => list = be16(c, p + ExtensionAt(f, word, s))
  BY <1>1, <1>2, <1>3, ListMaskKept
<1>7. Kept(slot, size, text.operands[s], text.suffix, list, addr, from,
           InField(word, FieldOf(f, s)), SlotWords(f, word, c, p, s), TRUE)
  BY <1>1, <1>2, <1>5, <1>6, OperandTextKept
<1>8. /\ InRange(slot, size, text.operands[s])
      /\ OperandWords(slot, text.operands[s], size, text.suffix, list, addr, from) = SlotWords(f, word, c, p, s)
  BY <1>7, Zenon DEF Kept
<1> QED
  BY <1>2, <1>3, <1>4, <1>8, Zenon DEF WordsLaid

\* The fixed bits, the size and the fields make the opcode word again.
LEMMA OpcodeKept ==
  ASSUME NEW c, NEW p, NEW f, NEW word, NEW addr, NEW text, NEW size, TextOf(c, p, f, word, addr, text, size)
  PROVE  f.base + size_bits(f.size, size) + BitsLaid(f, text, addr, 1) + BitsLaid(f, text, addr, 2) = word
<1>1. /\ HasSize(f, word, size) /\ word \in Nat /\ f \in SET
      /\ FixedPart(word, f) = f.base /\ m68k_size(f.size, word) # "none"
  BY TextOfIs
<1>2. f.size \in {"B", "W", "L", "Std6", "Move", "WL8", "WL6"}
  BY <1>1, RowsAreWellFormed
<1>3. PICK x \in Int : x = InField(word, SizeField(f.size)) /\ size_bits(f.size, size) = x
  BY <1>1, <1>2, SizeBitsKept DEF HasSize
<1>4. BitsLaid(f, text, addr, 1) = InField(word, FieldOf(f, 1)) /\ BitsLaid(f, text, addr, 2) = InField(word, FieldOf(f, 2))
  BY SlotLaid, ZeroIsInt
<1>5. InField(word, FieldOf(f, 1)) \in Int /\ InField(word, FieldOf(f, 2)) \in Int
  BY <1>1, FieldsAreInt
<1>6. f.base = word - x - InField(word, FieldOf(f, 1)) - InField(word, FieldOf(f, 2))
  BY <1>1, <1>3, Zenon DEF FixedPart
<1> QED
  BY <1>1, <1>3, <1>4, <1>5, <1>6

------------------------------------------------------------------------------
(* A text assembles by its own form alone, to its own bytes                *)

\* What a text assembles to, in the order it was read.
LEMMA EncodingIs ==
  ASSUME NEW c, NEW p, NEW f, NEW word, NEW addr, NEW text, NEW size, TextOf(c, p, f, word, addr, text, size),
         NEW a, a = WordsLaid(f, size, text, addr, LaidAt(f, size, text, addr, 1), 1),
         NEW b, b = WordsLaid(f, size, text, addr, LaidAt(f, size, text, addr, 2), 2)
  PROVE  /\ Encoding(f, size, text, addr) = WordBytes(InLaidOrder(f, <<word>>, a, b))
         /\ SequenceOf(a, Len(SlotWords(f, word, c, p, 1)))
         /\ SequenceOf(b, Len(SlotWords(f, word, c, p, 2)))
<1>1. f \in SET
  BY TextOfIs
<1>2. PICK i \in Int : i = LaidAt(f, size, text, addr, 1)
  BY LaidAtIs
<1>3. PICK j \in Int : j = LaidAt(f, size, text, addr, 2)
  BY LaidAtIs
<1>4. SequenceOf(a, Len(SlotWords(f, word, c, p, 1))) /\ SequenceOf(b, Len(SlotWords(f, word, c, p, 2)))
  BY <1>2, <1>3, SlotLaid
<1>5. PICK words : words = [s \in DOMAIN f.operands |-> WordsLaid(f, size, text, addr, LaidAt(f, size, text, addr, s), s)]
  OBVIOUS
<1>6. Encoding(f, size, text, addr)
        = Laid(f, f.base + size_bits(f.size, size) + BitsLaid(f, text, addr, 1) + BitsLaid(f, text, addr, 2), words)
  BY <1>5, Zenon DEF Encoding
<1>7. f.base + size_bits(f.size, size) + BitsLaid(f, text, addr, 1) + BitsLaid(f, text, addr, 2) = word
  BY OpcodeKept
<1>8. Encoding(f, size, text, addr) = Laid(f, word, words)
  BY <1>6, <1>7, Zenon
<1>9. ASSUME NEW s PROVE PartOf(f, words, s) = WordsLaid(f, size, text, addr, LaidAt(f, size, text, addr, s), s)
  <2>1. CASE s \in DOMAIN f.operands
    BY <1>5, <2>1, Zenon DEF PartOf
  <2>2. CASE s \notin DOMAIN f.operands
    BY <2>2, Zenon DEF PartOf, WordsLaid
  <2> QED
    BY <2>1, <2>2
<1>10. a = PartOf(f, words, 1) /\ b = PartOf(f, words, 2)
  BY <1>9
<1>11. Laid(f, word, words) = WordBytes(InLaidOrder(f, <<word>>, a, b))
  BY <1>1, <1>4, <1>10, LaidParts
<1> QED
  BY <1>4, <1>8, <1>11

\* The same, the words of the two slots spelt out.
LEMMA EncodingParts ==
  ASSUME NEW c, NEW p, NEW f, NEW word, NEW addr, NEW text, NEW size, TextOf(c, p, f, word, addr, text, size)
  PROVE  Encoding(f, size, text, addr)
           = WordBytes(InLaidOrder(f, <<word>>, WordsLaid(f, size, text, addr, LaidAt(f, size, text, addr, 1), 1),
                                                WordsLaid(f, size, text, addr, LaidAt(f, size, text, addr, 2), 2)))
<1>1. PICK a : a = WordsLaid(f, size, text, addr, LaidAt(f, size, text, addr, 1), 1)
  OBVIOUS
<1>2. PICK b : b = WordsLaid(f, size, text, addr, LaidAt(f, size, text, addr, 2), 2)
  OBVIOUS
<1>3. /\ Encoding(f, size, text, addr) = WordBytes(InLaidOrder(f, <<word>>, a, b))
      /\ SequenceOf(a, Len(SlotWords(f, word, c, p, 1)))
  BY <1>1, <1>2, EncodingIs
<1> QED
  BY <1>1, <1>2, <1>3, Zenon

\* A text never assembles to another length than that of the bytes it is of.
LEMMA EncodingLong ==
  ASSUME NEW c, NEW p, NEW f, NEW word, NEW addr, NEW text, NEW size, TextOf(c, p, f, word, addr, text, size)
  PROVE  Len(Encoding(f, size, text, addr)) = InstructionLen(f, word)
<1>1. /\ c \in Seq(Byte) /\ p \in Nat /\ f \in SET /\ p + InstructionLen(f, word) <= Len(c)
  BY TextOfIs
<1>2. PICK a : a = WordsLaid(f, size, text, addr, LaidAt(f, size, text, addr, 1), 1)
  OBVIOUS
<1>3. PICK b : b = WordsLaid(f, size, text, addr, LaidAt(f, size, text, addr, 2), 2)
  OBVIOUS
<1>4. PICK m : m = SlotLen(f, word, 1)
  OBVIOUS
<1>5. PICK n : n = SlotLen(f, word, 2)
  OBVIOUS
<1>6. PICK k \in Nat : k = Len(SlotWords(f, word, c, p, 1)) /\ 2 * k = m
  BY <1>1, <1>4, SlotWordsLong
<1>7. PICK l \in Nat : l = Len(SlotWords(f, word, c, p, 2)) /\ 2 * l = n
  BY <1>1, <1>5, SlotWordsLong
<1>8. /\ Encoding(f, size, text, addr) = WordBytes(InLaidOrder(f, <<word>>, a, b))
      /\ SequenceOf(a, k) /\ SequenceOf(b, l)
  BY <1>2, <1>3, <1>6, <1>7, EncodingIs
<1>9. PICK x : x = <<word>> /\ SequenceOf(x, 1)
  BY OneWord
<1>10. PICK z : z = InLaidOrder(f, x, a, b)
  OBVIOUS
<1>11. PICK t \in Nat : t = 1 + (k + l)
  OBVIOUS
<1>12. Len(z) = t
  <2>1. SequenceOf(a \o b, k + l) /\ SequenceOf(b \o a, l + k)
    BY <1>8, JoinedSequences
  <2>2. SequenceOf(x \o (a \o b), 1 + (k + l)) /\ SequenceOf(x \o (b \o a), 1 + (l + k))
    BY <1>9, <2>1, JoinedSequences
  <2>3. 1 + (l + k) = t /\ 1 + (k + l) = t
    BY <1>11
  <2>4. SequenceOf(z, t)
    BY <1>10, <2>2, <2>3 DEF InLaidOrder
  <2> QED
    BY <2>4 DEF SequenceOf
<1>13. Len(WordBytes(z)) = 2 * t
  BY <1>12, WordBytesLong
<1>14. InstructionLen(f, word) = 2 + m + n
  BY <1>4, <1>5, Zenon DEF InstructionLen
<1>15. 2 + m + n = 2 * t
  BY <1>6, <1>7, <1>11
<1> QED
  BY <1>8, <1>9, <1>10, <1>13, <1>14, <1>15, Zenon

\* A text that says everything assembles to the bytes it is of.
LEMMA EncodingKept ==
  ASSUME NEW c, NEW p, NEW f, NEW word, NEW addr, NEW text, NEW size, TextOf(c, p, f, word, addr, text, size),
         \A s \in DOMAIN f.operands : SaidAt(f, word, c, p, text, s)
  PROVE  Encoding(f, size, text, addr) = SubSeq(c, p + 1, p + InstructionLen(f, word))
<1>1. /\ c \in Seq(Byte) /\ p \in Nat /\ f \in SET /\ p + InstructionLen(f, word) <= Len(c) /\ word = be16(c, p)
  BY TextOfIs
<1>2. PICK a : a = SlotWords(f, word, c, p, 1)
  OBVIOUS
<1>3. PICK b : b = SlotWords(f, word, c, p, 2)
  OBVIOUS
<1>4. ASSUME NEW s
      PROVE  WordsLaid(f, size, text, addr, LaidAt(f, size, text, addr, s), s) = SlotWords(f, word, c, p, s)
  <2>1. CASE s \in DOMAIN f.operands
    BY <2>1, SlotSaid
  <2>2. CASE s \notin DOMAIN f.operands
    BY <2>2, NoSlotWords, Zenon DEF WordsLaid
  <2> QED
    BY <2>1, <2>2
<1>5. /\ WordsLaid(f, size, text, addr, LaidAt(f, size, text, addr, 1), 1) = a
      /\ WordsLaid(f, size, text, addr, LaidAt(f, size, text, addr, 2), 2) = b
  BY <1>2, <1>3, <1>4, Zenon
<1>6. Encoding(f, size, text, addr) = WordBytes(InLaidOrder(f, <<word>>, a, b))
  <2>1. Encoding(f, size, text, addr)
          = WordBytes(InLaidOrder(f, <<word>>, WordsLaid(f, size, text, addr, LaidAt(f, size, text, addr, 1), 1),
                                               WordsLaid(f, size, text, addr, LaidAt(f, size, text, addr, 2), 2)))
    BY EncodingParts
  <2> QED
    BY <1>5, <2>1, Zenon
<1>7. PICK all : all = InLaidOrder(f, <<word>>, a, b)
  OBVIOUS
<1>8. Encoding(f, size, text, addr) = WordBytes(all)
  BY <1>6, <1>7, Zenon
<1>9. PICK len \in Nat : len = InstructionLen(f, word)
  BY InstructionLenIs
<1>10. Reads(c, p, all) /\ 2 * Len(all) = len
  BY <1>1, <1>2, <1>3, <1>7, <1>9, InstructionRead
<1>11. WordBytes(all) = SubSeq(c, p + 1, p + len)
  BY <1>1, <1>10, ReadBytes
<1> QED
  BY <1>8, <1>9, <1>11

\* A text that says everything, and no byte that is none, is taken by its own form
\* at its own size.
LEMMA OwnForm ==
  ASSUME NEW c, NEW p, NEW f, NEW word, NEW addr, NEW text, NEW size, TextOf(c, p, f, word, addr, text, size),
         \A s \in DOMAIN f.operands : SaidAt(f, word, c, p, text, s),
         ByteInWord(f) => text.operands[1].numbers[2] \in Byte
  PROVE  Takes(f, size, text) /\ size \in SizesOf(f.size)
<1>1. /\ f \in SET /\ word \in Nat /\ word = be16(c, p) /\ m68k_size(f.size, word) # "none"
      /\ text = Instruction(f, c, p, addr) /\ size = m68k_size(f.size, word)
  BY TextOfIs DEF HasSize
<1>2. f.size \in {"B", "W", "L", "Std6", "Move", "WL8", "WL6"}
  BY <1>1, RowsAreWellFormed
<1>3. size \in SizesOf(f.size)
  BY <1>1, <1>2, SizeBitsKept
<1>4. Len(f.operands) = Len(text.operands)
  BY <1>1, TextLong
<1>5. \A s \in DOMAIN f.operands : InRange(f.operands[s], size, text.operands[s])
  BY SlotSaid
<1>6. text.suffix = Suffix(f, word)
  BY <1>1, TextIs
<1>7. text.suffix = IF f.mnemonic \in BitOperations THEN "none"
                    ELSE IF f.operands # <<>> /\ f.operands[1].kind = "BranchW" THEN text.suffix
                    ELSE IF f.size = "W" THEN "none" ELSE size
  BY <1>1, <1>6 DEF Suffix
<1> QED
  BY <1>3, <1>4, <1>5, <1>7, Zenon DEF Takes

\* The operands of a text are in syntaxes of the slots they are from.
LEMMA TextSyntaxes ==
  ASSUME NEW c, NEW p, NEW f, NEW word, NEW addr, NEW text, NEW size, TextOf(c, p, f, word, addr, text, size)
  PROVE  \A s \in DOMAIN f.operands : text.operands[s].syntax \in SyntaxesOf(f.operands[s])
<1>1. Decoded(c, p, f, word) /\ addr \in Int /\ text = Instruction(f, c, p, addr) /\ HasSize(f, word, size)
  BY TextOfIs
<1>2. SUFFICES ASSUME NEW s \in DOMAIN f.operands PROVE text.operands[s].syntax \in SyntaxesOf(f.operands[s])
  OBVIOUS
<1>3. PICK slot : slot = f.operands[s]
  OBVIOUS
<1>4. Kept(slot, size, text.operands[s], text.suffix, 0, addr, 0,
           InField(word, FieldOf(f, s)), SlotWords(f, word, c, p, s), FALSE)
  BY <1>1, <1>3, ZeroIsInt, OperandTextKept
<1> QED
  BY <1>3, <1>4, Zenon DEF Kept

\* No other form and no other size takes the text.
LEMMA NoOtherForm ==
  ASSUME NEW c, NEW p, NEW f, NEW word, NEW addr, NEW text, NEW size, TextOf(c, p, f, word, addr, text, size),
         NEW g \in SET, g.mnemonic = text.mnemonic, NEW z \in SizesOf(g.size), Takes(g, z, text)
  PROVE  g = f /\ z = size
<1>1. /\ Decoded(c, p, f, word) /\ addr \in Int /\ HasSize(f, word, size)
      /\ f \in SET /\ word \in Nat /\ word = be16(c, p) /\ m68k_size(f.size, word) # "none"
      /\ text = Instruction(f, c, p, addr) /\ size = m68k_size(f.size, word)
  BY TextOfIs DEF HasSize
<1>2. text.mnemonic = f.mnemonic /\ text.suffix = Suffix(f, word)
  BY <1>1, TextIs
<1>3. Len(f.operands) = Len(text.operands)
  BY <1>1, TextLong
<1>4. Len(g.operands) = Len(text.operands) /\ \A s \in DOMAIN g.operands : InRange(g.operands[s], z, text.operands[s])
  BY Zenon DEF Takes
<1>5. \A s \in DOMAIN g.operands : text.operands[s].syntax \in SyntaxesOf(g.operands[s])
  BY <1>4, Zenon DEF InRange
<1>6. \A s \in DOMAIN f.operands : text.operands[s].syntax \in SyntaxesOf(f.operands[s])
  BY TextSyntaxes
<1>7. g = f
  BY <1>1, <1>2, <1>3, <1>4, <1>5, <1>6, OnlyForm
<1>8. z = m68k_size(f.size, word)
  BY <1>1, <1>2, <1>7, OnlySize
<1> QED
  BY <1>1, <1>7, <1>8

\* What a text assembles to, if its form takes it.
LEMMA AssembledIs ==
  ASSUME NEW c, NEW p, NEW line, NEW f, NEW word, NEW size, TextOf(c, p, f, word, line.addr, line.text, size)
  PROVE  Assembled(line)
           = IF Takes(f, size, line.text) THEN {Encoding(f, size, line.text, line.addr)} ELSE {}
<1>1. /\ f \in SET /\ line.text = Instruction(f, c, p, line.addr) /\ word = be16(c, p) /\ word \in Nat
      /\ size = m68k_size(f.size, word) /\ m68k_size(f.size, word) # "none"
  BY TextOfIs DEF HasSize
<1>2. line.text.kind = "instruction" /\ line.text.mnemonic = f.mnemonic
  BY <1>1, TextIs
<1>3. line.text.kind # "data"
  BY <1>2
<1>4. f.mnemonic \in Mnemonics
  BY <1>1 DEF Mnemonics
<1>5. Named[line.text.mnemonic] = {g \in SET : g.mnemonic = line.text.mnemonic}
  BY <1>2, <1>4 DEF Named
<1>6. Assembled(line)
        = UNION {{Encoding(g, size_1, line.text, line.addr) : size_1 \in {z \in SizesOf(g.size) : Takes(g, z, line.text)}}
                 : g \in Named[line.text.mnemonic]}
  BY <1>3, Zenon DEF Assembled
<1>7. ASSUME NEW g \in SET, g.mnemonic = line.text.mnemonic, NEW z \in SizesOf(g.size), Takes(g, z, line.text)
       PROVE  g = f /\ z = size
  BY <1>7, NoOtherForm
<1>8. size \in SizesOf(f.size) /\ f \in Named[line.text.mnemonic]
  <2>1. f.size \in {"B", "W", "L", "Std6", "Move", "WL8", "WL6"}
    BY <1>1, RowsAreWellFormed
  <2>2. size \in SizesOf(f.size)
    BY <1>1, <2>1, SizeBitsKept
  <2> QED
    BY <1>1, <1>2, <1>5, <2>2
<1>9. ASSUME NEW bytes
       PROVE  bytes \in Assembled(line) <=> Takes(f, size, line.text) /\ bytes = Encoding(f, size, line.text, line.addr)
  <2>1. ASSUME bytes \in Assembled(line) PROVE Takes(f, size, line.text) /\ bytes = Encoding(f, size, line.text, line.addr)
    <3>1. PICK g \in Named[line.text.mnemonic] :
            bytes \in {Encoding(g, size_1, line.text, line.addr) : size_1 \in {z \in SizesOf(g.size) : Takes(g, z, line.text)}}
      BY <1>6, <2>1, Zenon
    <3>2. PICK z \in SizesOf(g.size) : Takes(g, z, line.text) /\ bytes = Encoding(g, z, line.text, line.addr)
      BY <3>1, Zenon
    <3>3. g \in SET /\ g.mnemonic = line.text.mnemonic
      BY <1>5, Zenon
    <3>4. g = f /\ z = size
      BY <1>7, <3>2, <3>3
    <3> QED
      BY <3>2, <3>4
  <2>2. ASSUME Takes(f, size, line.text), bytes = Encoding(f, size, line.text, line.addr) PROVE bytes \in Assembled(line)
    <3>1. Encoding(f, size, line.text, line.addr)
            \in {Encoding(f, size_1, line.text, line.addr) : size_1 \in {z \in SizesOf(f.size) : Takes(f, z, line.text)}}
      BY <1>8, <2>2
    <3>2. Encoding(f, size, line.text, line.addr) \in Assembled(line)
      BY <1>3, <1>8, <3>1, Zenon DEF Assembled
    <3> QED
      BY <2>2, <3>2
  <2> QED
    BY <2>1, <2>2
<1>10. CASE Takes(f, size, line.text)
  <2>1. \A bytes : bytes \in Assembled(line) <=> bytes = Encoding(f, size, line.text, line.addr)
    BY <1>9, <1>10, Zenon
  <2>2. Assembled(line) = {Encoding(f, size, line.text, line.addr)}
    BY <2>1, Zenon
  <2> QED
    BY <1>10, <2>2, Zenon
<1>11. CASE ~Takes(f, size, line.text)
  <2>1. \A bytes : bytes \notin Assembled(line)
    BY <1>9, <1>11, Zenon
  <2>2. Assembled(line) = {}
    BY <2>1, Zenon
  <2> QED
    BY <1>11, <2>2, Zenon
<1> QED
  BY <1>10, <1>11

------------------------------------------------------------------------------
(* Every line comes back                                                   *)

\* The two kinds of line: the bytes themselves, or what the best form says.
AsDatum(line) == line.text.kind = "data" /\ line.text.bytes = line.bytes

AsInstruction(c, line, f, word, size) ==
  /\ TextOf(c, line.at, f, word, line.addr, line.text, size)
  /\ f \in Best(c, line.at)
  /\ line.bytes = SubSeq(c, line.at + 1, line.at + InstructionLen(f, word))

LineIs(c, line) == AsDatum(line) \/ \E f, word, size : AsInstruction(c, line, f, word, size)

\* What a line says when it leaves nothing unsaid.
LEMMA AllSaid ==
  ASSUME NEW line, NEW f, NEW word, NEW size, AsInstruction(code, line, f, word, size), ~Unsaid(line)
  PROVE  \A s \in DOMAIN f.operands : SaidAt(f, word, code, line.at, line.text, s)
<1>1. TextOf(code, line.at, f, word, line.addr, line.text, size) /\ f \in Best(code, line.at)
  BY DEF AsInstruction
<1>2. /\ line.text = Instruction(f, code, line.at, line.addr) /\ word = be16(code, line.at)
  BY <1>1, TextOfIs
<1>3. line.text.kind = "instruction"
  BY <1>2, TextIs
<1>4. SUFFICES ASSUME NEW s \in DOMAIN f.operands PROVE SaidAt(f, word, code, line.at, line.text, s)
  OBVIOUS
<1>5. PICK extension : extension = be16(code, line.at + ExtensionAt(f, word, s))
  OBVIOUS
<1>6. PICK operand : operand = line.text.operands[s]
  OBVIOUS
<1>7. ~ \/ operand.syntax \in {"d8(An+Xn)", "d8(PC+Xn)"} /\ HiByte(extension) % 8 # 0
        \/ /\ IsEa(f.operands[s]) /\ operand.syntax = "#imm" /\ m68k_size(f.size, word) = "B"
           /\ HiByte(extension) # 0
        \/ operand.syntax = "list" /\ extension = 0
  BY <1>1, <1>2, <1>3, <1>5, <1>6, Zenon DEF Unsaid
<1> QED
  BY <1>5, <1>6, <1>7, Zenon DEF SaidAt, Says

\* Each line comes back, or says too little or too much and keeps its length.
LEMMA LineRoundTrips ==
  ASSUME NEW line, LineIs(code, line)
  PROVE  IF Unsaid(line) \/ TooWide(line) THEN \A bytes \in Assembled(line) : Len(bytes) = Len(line.bytes)
         ELSE Assembled(line) = {line.bytes}
<1>1. CASE AsDatum(line)
  <2>1. Assembled(line) = {line.bytes}
    BY <1>1, Zenon DEF AsDatum, Assembled
  <2> QED
    BY <2>1
<1>2. ASSUME NEW f, NEW word, NEW size, AsInstruction(code, line, f, word, size)
      PROVE  IF Unsaid(line) \/ TooWide(line) THEN \A bytes \in Assembled(line) : Len(bytes) = Len(line.bytes)
             ELSE Assembled(line) = {line.bytes}
  <2>1. TextOf(code, line.at, f, word, line.addr, line.text, size)
    BY <1>2 DEF AsInstruction
  <2>2. PICK n \in Nat : n = InstructionLen(f, word)
    BY InstructionLenIs
  <2>3. line.bytes = SubSeq(code, line.at + 1, line.at + n)
    BY <1>2, <2>2, Zenon DEF AsInstruction
  <2>4. CASE Unsaid(line) \/ TooWide(line)
    <3>1. code \in Seq(Byte) /\ line.at \in Nat /\ line.at + n <= Len(code)
      BY <2>1, <2>2, TextOfIs
    <3>2. PICK at \in Nat : at = line.at
      BY <3>1
    <3>3. Len(line.bytes) = n
      <4>1. at + n <= Len(code) /\ line.bytes = SubSeq(code, at + 1, at + n)
        BY <2>3, <3>1, <3>2
      <4>2. Len(SubSeq(code, at + 1, at + n)) = n
        BY <3>1, <4>1, BytesCounted
      <4> QED
        BY <4>1, <4>2
    <3>4. Len(Encoding(f, size, line.text, line.addr)) = n
      BY <2>1, <2>2, EncodingLong
    <3>5. \A bytes \in Assembled(line) : bytes = Encoding(f, size, line.text, line.addr)
      <4>1. Assembled(line)
              = IF Takes(f, size, line.text) THEN {Encoding(f, size, line.text, line.addr)} ELSE {}
        BY <2>1, AssembledIs
      <4> QED
        BY <4>1
    <3> QED
      BY <2>4, <3>3, <3>4, <3>5, Zenon
  <2>5. CASE ~Unsaid(line) /\ ~TooWide(line)
    <3>1. \A s \in DOMAIN f.operands : SaidAt(f, word, code, line.at, line.text, s)
      BY <1>2, <2>5, AllSaid
    <3>2. Encoding(f, size, line.text, line.addr) = line.bytes
      BY <2>1, <2>2, <2>3, <3>1, EncodingKept
    <3>3. ByteInWord(f) => line.text.operands[1].numbers[2] \in Byte
      <4>1. f \in Best(code, line.at) /\ line.text.kind = "instruction"
        BY <1>2, TextOfIs, TextIs DEF AsInstruction
      <4> QED
        BY <2>5, <4>1, Zenon DEF TooWide
    <3>4. Takes(f, size, line.text) /\ size \in SizesOf(f.size)
      BY <2>1, <3>1, <3>3, OwnForm
    <3>5. Assembled(line) = {line.bytes}
      BY <2>1, <3>2, <3>4, AssembledIs
    <3> QED
      BY <2>5, <3>5
  <2> QED
    BY <2>4, <2>5
<1> QED
  BY <1>1, <1>2, Zenon DEF LineIs

------------------------------------------------------------------------------

\* What every line is.  This is the inductive invariant; the buffer stays as it is.
LinesAre == \A k \in DOMAIN out : LineIs(code, out[k])

\* The line a step pushes is data, or what the best form says.
LEMMA PushedIs ==
  ASSUME TypeOK, EmitInstruction \/ EmitWord \/ EmitByte
  PROVE  \E n, text : Pushes(n, text) /\ LineIs(code, Pushed(n, text))
<1>1. code \in Seq(Byte) /\ pos \in Nat /\ origin + pos \in Int
  BY OriginIsInt
<1>2. PICK addr \in Int : addr = WrapAddress(origin + pos)
  BY <1>1, AddressIsInt
<1>3. \A n, text : /\ Pushed(n, text).at = pos /\ Pushed(n, text).addr = addr
                   /\ Pushed(n, text).bytes = SubSeq(code, pos + 1, pos + n)
                   /\ Pushed(n, text).text = text
  BY <1>2 DEF Pushed
<1>4. PICK l \in Nat : l = Len(code)
  BY <1>1, LenProperties
<1>5. \A bytes : Datum(bytes).kind = "data" /\ Datum(bytes).bytes = bytes
  BY DEF Datum
<1>9. \A n : LineIs(code, Pushed(n, Datum(SubSeq(code, pos + 1, pos + n))))
  <2> TAKE n
  <2>1. PICK bytes : bytes = SubSeq(code, pos + 1, pos + n)
    OBVIOUS
  <2>2. PICK line : line = Pushed(n, Datum(bytes))
    OBVIOUS
  <2>3. line.bytes = bytes /\ line.text = Datum(bytes)
    BY <1>3, <2>1, <2>2, Zenon
  <2>4. AsDatum(line)
    BY <1>5, <2>3 DEF AsDatum
  <2> QED
    BY <2>1, <2>2, <2>4, Zenon DEF LineIs
<1>6. CASE EmitInstruction
  <2>1. PICK f \in decode_m68k(code, pos) :
          Push(InstructionLen(f, be16(code, pos)), Instruction(f, code, pos, WrapAddress(origin + pos)))
    BY <1>6 DEF EmitInstruction
  <2>2. pos + 2 <= Len(code)
    BY <1>6 DEF EmitInstruction
  <2>3. PICK word \in Word16 : word = be16(code, pos)
    BY <1>1, <2>2, WordRead
  <2>4. /\ f \in Readings(code, pos) /\ f \in SET
        /\ FixedPart(word, f) = f.base
        /\ EaAllowed(f, word) /\ ImmediateAllowed(f, word, code, pos)
        /\ pos + InstructionLen(f, word) <= Len(code)
    BY <1>1, <2>2, <2>3, DecodedIs
  <2>5. m68k_size(f.size, word) # "none"
    <3>1. be16(code, pos) \div 4096 \in 0..15
      BY <1>1, <2>2, WordRead, TopOfWord
    <3>2. m68k_size(f.size, be16(code, pos)) # "none"
      BY <2>4, <3>1, ReadingIs
    <3> QED
      BY <2>3, <3>2, Zenon
  <2>6. f \in Best(code, pos)
    BY <2>1, Zenon DEF decode_m68k
  <2>7. PICK n \in Nat : n = InstructionLen(f, word) /\ n >= 2
    BY InstructionLenIs
  <2>8. PICK text \in Text : text = Instruction(f, code, pos, addr)
    BY <1>1, <1>2, <2>2, <2>3, <2>4, InstructionTyped
  <2>9. PICK size : size = m68k_size(f.size, word)
    OBVIOUS
  <2>10. Decoded(code, pos, f, word)
    BY <1>1, <2>2, <2>3, <2>4, <2>5 DEF Decoded
  <2>11. TextOf(code, pos, f, word, addr, text, size)
    BY <2>8, <2>9, <2>10, Zenon DEF TextOf, HasSize
  <2>12. LineIs(code, Pushed(n, text))
    <3>1. PICK line : line = Pushed(n, text)
      OBVIOUS
    <3>2. /\ line.at = pos /\ line.addr = addr /\ line.text = text
          /\ line.bytes = SubSeq(code, pos + 1, pos + n)
      BY <1>3, <3>1, Zenon
    <3>3. TextOf(code, line.at, f, word, line.addr, line.text, size) /\ f \in Best(code, line.at)
      BY <2>6, <2>11, <3>2, Zenon
    <3>4. line.bytes = SubSeq(code, line.at + 1, line.at + InstructionLen(f, word))
      BY <2>7, <3>2, Zenon
    <3>5. AsInstruction(code, line, f, word, size)
      BY <3>3, <3>4, Zenon DEF AsInstruction
    <3> QED
      BY <3>1, <3>5, Zenon DEF LineIs
  <2>13. n >= 1 /\ pos + n <= Len(code)
    BY <2>4, <2>7
  <2>14. Push(n, text)
    BY <1>2, <2>1, <2>3, <2>7, <2>8, Zenon
  <2>15. Pushes(n, text)
    BY <2>7, <2>8, <2>13, <2>14, Zenon DEF Pushes
  <2> QED
    BY <2>12, <2>15
<1>7. CASE EmitWord
  <2>1. pos + 2 <= Len(code) /\ Push(2, Datum(SubSeq(code, pos + 1, pos + 2)))
    BY <1>7 DEF EmitWord
  <2>2. SubSeq(code, pos + 1, pos + 2) \in Seq(Byte)
    BY <1>1, <2>1, BytesCounted
  <2>3. Datum(SubSeq(code, pos + 1, pos + 2)) \in Text
    BY <2>2 DEF Datum, Text
  <2>4. 2 \in Nat /\ 2 >= 1
    OBVIOUS
  <2>5. Pushes(2, Datum(SubSeq(code, pos + 1, pos + 2)))
    BY <2>1, <2>3, <2>4, Zenon DEF Pushes
  <2>6. LineIs(code, Pushed(2, Datum(SubSeq(code, pos + 1, pos + 2))))
    BY <1>9
  <2> QED
    BY <2>5, <2>6
<1>8. CASE EmitByte
  <2>1. pos + 1 = Len(code) /\ Push(1, Datum(<<code[pos + 1]>>))
    BY <1>8 DEF EmitByte
  <2>2. pos + 1 <= Len(code)
    BY <1>4, <2>1
  <2>3. SubSeq(code, pos + 1, pos + 1) = <<code[pos + 1]>>
    BY <1>1, <2>2, OneByte
  <2>4. SubSeq(code, pos + 1, pos + 1) \in Seq(Byte)
    BY <1>1, <2>2, BytesCounted
  <2>5. Datum(<<code[pos + 1]>>) \in Text
    BY <2>3, <2>4 DEF Datum, Text
  <2>6. 1 \in Nat /\ 1 >= 1
    OBVIOUS
  <2>7. Pushes(1, Datum(<<code[pos + 1]>>))
    BY <2>1, <2>2, <2>5, <2>6, Zenon DEF Pushes
  <2>8. LineIs(code, Pushed(1, Datum(<<code[pos + 1]>>)))
    BY <1>9, <2>3
  <2> QED
    BY <2>7, <2>8
<1> QED
  BY <1>6, <1>7, <1>8, Zenon

\* Every line of a listing of any buffer comes back from its text: the whole
\* table and every word, but the three kinds of line that say too little and the
\* byte immediates that the assembler has no encoding for; these keep their length.
THEOREM RoundTripHolds == Spec => []RoundTrip
<1>1. Init => LinesAre
  BY DEF Init, LinesAre
<1>2. TypeOK /\ LinesAre /\ [Next]_vars => LinesAre'
  <2> SUFFICES ASSUME TypeOK, LinesAre, [Next]_vars PROVE LinesAre'
    OBVIOUS
  <2>1. CASE EmitInstruction \/ EmitWord \/ EmitByte
    <3>1. PICK n, text : Pushes(n, text) /\ LineIs(code, Pushed(n, text))
      BY <2>1, PushedIs
    <3>2. PICK line \in OutLine : line = Pushed(n, text)
      BY <3>1, PushedTyped
    <3>3. code' = code /\ out' = Append(out, line)
      BY <3>1, <3>2 DEF Pushes, Push, Pushed
    <3>4. out \in Seq(OutLine)
      BY DEF TypeOK, OutLine
    <3>5. PICK m \in Nat : m = Len(out) /\ DOMAIN out = 1..m
      BY <3>4, LenProperties
    <3>6. /\ DOMAIN out' = 1..(m + 1) /\ out'[m + 1] = line
          /\ \A k \in 1..m : out'[k] = out[k]
      BY <3>3, <3>4, <3>5, AppendProperties, LenProperties, SMTT(30)
    <3>7. \A k \in DOMAIN out' : k \in 1..m \/ k = m + 1
      BY <3>6
    <3>8. \A k \in DOMAIN out' : LineIs(code, out'[k])
      BY <3>1, <3>2, <3>5, <3>6, <3>7, Zenon DEF LinesAre
    <3> QED
      BY <3>3, <3>8, Zenon DEF LinesAre
  <2>2. CASE UNCHANGED vars
    BY <2>2 DEF vars, LinesAre
  <2> QED
    BY <2>1, <2>2 DEF Next, Return
<1>3. LinesAre => RoundTrip
  BY LineRoundTrips, Zenon DEF LinesAre, RoundTrip
<1> QED
  BY <1>1, <1>2, <1>3, TypeCorrect, PTL DEF Spec

------------------------------------------------------------------------------
(* A word is its cuts                                                      *)

\* A number cut above its lowest one, two or three bits.
LEMMA CutOff ==
  ASSUME NEW n \in Int
  PROVE  /\ \E q \in Int, r \in Int : n = 2 * q + r /\ 0 <= r /\ r < 2
         /\ \E q \in Int, r \in Int : n = 4 * q + r /\ 0 <= r /\ r < 4
         /\ \E q \in Int, r \in Int : n = 8 * q + r /\ 0 <= r /\ r < 8
<1>1. \E q \in Int, r \in Int : n = 2 * q + r /\ 0 <= r /\ r < 2
  <2>1. PICK r \in Int : r = n % 2 /\ 0 <= r /\ r < 2
    OBVIOUS
  <2>2. PICK q \in Int : q = n \div 2
    OBVIOUS
  <2>3. n = 2 * q + r
    BY <2>1, <2>2
  <2> QED
    BY <2>1, <2>3
<1>2. \E q \in Int, r \in Int : n = 4 * q + r /\ 0 <= r /\ r < 4
  <2>1. PICK r \in Int : r = n % 4 /\ 0 <= r /\ r < 4
    OBVIOUS
  <2>2. PICK q \in Int : q = n \div 4
    OBVIOUS
  <2>3. n = 4 * q + r
    BY <2>1, <2>2
  <2> QED
    BY <2>1, <2>3
<1>3. \E q \in Int, r \in Int : n = 8 * q + r /\ 0 <= r /\ r < 8
  <2>1. PICK r \in Int : r = n % 8 /\ 0 <= r /\ r < 8
    OBVIOUS
  <2>2. PICK q \in Int : q = n \div 8
    OBVIOUS
  <2>3. n = 8 * q + r
    BY <2>1, <2>2
  <2> QED
    BY <2>1, <2>3
<1> QED
  BY <1>1, <1>2, <1>3

\* The number that nine cuts make, the lowest first.
Joined(a, b, c, d, e, g, h, i, j) ==
  a + 8 * b + 16 * c + 64 * d + 128 * e + 256 * g + 512 * h + 4096 * i + 16384 * j

CutInto(word, a, b, c, d, e, g, h, i, j) ==
  /\ word \in Int /\ word = Joined(a, b, c, d, e, g, h, i, j)
  /\ a \in 0..7 /\ b \in 0..1 /\ c \in 0..3 /\ d \in 0..1 /\ e \in 0..1 /\ g \in 0..1
  /\ h \in 0..7 /\ i \in 0..3 /\ j \in 0..3

\* A word can be cut.
LEMMA WordIsCut ==
  ASSUME NEW word \in Word16
  PROVE  \E a, b, c, d, e, g, h, i, j \in Int :
           CutInto(word, a, b, c, d, e, g, h, i, j)
<1>1. PICK n \in Int : n = word /\ 0 <= n /\ n < 65536
  BY SMTT(60) DEF Word16
<1>2. PICK u \in Int, a \in Int : n = 8 * u + a /\ 0 <= a /\ a < 8
  BY CutOff
<1>3. PICK v \in Int, b \in Int : u = 2 * v + b /\ 0 <= b /\ b < 2
  BY CutOff
<1>4. PICK w \in Int, c \in Int : v = 4 * w + c /\ 0 <= c /\ c < 4
  BY CutOff
<1>5. PICK x \in Int, d \in Int : w = 2 * x + d /\ 0 <= d /\ d < 2
  BY CutOff
<1>6. PICK y \in Int, e \in Int : x = 2 * y + e /\ 0 <= e /\ e < 2
  BY CutOff
<1>7. PICK z \in Int, g \in Int : y = 2 * z + g /\ 0 <= g /\ g < 2
  BY CutOff
<1>8. PICK s \in Int, h \in Int : z = 8 * s + h /\ 0 <= h /\ h < 8
  BY CutOff
<1>9. PICK j \in Int, i \in Int : s = 4 * j + i /\ 0 <= i /\ i < 4
  BY CutOff
<1>10. n = a + 8 * b + 16 * c + 64 * d + 128 * e + 256 * g + 512 * h + 4096 * i + 16384 * j
  BY <1>2, <1>3, <1>4, <1>5, <1>6, <1>7, <1>8, <1>9
<1>11. 0 <= j /\ j < 4
  BY <1>1, <1>2, <1>3, <1>4, <1>5, <1>6, <1>7, <1>8, <1>9, <1>10
<1>12. word = Joined(a, b, c, d, e, g, h, i, j)
  BY <1>1, <1>10 DEF Joined
<1>13. /\ a \in 0..7 /\ b \in 0..1 /\ c \in 0..3 /\ d \in 0..1 /\ e \in 0..1 /\ g \in 0..1
       /\ h \in 0..7 /\ i \in 0..3 /\ j \in 0..3
  BY <1>2, <1>3, <1>4, <1>5, <1>6, <1>7, <1>8, <1>9, <1>11
<1>14. word \in Int
  BY <1>1
<1>15. CutInto(word, a, b, c, d, e, g, h, i, j)
  BY <1>12, <1>13, <1>14, Zenon DEF CutInto
<1> QED
  BY <1>15

\* What is above and below each cut.
LEMMA BitsMore == Bit(7) = 128 /\ Bit(14) = 16384
BY DEF Bit

\* Every field of a word, out of its cuts.
LEMMA CutFields ==
  ASSUME NEW a \in Int, NEW b \in Int, NEW c \in Int, NEW d \in Int, NEW e \in Int, NEW g \in Int,
         NEW h \in Int, NEW i \in Int, NEW j \in Int, NEW word, CutInto(word, a, b, c, d, e, g, h, i, j)
  PROVE  /\ Field(word, 0, 3) = a /\ Field(word, 3, 1) = b /\ Field(word, 4, 2) = c
         /\ Field(word, 6, 1) = d /\ Field(word, 7, 1) = e /\ Field(word, 8, 1) = g
         /\ Field(word, 9, 3) = h /\ Field(word, 12, 2) = i /\ Field(word, 14, 2) = j
         /\ Field(word, 6, 2) = d + 2 * e /\ Field(word, 3, 3) = b + 2 * c
         /\ Field(word, 0, 4) = a + 8 * b /\ Field(word, 0, 6) = a + 8 * b + 16 * c
         /\ Field(word, 6, 6) = d + 2 * e + 4 * g + 8 * h
         /\ Field(word, 0, 8) = a + 8 * b + 16 * c + 64 * d + 128 * e
<1>1. /\ 0 <= a /\ a < 8 /\ 0 <= b /\ b < 2 /\ 0 <= c /\ c < 4 /\ 0 <= d /\ d < 2 /\ 0 <= e /\ e < 2
      /\ 0 <= g /\ g < 2 /\ 0 <= h /\ h < 8 /\ 0 <= i /\ i < 4 /\ 0 <= j /\ j < 4
  BY DEF CutInto
<1>2. word = a + 8 * b + 16 * c + 64 * d + 128 * e + 256 * g + 512 * h + 4096 * i + 16384 * j
  BY DEF CutInto, Joined
<1>3. /\ Bit(0) = 1 /\ Bit(1) = 2 /\ Bit(2) = 4 /\ Bit(3) = 8 /\ Bit(4) = 16 /\ Bit(6) = 64
      /\ Bit(7) = 128 /\ Bit(8) = 256 /\ Bit(9) = 512 /\ Bit(12) = 4096 /\ Bit(14) = 16384
  BY BitsAre, BitsMore
<1>4. PICK k3 \in Int : k3 = b + 2 * c + 8 * d + 16 * e + 32 * g + 64 * h + 512 * i + 2048 * j
  OBVIOUS
<1>5. PICK k4 \in Int : k4 = c + 4 * d + 8 * e + 16 * g + 32 * h + 256 * i + 1024 * j
  OBVIOUS
<1>6. PICK k6 \in Int : k6 = d + 2 * e + 4 * g + 8 * h + 64 * i + 256 * j
  OBVIOUS
<1>7. PICK k7 \in Int : k7 = e + 2 * g + 4 * h + 32 * i + 128 * j
  OBVIOUS
<1>8. PICK k8 \in Int : k8 = g + 2 * h + 16 * i + 64 * j
  OBVIOUS
<1>9. PICK k9 \in Int : k9 = h + 8 * i + 32 * j
  OBVIOUS
<1>10. PICK k12 \in Int : k12 = i + 4 * j
  OBVIOUS
<1>11. /\ word \div 1 = word /\ word \div 8 = k3 /\ word \div 16 = k4 /\ word \div 64 = k6
       /\ word \div 128 = k7 /\ word \div 256 = k8 /\ word \div 512 = k9 /\ word \div 4096 = k12
       /\ word \div 16384 = j
  BY <1>1, <1>2, <1>4, <1>5, <1>6, <1>7, <1>8, <1>9, <1>10
<1>12. /\ word % 8 = a /\ word % 16 = a + 8 * b /\ word % 64 = a + 8 * b + 16 * c
       /\ word % 256 = a + 8 * b + 16 * c + 64 * d + 128 * e
  BY <1>1, <1>2
<1>13. /\ k3 % 2 = b /\ k3 % 8 = b + 2 * c /\ k4 % 4 = c /\ k6 % 2 = d /\ k6 % 4 = d + 2 * e
       /\ k6 % 64 = d + 2 * e + 4 * g + 8 * h /\ k7 % 2 = e /\ k8 % 2 = g /\ k9 % 8 = h
       /\ k12 % 4 = i /\ j % 4 = j
  BY <1>1, <1>4, <1>5, <1>6, <1>7, <1>8, <1>9, <1>10
<1> QED
  BY <1>3, <1>11, <1>12, <1>13 DEF Field

------------------------------------------------------------------------------
(* What a form fixes, its word has                                         *)

AllFields ==
  {<<0, 0>>, <<0, 3>>, <<9, 3>>, <<0, 4>>, <<0, 6>>, <<6, 6>>, <<0, 8>>, <<6, 2>>, <<12, 2>>, <<8, 1>>, <<6, 1>>}

\* The part of a cut that a field has: all or nothing of it.
Taken(field, cut, x) == IF Apart(field, cut) THEN 0 ELSE x

JoinedIn(field, a, b, c, d, e, g, h, i, j) ==
  Joined(Taken(field, <<0, 3>>, a), Taken(field, <<3, 1>>, b), Taken(field, <<4, 2>>, c),
         Taken(field, <<6, 1>>, d), Taken(field, <<7, 1>>, e), Taken(field, <<8, 1>>, g),
         Taken(field, <<9, 3>>, h), Taken(field, <<12, 2>>, i), Taken(field, <<14, 2>>, j))

\* The bits of a field are those of its cuts.
LEMMA FieldOfCuts ==
  ASSUME NEW a \in Int, NEW b \in Int, NEW c \in Int, NEW d \in Int, NEW e \in Int, NEW g \in Int,
         NEW h \in Int, NEW i \in Int, NEW j \in Int, NEW word, word \in Nat, CutInto(word, a, b, c, d, e, g, h, i, j)
  PROVE  \A field \in AllFields : InField(word, field) = JoinedIn(field, a, b, c, d, e, g, h, i, j)
<1> SUFFICES ASSUME NEW field \in AllFields
             PROVE  InField(word, field) = JoinedIn(field, a, b, c, d, e, g, h, i, j)
  OBVIOUS
<1>1. /\ Field(word, 0, 3) = a /\ Field(word, 3, 1) = b /\ Field(word, 4, 2) = c
      /\ Field(word, 6, 1) = d /\ Field(word, 7, 1) = e /\ Field(word, 8, 1) = g
      /\ Field(word, 9, 3) = h /\ Field(word, 12, 2) = i /\ Field(word, 14, 2) = j
      /\ Field(word, 6, 2) = d + 2 * e /\ Field(word, 3, 3) = b + 2 * c
      /\ Field(word, 0, 4) = a + 8 * b /\ Field(word, 0, 6) = a + 8 * b + 16 * c
      /\ Field(word, 6, 6) = d + 2 * e + 4 * g + 8 * h
      /\ Field(word, 0, 8) = a + 8 * b + 16 * c + 64 * d + 128 * e
  BY CutFields
<1>2. CASE field = <<0, 0>>
  <2>1. InField(word, field) = 0
    BY <1>2, NoFieldEmpty DEF NoField
  <2> QED
    BY <1>2, <2>1 DEF CutInto, Joined, JoinedIn, Taken, Apart
<1>3. CASE field = <<0, 3>>
  BY <1>1, <1>3, BitsAre DEF CutInto, InField, Joined, JoinedIn, Taken, Apart
<1>4. CASE field = <<9, 3>>
  BY <1>1, <1>4, BitsAre DEF CutInto, InField, Joined, JoinedIn, Taken, Apart
<1>5. CASE field = <<0, 4>>
  BY <1>1, <1>5, BitsAre DEF CutInto, InField, Joined, JoinedIn, Taken, Apart
<1>6. CASE field = <<0, 6>>
  BY <1>1, <1>6, BitsAre DEF CutInto, InField, Joined, JoinedIn, Taken, Apart
<1>7. CASE field = <<6, 6>>
  BY <1>1, <1>7, BitsAre DEF CutInto, InField, Joined, JoinedIn, Taken, Apart
<1>8. CASE field = <<0, 8>>
  BY <1>1, <1>8, BitsAre DEF CutInto, InField, Joined, JoinedIn, Taken, Apart
<1>9. CASE field = <<6, 2>>
  BY <1>1, <1>9, BitsAre DEF CutInto, InField, Joined, JoinedIn, Taken, Apart
<1>10. CASE field = <<12, 2>>
  BY <1>1, <1>10, BitsAre DEF CutInto, InField, Joined, JoinedIn, Taken, Apart
<1>11. CASE field = <<8, 1>>
  BY <1>1, <1>11, BitsAre DEF CutInto, InField, Joined, JoinedIn, Taken, Apart
<1>12. CASE field = <<6, 1>>
  BY <1>1, <1>12, BitsAre DEF CutInto, InField, Joined, JoinedIn, Taken, Apart
<1> QED
  BY <1>2, <1>3, <1>4, <1>5, <1>6, <1>7, <1>8, <1>9, <1>10, <1>11, <1>12 DEF AllFields

\* A field and a cut are pairs of numbers, and a field has all of a cut or nothing.
LEMMA FieldHoldsCut ==
  ASSUME NEW field \in AllFields, NEW cut \in Cuts
  PROVE  /\ field[1] \in Int /\ field[2] \in Int /\ cut[1] \in Int /\ cut[2] \in Int /\ cut[2] >= 1
         /\ Apart(field, cut) \/ (field[1] <= cut[1] /\ cut[1] + cut[2] <= field[1] + field[2])
BY DEF AllFields, Cuts, Apart

\* Fields that lie apart do not share a cut.
LEMMA TakenOnce ==
  ASSUME NEW field \in AllFields, NEW other \in AllFields, Apart(field, other), NEW cut \in Cuts
  PROVE  Apart(field, cut) \/ Apart(other, cut)
<1>1. PICK m \in Int, n \in Int : m = field[1] /\ n = field[2]
  BY FieldHoldsCut
<1>2. PICK x \in Int, y \in Int : x = other[1] /\ y = other[2]
  BY FieldHoldsCut
<1>3. PICK u \in Int, v \in Int : u = cut[1] /\ v = cut[2] /\ v >= 1
  BY FieldHoldsCut
<1>4. Apart(field, cut) \/ (m <= u /\ u + v <= m + n)
  BY <1>1, <1>3, FieldHoldsCut
<1>5. Apart(other, cut) \/ (x <= u /\ u + v <= x + y)
  BY <1>2, <1>3, FieldHoldsCut
<1>6. m + n <= x \/ x + y <= m
  BY <1>1, <1>2 DEF Apart
<1> QED
  BY <1>3, <1>4, <1>5, <1>6

\* The fields of a form.
LEMMA FormFields ==
  ASSUME NEW f \in SET
  PROVE  /\ SizeField(f.size) \in AllFields /\ FieldOf(f, 1) \in AllFields /\ FieldOf(f, 2) \in AllFields
         /\ Apart(SizeField(f.size), FieldOf(f, 1)) /\ Apart(SizeField(f.size), FieldOf(f, 2))
         /\ Apart(FieldOf(f, 1), FieldOf(f, 2))
<1>1. SizeField(f.size) \in AllFields
  BY DEF SizeField, AllFields, NoField
<1> QED
  BY <1>1, FieldsLieApart DEF AllFields, NoField

\* What is left of a cut without the fields of a form.
LeftOf(f, cut, x) == IF Fixes(f, cut) THEN x ELSE 0

LEMMA LeftIs ==
  ASSUME NEW f \in SET, NEW cut \in Cuts, NEW x \in Int
  PROVE  /\ LeftOf(f, cut, x)
              = x - Taken(SizeField(f.size), cut, x) - Taken(FieldOf(f, 1), cut, x) - Taken(FieldOf(f, 2), cut, x)
         /\ LeftOf(f, cut, x) \in Int
         /\ Taken(SizeField(f.size), cut, x) \in Int /\ Taken(FieldOf(f, 1), cut, x) \in Int
         /\ Taken(FieldOf(f, 2), cut, x) \in Int
<1>1. PICK sized : sized = SizeField(f.size)
  OBVIOUS
<1>2. PICK one : one = FieldOf(f, 1)
  OBVIOUS
<1>3. PICK two : two = FieldOf(f, 2)
  OBVIOUS
<1>4. /\ sized \in AllFields /\ one \in AllFields /\ two \in AllFields
      /\ Apart(sized, one) /\ Apart(sized, two) /\ Apart(one, two)
  BY <1>1, <1>2, <1>3, FormFields
<1>5. /\ Apart(sized, cut) \/ Apart(one, cut)
      /\ Apart(sized, cut) \/ Apart(two, cut)
      /\ Apart(one, cut) \/ Apart(two, cut)
  BY <1>4, TakenOnce
<1>6. Fixes(f, cut) <=> Apart(sized, cut) /\ Apart(one, cut) /\ Apart(two, cut)
  <2>1. ASSUME NEW field \in AllFields PROVE Apart(cut, field) <=> Apart(field, cut)
    <3>1. /\ field[1] \in Int /\ field[2] \in Int /\ cut[1] \in Int /\ cut[2] \in Int
      BY FieldHoldsCut
    <3> QED
      BY <3>1 DEF Apart
  <2> QED
    BY <1>1, <1>2, <1>3, <1>4, <2>1 DEF Fixes
<1> QED
  BY <1>1, <1>2, <1>3, <1>5, <1>6 DEF LeftOf, Taken

\* The cuts that none of its fields has are those of its base.
LEMMA BaseIsCut ==
  ASSUME NEW f \in SET, NEW word \in Nat, FixedPart(word, f) = f.base,
         NEW a \in Int, NEW b \in Int, NEW c \in Int, NEW d \in Int, NEW e \in Int, NEW g \in Int,
         NEW h \in Int, NEW i \in Int, NEW j \in Int, CutInto(word, a, b, c, d, e, g, h, i, j)
  PROVE  CutInto(f.base, LeftOf(f, <<0, 3>>, a), LeftOf(f, <<3, 1>>, b), LeftOf(f, <<4, 2>>, c),
                         LeftOf(f, <<6, 1>>, d), LeftOf(f, <<7, 1>>, e), LeftOf(f, <<8, 1>>, g),
                         LeftOf(f, <<9, 3>>, h), LeftOf(f, <<12, 2>>, i), LeftOf(f, <<14, 2>>, j))
<1>1. PICK sized : sized = SizeField(f.size)
  OBVIOUS
<1>2. PICK one : one = FieldOf(f, 1)
  OBVIOUS
<1>3. PICK two : two = FieldOf(f, 2)
  OBVIOUS
<1>4. sized \in AllFields /\ one \in AllFields /\ two \in AllFields
  BY <1>1, <1>2, <1>3, FormFields
<1>5. f.base = word - InField(word, sized) - InField(word, one) - InField(word, two)
  BY <1>1, <1>2, <1>3 DEF FixedPart
<1>6. \A cut \in Cuts, x \in Int :
        /\ LeftOf(f, cut, x) = x - Taken(sized, cut, x) - Taken(one, cut, x) - Taken(two, cut, x)
        /\ Taken(sized, cut, x) \in Int /\ Taken(one, cut, x) \in Int /\ Taken(two, cut, x) \in Int
  BY <1>1, <1>2, <1>3, LeftIs
<1>7. /\ <<0, 3>> \in Cuts /\ <<3, 1>> \in Cuts /\ <<4, 2>> \in Cuts /\ <<6, 1>> \in Cuts /\ <<7, 1>> \in Cuts
      /\ <<8, 1>> \in Cuts /\ <<9, 3>> \in Cuts /\ <<12, 2>> \in Cuts /\ <<14, 2>> \in Cuts
  BY DEF Cuts
<1>8. \A field \in AllFields : InField(word, field) = JoinedIn(field, a, b, c, d, e, g, h, i, j)
  BY FieldOfCuts
<1>9. f.base = Joined(LeftOf(f, <<0, 3>>, a), LeftOf(f, <<3, 1>>, b), LeftOf(f, <<4, 2>>, c),
                      LeftOf(f, <<6, 1>>, d), LeftOf(f, <<7, 1>>, e), LeftOf(f, <<8, 1>>, g),
                      LeftOf(f, <<9, 3>>, h), LeftOf(f, <<12, 2>>, i), LeftOf(f, <<14, 2>>, j))
  <2>1. /\ LeftOf(f, <<0, 3>>, a) = a - Taken(sized, <<0, 3>>, a) - Taken(one, <<0, 3>>, a) - Taken(two, <<0, 3>>, a)
        /\ LeftOf(f, <<3, 1>>, b) = b - Taken(sized, <<3, 1>>, b) - Taken(one, <<3, 1>>, b) - Taken(two, <<3, 1>>, b)
        /\ LeftOf(f, <<4, 2>>, c) = c - Taken(sized, <<4, 2>>, c) - Taken(one, <<4, 2>>, c) - Taken(two, <<4, 2>>, c)
        /\ LeftOf(f, <<6, 1>>, d) = d - Taken(sized, <<6, 1>>, d) - Taken(one, <<6, 1>>, d) - Taken(two, <<6, 1>>, d)
        /\ LeftOf(f, <<7, 1>>, e) = e - Taken(sized, <<7, 1>>, e) - Taken(one, <<7, 1>>, e) - Taken(two, <<7, 1>>, e)
        /\ LeftOf(f, <<8, 1>>, g) = g - Taken(sized, <<8, 1>>, g) - Taken(one, <<8, 1>>, g) - Taken(two, <<8, 1>>, g)
        /\ LeftOf(f, <<9, 3>>, h) = h - Taken(sized, <<9, 3>>, h) - Taken(one, <<9, 3>>, h) - Taken(two, <<9, 3>>, h)
        /\ LeftOf(f, <<12, 2>>, i) = i - Taken(sized, <<12, 2>>, i) - Taken(one, <<12, 2>>, i) - Taken(two, <<12, 2>>, i)
        /\ LeftOf(f, <<14, 2>>, j) = j - Taken(sized, <<14, 2>>, j) - Taken(one, <<14, 2>>, j) - Taken(two, <<14, 2>>, j)
    BY <1>6, <1>7, Zenon
  <2>2. /\ Taken(sized, <<0, 3>>, a) \in Int
        /\ Taken(sized, <<3, 1>>, b) \in Int
        /\ Taken(sized, <<4, 2>>, c) \in Int
        /\ Taken(sized, <<6, 1>>, d) \in Int
        /\ Taken(sized, <<7, 1>>, e) \in Int
        /\ Taken(sized, <<8, 1>>, g) \in Int
        /\ Taken(sized, <<9, 3>>, h) \in Int
        /\ Taken(sized, <<12, 2>>, i) \in Int
        /\ Taken(sized, <<14, 2>>, j) \in Int
    BY <1>6, <1>7, Zenon
  <2>3. /\ Taken(one, <<0, 3>>, a) \in Int
        /\ Taken(one, <<3, 1>>, b) \in Int
        /\ Taken(one, <<4, 2>>, c) \in Int
        /\ Taken(one, <<6, 1>>, d) \in Int
        /\ Taken(one, <<7, 1>>, e) \in Int
        /\ Taken(one, <<8, 1>>, g) \in Int
        /\ Taken(one, <<9, 3>>, h) \in Int
        /\ Taken(one, <<12, 2>>, i) \in Int
        /\ Taken(one, <<14, 2>>, j) \in Int
    BY <1>6, <1>7, Zenon
  <2>4. /\ Taken(two, <<0, 3>>, a) \in Int
        /\ Taken(two, <<3, 1>>, b) \in Int
        /\ Taken(two, <<4, 2>>, c) \in Int
        /\ Taken(two, <<6, 1>>, d) \in Int
        /\ Taken(two, <<7, 1>>, e) \in Int
        /\ Taken(two, <<8, 1>>, g) \in Int
        /\ Taken(two, <<9, 3>>, h) \in Int
        /\ Taken(two, <<12, 2>>, i) \in Int
        /\ Taken(two, <<14, 2>>, j) \in Int
    BY <1>6, <1>7, Zenon
  <2>5. InField(word, sized) = JoinedIn(sized, a, b, c, d, e, g, h, i, j)
    BY <1>4, <1>8, Zenon
  <2>6. InField(word, one) = JoinedIn(one, a, b, c, d, e, g, h, i, j)
    BY <1>4, <1>8, Zenon
  <2>7. InField(word, two) = JoinedIn(two, a, b, c, d, e, g, h, i, j)
    BY <1>4, <1>8, Zenon
  <2> QED
    BY <1>5, <2>1, <2>2, <2>3, <2>4, <2>5, <2>6, <2>7 DEF CutInto, Joined, JoinedIn
<1>10. f.base \in Int
  BY RowsAreWellFormed, WordIsInt
<1> QED
  BY <1>9, <1>10 DEF CutInto, LeftOf

\* A form that fixes a field fixes every part of it.
LEMMA FixesPart ==
  ASSUME NEW f \in SET
  PROVE  /\ Fixes(f, <<6, 2>>) => Fixes(f, <<6, 1>>) /\ Fixes(f, <<7, 1>>)
         /\ Fixes(f, <<3, 3>>) => Fixes(f, <<3, 1>>) /\ Fixes(f, <<4, 2>>)
<1>1. ASSUME NEW field \in AllFields
      PROVE  /\ Apart(<<6, 2>>, field) => Apart(<<6, 1>>, field) /\ Apart(<<7, 1>>, field)
             /\ Apart(<<3, 3>>, field) => Apart(<<3, 1>>, field) /\ Apart(<<4, 2>>, field)
  <2>1. PICK m \in Int, n \in Int : m = field[1] /\ n = field[2]
    BY FieldHoldsCut DEF Cuts
  <2> QED
    BY <2>1 DEF Apart
<1> QED
  BY <1>1, FormFields DEF Fixes

\* A form's word has what the form fixes.
LEMMA FixedKept ==
  ASSUME NEW f \in SET, NEW word \in Word16, FixedPart(word, f) = f.base,
         NEW field \in Cuts \cup {<<6, 2>>, <<3, 3>>}, Fixes(f, field)
  PROVE  Field(word, field[1], field[2]) = BaseHas(f, field)
<1>1. word \in Nat
  BY WordIsInt
<1>2. PICK a, b, c, d, e, g, h, i, j \in Int : CutInto(word, a, b, c, d, e, g, h, i, j)
  BY WordIsCut
<1>3. /\ Field(word, 0, 3) = a /\ Field(word, 3, 1) = b /\ Field(word, 4, 2) = c
      /\ Field(word, 6, 1) = d /\ Field(word, 7, 1) = e /\ Field(word, 8, 1) = g
      /\ Field(word, 9, 3) = h /\ Field(word, 12, 2) = i /\ Field(word, 14, 2) = j
      /\ Field(word, 6, 2) = d + 2 * e /\ Field(word, 3, 3) = b + 2 * c
  BY <1>2, CutFields
<1>4. PICK aa : aa = LeftOf(f, <<0, 3>>, a)
  OBVIOUS
<1>5. PICK bb : bb = LeftOf(f, <<3, 1>>, b)
  OBVIOUS
<1>6. PICK cc : cc = LeftOf(f, <<4, 2>>, c)
  OBVIOUS
<1>7. PICK dd : dd = LeftOf(f, <<6, 1>>, d)
  OBVIOUS
<1>8. PICK ee : ee = LeftOf(f, <<7, 1>>, e)
  OBVIOUS
<1>9. PICK gg : gg = LeftOf(f, <<8, 1>>, g)
  OBVIOUS
<1>10. PICK hh : hh = LeftOf(f, <<9, 3>>, h)
  OBVIOUS
<1>11. PICK ii : ii = LeftOf(f, <<12, 2>>, i)
  OBVIOUS
<1>12. PICK jj : jj = LeftOf(f, <<14, 2>>, j)
  OBVIOUS
<1>13. CutInto(f.base, aa, bb, cc, dd, ee, gg, hh, ii, jj)
  BY <1>1, <1>2, <1>4, <1>5, <1>6, <1>7, <1>8, <1>9, <1>10, <1>11, <1>12, BaseIsCut
<1>14. /\ aa \in Int /\ bb \in Int /\ cc \in Int /\ dd \in Int /\ ee \in Int /\ gg \in Int
       /\ hh \in Int /\ ii \in Int /\ jj \in Int
  BY <1>13 DEF CutInto
<1>15. /\ BaseHas(f, <<0, 3>>) = aa /\ BaseHas(f, <<3, 1>>) = bb /\ BaseHas(f, <<4, 2>>) = cc
       /\ BaseHas(f, <<6, 1>>) = dd /\ BaseHas(f, <<7, 1>>) = ee /\ BaseHas(f, <<8, 1>>) = gg
       /\ BaseHas(f, <<9, 3>>) = hh /\ BaseHas(f, <<12, 2>>) = ii /\ BaseHas(f, <<14, 2>>) = jj
       /\ BaseHas(f, <<6, 2>>) = dd + 2 * ee /\ BaseHas(f, <<3, 3>>) = bb + 2 * cc
  BY <1>13, <1>14, CutFields DEF BaseHas
<1>16. \A cut, x : Fixes(f, cut) => LeftOf(f, cut, x) = x
  BY DEF LeftOf
<1>17. /\ Fixes(f, <<0, 3>>) => BaseHas(f, <<0, 3>>) = Field(word, 0, 3)
       /\ Fixes(f, <<3, 1>>) => BaseHas(f, <<3, 1>>) = Field(word, 3, 1)
       /\ Fixes(f, <<4, 2>>) => BaseHas(f, <<4, 2>>) = Field(word, 4, 2)
       /\ Fixes(f, <<6, 1>>) => BaseHas(f, <<6, 1>>) = Field(word, 6, 1)
       /\ Fixes(f, <<7, 1>>) => BaseHas(f, <<7, 1>>) = Field(word, 7, 1)
       /\ Fixes(f, <<8, 1>>) => BaseHas(f, <<8, 1>>) = Field(word, 8, 1)
       /\ Fixes(f, <<9, 3>>) => BaseHas(f, <<9, 3>>) = Field(word, 9, 3)
       /\ Fixes(f, <<12, 2>>) => BaseHas(f, <<12, 2>>) = Field(word, 12, 2)
       /\ Fixes(f, <<14, 2>>) => BaseHas(f, <<14, 2>>) = Field(word, 14, 2)
  BY <1>3, <1>4, <1>5, <1>6, <1>7, <1>8, <1>9, <1>10, <1>11, <1>12, <1>15, <1>16
<1>18. /\ Fixes(f, <<6, 2>>) => BaseHas(f, <<6, 2>>) = Field(word, 6, 2)
       /\ Fixes(f, <<3, 3>>) => BaseHas(f, <<3, 3>>) = Field(word, 3, 3)
  <2>1. Fixes(f, <<6, 2>>) => Fixes(f, <<6, 1>>) /\ Fixes(f, <<7, 1>>)
    BY FixesPart
  <2>2. Fixes(f, <<3, 3>>) => Fixes(f, <<3, 1>>) /\ Fixes(f, <<4, 2>>)
    BY FixesPart
  <2> QED
    BY <1>3, <1>5, <1>6, <1>7, <1>8, <1>15, <1>16, <2>1, <2>2
<1> QED
  BY <1>17, <1>18 DEF Cuts

------------------------------------------------------------------------------
(* Two forms of one word are alike                                         *)

\* The word is one of a form's, its size and its modes such as the form has.
Matches(f, word) ==
  /\ f \in SET /\ word \in Word16
  /\ FixedPart(word, f) = f.base /\ m68k_size(f.size, word) # "none" /\ EaAllowed(f, word)

\* Two forms of one word fix no bit differently.
LEMMA SameBits ==
  ASSUME NEW f, NEW g, NEW word, Matches(f, word), Matches(g, word)
  PROVE  ~OtherBits(f, g)
<1>1. SUFFICES ASSUME NEW cut \in Cuts, Fixes(f, cut), Fixes(g, cut) PROVE BaseHas(f, cut) = BaseHas(g, cut)
  BY DEF OtherBits
<1>2. /\ f \in SET /\ g \in SET /\ word \in Word16 /\ FixedPart(word, f) = f.base /\ FixedPart(word, g) = g.base
  BY DEF Matches
<1>3. Field(word, cut[1], cut[2]) = BaseHas(f, cut)
  BY <1>1, <1>2, FixedKept
<1>4. Field(word, cut[1], cut[2]) = BaseHas(g, cut)
  BY <1>1, <1>2, FixedKept
<1> QED
  BY <1>3, <1>4

\* The size of one form is not ruled out by the other.
LEMMA SomeSize ==
  ASSUME NEW f, NEW g, NEW word, Matches(f, word), Matches(g, word)
  PROVE  ~NoSuchSize(f, g)
<1>1. /\ g \in SET /\ word \in Word16 /\ FixedPart(word, g) = g.base /\ m68k_size(f.size, word) # "none"
  BY DEF Matches
<1>2. ~(f.size = "Std6" /\ Fixes(g, <<6, 2>>) /\ BaseHas(g, <<6, 2>>) = 3)
  <2>1. SUFFICES ASSUME f.size = "Std6", Fixes(g, <<6, 2>>), BaseHas(g, <<6, 2>>) = 3 PROVE FALSE
    OBVIOUS
  <2>2. PICK field : field = <<6, 2>>
    OBVIOUS
  <2>3. Field(word, field[1], field[2]) = BaseHas(g, field)
    BY <1>1, <2>1, <2>2, FixedKept
  <2>4. Field(word, 6, 2) = 3
    BY <2>1, <2>2, <2>3
  <2>5. m68k_size(f.size, word) = <<"B", "W", "L", "none">>[3 + 1]
    BY <2>1, <2>4, Zenon DEF m68k_size
  <2> QED
    BY <1>1, <2>5
<1>3. ~(f.size = "Move" /\ Fixes(g, <<12, 2>>) /\ BaseHas(g, <<12, 2>>) = 0)
  <2>1. SUFFICES ASSUME f.size = "Move", Fixes(g, <<12, 2>>), BaseHas(g, <<12, 2>>) = 0 PROVE FALSE
    OBVIOUS
  <2>2. PICK field : field = <<12, 2>> /\ field \in Cuts
    BY DEF Cuts
  <2>3. Field(word, field[1], field[2]) = BaseHas(g, field)
    BY <1>1, <2>1, <2>2, FixedKept
  <2>4. Field(word, 12, 2) = 0
    BY <2>1, <2>2, <2>3
  <2>5. m68k_size(f.size, word) = <<"none", "B", "L", "W">>[0 + 1]
    BY <2>1, <2>4, Zenon DEF m68k_size
  <2> QED
    BY <1>1, <2>5
<1> QED
  BY <1>2, <1>3 DEF NoSuchSize

\* Nor is its mode.
LEMMA SomeMode ==
  ASSUME NEW f, NEW g, NEW word, Matches(f, word), Matches(g, word)
  PROVE  ~NoSuchMode(f, g)
<1>1. /\ f \in SET /\ g \in SET /\ word \in Word16 /\ word \in Nat
      /\ FixedPart(word, g) = g.base /\ EaAllowed(f, word)
  BY WordIsInt DEF Matches
<1>2. SUFFICES ASSUME NEW s \in DOMAIN f.operands, f.operands[s].kind = "Ea", Fixes(g, <<3, 3>>),
                      \A reg \in 0..7 : (Fixes(g, <<0, 3>>) => reg = BaseHas(g, <<0, 3>>)) =>
                        ModeName(BaseHas(g, <<3, 3>>), reg) \notin f.operands[s].modes
               PROVE  FALSE
  BY DEF NoSuchMode
<1>3. PICK slot \in OperandSlot : slot = f.operands[s]
  BY <1>1, SlotTyped
<1>4. slot.kind = "Ea" /\ slot.shift = 0
  BY <1>1, <1>2, <1>3, FieldsLieApart
<1>5. IsEa(slot)
  BY <1>4 DEF IsEa
<1>6. ModeOf(slot, word) \in slot.modes
  BY <1>1, <1>3, <1>5, Zenon DEF EaAllowed
<1>7. PICK m \in 0..7, r \in 0..7 : ModeOf(slot, word) = ModeName(m, r) /\ Field(word, 0, 6) = 8 * m + r
  <2>1. \E m \in 0..7, r \in 0..7 :
          /\ ModeOf(slot, word) = ModeName(m, r)
          /\ Field(word, slot.shift, 6) = IF slot.kind = "Dest" THEN 8 * r + m ELSE 8 * m + r
    BY <1>1, ModeIs
  <2> QED
    BY <1>4, <2>1
<1>8. Field(word, 3, 3) = m /\ Field(word, 0, 3) = r
  <2>1. PICK a, b, c, d, e, h, i, j, k \in Int : CutInto(word, a, b, c, d, e, h, i, j, k)
    BY <1>1, WordIsCut
  <2>2. Field(word, 0, 3) = a /\ Field(word, 3, 3) = b + 2 * c /\ Field(word, 0, 6) = a + 8 * b + 16 * c
    BY <2>1, CutFields
  <2>3. a \in 0..7 /\ b \in 0..1 /\ c \in 0..3
    BY <2>1 DEF CutInto
  <2>4. a + 8 * b + 16 * c = 8 * m + r
    BY <1>7, <2>2
  <2>5. a = r /\ b + 2 * c = m
    BY <1>7, <2>3, <2>4
  <2> QED
    BY <2>2, <2>5
<1>9. BaseHas(g, <<3, 3>>) = m
  <2>1. PICK field : field = <<3, 3>>
    OBVIOUS
  <2>2. Field(word, field[1], field[2]) = BaseHas(g, field)
    BY <1>1, <1>2, <2>1, FixedKept
  <2> QED
    BY <1>8, <2>1, <2>2
<1>10. Fixes(g, <<0, 3>>) => r = BaseHas(g, <<0, 3>>)
  <2>1. PICK field : field = <<0, 3>> /\ field \in Cuts
    BY DEF Cuts
  <2>2. Fixes(g, field) => Field(word, field[1], field[2]) = BaseHas(g, field)
    BY <1>1, <2>1, FixedKept
  <2> QED
    BY <1>8, <2>1, <2>2
<1>11. ModeName(m, r) \notin slot.modes
  BY <1>2, <1>3, <1>9, <1>10
<1> QED
  BY <1>6, <1>7, <1>11

\* So two forms of one word are alike.
LEMMA FormsOfAWord ==
  ASSUME NEW f, NEW g, NEW word, Matches(f, word), Matches(g, word), f # g
  PROVE  Alike(f, g)
<1>1. f \in SET /\ g \in SET
  BY DEF Matches
<1>2. /\ ~OtherBits(f, g) /\ ~NoSuchSize(f, g) /\ ~NoSuchSize(g, f) /\ ~NoSuchMode(f, g) /\ ~NoSuchMode(g, f)
  BY SameBits, SomeSize, SomeMode
<1> QED
  BY <1>1, <1>2, FormsDifferOrAreAlike

------------------------------------------------------------------------------
(* Forms whose slots are alike say the same                                *)

\* Slots that differ in their modes at most.
SlotAlike(slot, other) ==
  slot.kind = other.kind /\ slot.shift = other.shift /\ slot.kind \in {"Ea", "Dest", "Dn", "DispW"}

\* They read the same mode and as many words.
LEMMA AlikeRead ==
  ASSUME NEW slot, NEW other, SlotAlike(slot, other), NEW word, NEW size
  PROVE  /\ IsEa(slot) <=> IsEa(other)
         /\ ModeAndRegister(slot, word) = ModeAndRegister(other, word)
         /\ ModeOf(slot, word) = ModeOf(other, word)
         /\ ExtensionLen(slot, word, size) = ExtensionLen(other, word, size)
<1>1. IsEa(slot) <=> IsEa(other)
  BY DEF SlotAlike, IsEa
<1>2. ModeAndRegister(slot, word) = ModeAndRegister(other, word)
  BY DEF SlotAlike, ModeAndRegister
<1>3. ModeOf(slot, word) = ModeOf(other, word)
  BY <1>2 DEF ModeOf
<1>4. ExtensionLen(slot, word, size) = ExtensionLen(other, word, size)
  BY <1>1, <1>3 DEF ExtensionLen, SlotAlike
<1> QED
  BY <1>1, <1>2, <1>3, <1>4

\* The parts of two forms whose slots are alike.
FormsAlike(f, g) ==
  /\ f \in SET /\ g \in SET
  /\ f.base = g.base /\ f.size = g.size /\ Len(f.operands) = Len(g.operands)
  /\ SlotsAlike(f, g)

LEMMA FormsAlikeAre ==
  ASSUME NEW f, NEW g, FormsAlike(f, g)
  PROVE  /\ f \in SET /\ g \in SET /\ f.size = g.size /\ Len(f.operands) = Len(g.operands)
         /\ DOMAIN f.operands = DOMAIN g.operands
         /\ f.mnemonic \notin BitOperations /\ g.mnemonic \notin BitOperations
         /\ \A s \in DOMAIN f.operands : SlotAlike(f.operands[s], g.operands[s])
<1>1. /\ f \in SET /\ g \in SET /\ f.size = g.size /\ Len(f.operands) = Len(g.operands)
      /\ f.mnemonic \notin BitOperations /\ g.mnemonic \notin BitOperations
      /\ \A s \in DOMAIN f.operands : SlotAlike(f.operands[s], g.operands[s])
  BY Zenon DEF FormsAlike, SlotsAlike, SlotAlike
<1>2. PICK m \in 0..2 : DOMAIN f.operands = 1..m /\ Len(f.operands) = m
  BY <1>1, FormShape
<1>3. PICK n \in 0..2 : DOMAIN g.operands = 1..n /\ Len(g.operands) = n
  BY <1>1, FormShape
<1> QED
  BY <1>1, <1>2, <1>3

\* They are read alike.
LEMMA AlikePlaces ==
  ASSUME NEW f, NEW g, FormsAlike(f, g), NEW word, NEW s
  PROVE  /\ SlotLen(f, word, s) = SlotLen(g, word, s)
         /\ s \in DOMAIN f.operands => ExtensionAt(f, word, s) = ExtensionAt(g, word, s)
         /\ InstructionLen(f, word) = InstructionLen(g, word)
<1>1. /\ f.size = g.size /\ DOMAIN f.operands = DOMAIN g.operands
      /\ \A t \in DOMAIN f.operands : SlotAlike(f.operands[t], g.operands[t])
  BY FormsAlikeAre
<1>2. \A t : SlotLen(f, word, t) = SlotLen(g, word, t)
  <2> TAKE t
  <2>1. CASE t \in DOMAIN f.operands
    <3>1. PICK size : size = m68k_size(f.size, word) /\ size = m68k_size(g.size, word)
      BY <1>1
    <3>2. ExtensionLen(f.operands[t], word, size) = ExtensionLen(g.operands[t], word, size)
      BY <1>1, <2>1, AlikeRead
    <3> QED
      BY <1>1, <2>1, <3>1, <3>2, Zenon DEF SlotLen
  <2>2. CASE t \notin DOMAIN f.operands
    BY <1>1, <2>2, Zenon DEF SlotLen
  <2> QED
    BY <2>1, <2>2
<1>3. ASSUME s \in DOMAIN f.operands PROVE ExtensionAt(f, word, s) = ExtensionAt(g, word, s)
  <2>1. \A t \in DOMAIN f.operands : f.operands[t].kind = g.operands[t].kind
    BY <1>1 DEF SlotAlike
  <2>2. ReadBefore(f, s) = ReadBefore(g, s)
    BY <1>1, <1>3, <2>1 DEF ReadBefore
  <2>3. \A h : ExtensionAt(h, word, s)
                 = 2 + (IF 1 \in ReadBefore(h, s) THEN SlotLen(h, word, 1) ELSE 0)
                     + (IF 2 \in ReadBefore(h, s) THEN SlotLen(h, word, 2) ELSE 0)
    BY DEF ExtensionAt
  <2> QED
    BY <1>2, <2>2, <2>3
<1>4. \A h : InstructionLen(h, word) = 2 + SlotLen(h, word, 1) + SlotLen(h, word, 2)
  BY DEF InstructionLen
<1>5. InstructionLen(f, word) = InstructionLen(g, word)
  BY <1>2, <1>4
<1> QED
  BY <1>2, <1>3, <1>5

\* Their texts differ in the name.
LEMMA AlikeTexts ==
  ASSUME NEW f, NEW g, FormsAlike(f, g), NEW c, NEW p, NEW addr, NEW word, word = be16(c, p),
         NEW text, text = Instruction(f, c, p, addr), NEW other, other = Instruction(g, c, p, addr)
  PROVE  /\ text.suffix = other.suffix /\ DOMAIN text.operands = DOMAIN other.operands
         /\ \A s \in DOMAIN f.operands : text.operands[s] = other.operands[s]
<1>1. /\ f.size = g.size /\ DOMAIN f.operands = DOMAIN g.operands
      /\ f.mnemonic \notin BitOperations /\ g.mnemonic \notin BitOperations
      /\ \A s \in DOMAIN f.operands : SlotAlike(f.operands[s], g.operands[s])
  BY FormsAlikeAre
<1>2. /\ text.suffix = Suffix(f, word) /\ DOMAIN text.operands = DOMAIN f.operands
      /\ \A s \in DOMAIN f.operands : text.operands[s] = Operand(f, word, c, p, addr, s)
  BY TextIs
<1>3. /\ other.suffix = Suffix(g, word) /\ DOMAIN other.operands = DOMAIN g.operands
      /\ \A s \in DOMAIN g.operands : other.operands[s] = Operand(g, word, c, p, addr, s)
  BY TextIs
<1>4. Suffix(f, word) = Suffix(g, word)
  <2>1. ASSUME NEW h \in {f, g}, h.operands # <<>>, h.operands[1].kind = "BranchW" PROVE FALSE
    <3>1. h \in SET
      BY FormsAlikeAre
    <3>2. 1 \in DOMAIN h.operands
      BY <2>1, <3>1, FormShape
    <3> QED
      BY <1>1, <2>1, <3>2 DEF SlotAlike
  <2>2. /\ ~(f.operands # <<>> /\ f.operands[1].kind = "BranchW")
        /\ ~(g.operands # <<>> /\ g.operands[1].kind = "BranchW")
    BY <2>1
  <2> QED
    BY <1>1, <2>2, Zenon DEF Suffix
<1>5. ASSUME NEW s \in DOMAIN f.operands PROVE Operand(f, word, c, p, addr, s) = Operand(g, word, c, p, addr, s)
  <2>1. PICK at : at = ExtensionAt(f, word, s) /\ at = ExtensionAt(g, word, s)
    BY AlikePlaces
  <2>2. PICK q : q = p + at
    OBVIOUS
  <2>3. PICK from : from = ExtensionAddress(addr, at)
    OBVIOUS
  <2>4. PICK slot : slot = f.operands[s]
    OBVIOUS
  <2>5. PICK twin : twin = g.operands[s]
    OBVIOUS
  <2>6. SlotAlike(slot, twin)
    BY <1>1, <2>4, <2>5
  <2>7. /\ IsEa(slot) <=> IsEa(twin)
        /\ ModeAndRegister(slot, word) = ModeAndRegister(twin, word)
        /\ ModeOf(slot, word) = ModeOf(twin, word)
    BY <2>6, AlikeRead
  <2>8. OperandAt(f, word, c, q, from, addr, s) = OperandAt(g, word, c, q, from, addr, s)
    <3>1. CASE IsEa(slot)
      <4>1. OperandAt(f, word, c, q, from, addr, s)
              = render_ea(ModeOf(slot, word), ModeAndRegister(slot, word)[2], m68k_size(f.size, word), c, q, from)
        BY <2>4, <3>1, EaOperand
      <4>2. OperandAt(g, word, c, q, from, addr, s)
              = render_ea(ModeOf(twin, word), ModeAndRegister(twin, word)[2], m68k_size(g.size, word), c, q, from)
        BY <2>5, <2>7, <3>1, EaOperand
      <4> QED
        BY <1>1, <2>7, <4>1, <4>2
    <3>2. CASE slot.kind = "Dn"
      <4>1. twin.kind = "Dn" /\ twin.shift = slot.shift /\ ~IsEa(slot) /\ ~IsEa(twin)
        BY <2>6, <3>2 DEF SlotAlike, IsEa
      <4> QED
        BY <2>4, <2>5, <3>2, <4>1, Zenon DEF OperandAt
    <3>3. CASE slot.kind = "DispW"
      <4>1. twin.kind = "DispW" /\ ~IsEa(slot) /\ ~IsEa(twin)
        BY <2>6, <3>3 DEF SlotAlike, IsEa
      <4>2. slot.kind \notin {"Dn", "An", "-(An)", "(An)+"}
        BY <3>3
      <4> QED
        BY <2>4, <2>5, <3>3, <4>1, <4>2, Zenon DEF OperandAt
    <3> QED
      BY <2>6, <3>1, <3>2, <3>3 DEF SlotAlike, IsEa
  <2> QED
    BY <2>1, <2>2, <2>3, <2>8, Zenon DEF Operand
<1> QED
  BY <1>1, <1>2, <1>3, <1>4, <1>5

\* Slots that are alike take an operand alike, and lay it down alike.
LEMMA AlikeLaid ==
  ASSUME NEW slot, NEW other, SlotAlike(slot, other), NEW operand,
         operand.syntax \in SyntaxesOf(slot), operand.syntax \in SyntaxesOf(other),
         NEW size, NEW suffix, NEW list, NEW list2, NEW addr, NEW from
  PROVE  /\ InRange(slot, size, operand) <=> InRange(other, size, operand)
         /\ OperandWords(slot, operand, size, suffix, list, addr, from)
              = OperandWords(other, operand, size, suffix, list2, addr, from)
<1>1. IsEa(slot) <=> IsEa(other)
  BY DEF SlotAlike, IsEa
<1>2. slot.kind = other.kind /\ slot.kind \in {"Ea", "Dest", "Dn", "DispW"}
  BY DEF SlotAlike
<1>3. InRange(slot, size, operand) <=> InRange(other, size, operand)
  BY <1>1, <1>2 DEF InRange
<1>4. OperandWords(slot, operand, size, suffix, list, addr, from)
        = OperandWords(other, operand, size, suffix, list2, addr, from)
  BY <1>1, <1>2 DEF OperandWords
<1> QED
  BY <1>3, <1>4

\* The text of one form and that of another, of the same word.
TextsOf(c, p, f, g, word, addr, text, other, size) ==
  /\ FormsAlike(f, g)
  /\ TextOf(c, p, f, word, addr, text, size) /\ TextOf(c, p, g, word, addr, other, size)

LEMMA TextsAre ==
  ASSUME NEW c, NEW p, NEW f, NEW g, NEW word, NEW addr, NEW text, NEW other, NEW size,
         TextsOf(c, p, f, g, word, addr, text, other, size)
  PROVE  /\ FormsAlike(f, g) /\ DOMAIN f.operands = DOMAIN g.operands
         /\ TextOf(c, p, f, word, addr, text, size) /\ TextOf(c, p, g, word, addr, other, size)
         /\ text.suffix = other.suffix
         /\ \A s \in DOMAIN f.operands :
              /\ SlotAlike(f.operands[s], g.operands[s]) /\ text.operands[s] = other.operands[s]
              /\ text.operands[s].syntax \in SyntaxesOf(f.operands[s])
              /\ text.operands[s].syntax \in SyntaxesOf(g.operands[s])
<1>1. FormsAlike(f, g) /\ TextOf(c, p, f, word, addr, text, size) /\ TextOf(c, p, g, word, addr, other, size)
  BY DEF TextsOf
<1>2. /\ text = Instruction(f, c, p, addr) /\ other = Instruction(g, c, p, addr) /\ word = be16(c, p)
  BY <1>1, TextOfIs
<1>3. text.suffix = other.suffix /\ \A s \in DOMAIN f.operands : text.operands[s] = other.operands[s]
  BY <1>1, <1>2, AlikeTexts
<1>4. /\ DOMAIN f.operands = DOMAIN g.operands
      /\ \A s \in DOMAIN f.operands : SlotAlike(f.operands[s], g.operands[s])
  BY <1>1, FormsAlikeAre
<1>5. /\ \A s \in DOMAIN f.operands : text.operands[s].syntax \in SyntaxesOf(f.operands[s])
      /\ \A s \in DOMAIN g.operands : other.operands[s].syntax \in SyntaxesOf(g.operands[s])
  BY <1>1, TextSyntaxes
<1> QED
  BY <1>1, <1>3, <1>4, <1>5

\* They lay down the same words.
LEMMA AlikeWords ==
  ASSUME NEW c, NEW p, NEW f, NEW g, NEW word, NEW addr, NEW text, NEW other, NEW size,
         TextsOf(c, p, f, g, word, addr, text, other, size), NEW s
  PROVE  /\ \A from : WordsLaid(f, size, text, addr, from, s) = WordsLaid(g, size, other, addr, from, s)
         /\ s \in DOMAIN f.operands => LaidAt(f, size, text, addr, s) = LaidAt(g, size, other, addr, s)
         /\ WordsLaid(f, size, text, addr, LaidAt(f, size, text, addr, s), s)
              = WordsLaid(g, size, other, addr, LaidAt(g, size, other, addr, s), s)
<1>1. /\ DOMAIN f.operands = DOMAIN g.operands /\ text.suffix = other.suffix
      /\ \A t \in DOMAIN f.operands :
              /\ SlotAlike(f.operands[t], g.operands[t]) /\ text.operands[t] = other.operands[t]
              /\ text.operands[t].syntax \in SyntaxesOf(f.operands[t])
              /\ text.operands[t].syntax \in SyntaxesOf(g.operands[t])
  BY TextsAre
<1>2. \A t, from : WordsLaid(f, size, text, addr, from, t) = WordsLaid(g, size, other, addr, from, t)
  <2> TAKE t, from
  <2>1. CASE t \in DOMAIN f.operands
    <3>1. PICK list : list = ListMask(f, text)
      OBVIOUS
    <3>2. PICK list2 : list2 = ListMask(g, other)
      OBVIOUS
    <3>3. WordsLaid(f, size, text, addr, from, t)
            = OperandWords(f.operands[t], text.operands[t], size, text.suffix, list, addr, from)
      BY <2>1, <3>1, Zenon DEF WordsLaid
    <3>4. WordsLaid(g, size, other, addr, from, t)
            = OperandWords(g.operands[t], other.operands[t], size, other.suffix, list2, addr, from)
      BY <1>1, <2>1, <3>2, Zenon DEF WordsLaid
    <3>5. OperandWords(f.operands[t], text.operands[t], size, text.suffix, list, addr, from)
            = OperandWords(g.operands[t], text.operands[t], size, text.suffix, list2, addr, from)
      BY <1>1, <2>1, AlikeLaid
    <3> QED
      BY <1>1, <2>1, <3>3, <3>4, <3>5
  <2>2. CASE t \notin DOMAIN f.operands
    BY <1>1, <2>2, Zenon DEF WordsLaid
  <2> QED
    BY <2>1, <2>2
<1>3. ASSUME s \in DOMAIN f.operands PROVE LaidAt(f, size, text, addr, s) = LaidAt(g, size, other, addr, s)
  <2>1. \A t \in DOMAIN f.operands : f.operands[t].kind = g.operands[t].kind
    BY <1>1 DEF SlotAlike
  <2>2. LaidBefore(f, s) = LaidBefore(g, s)
    BY <1>1, <1>3, <2>1 DEF LaidBefore, IsEa
  <2>3. PICK m : m = 2 * Len(WordsLaid(f, size, text, addr, 0, 1)) /\ m = 2 * Len(WordsLaid(g, size, other, addr, 0, 1))
    BY <1>2
  <2>4. PICK n : n = 2 * Len(WordsLaid(f, size, text, addr, 0, 2)) /\ n = 2 * Len(WordsLaid(g, size, other, addr, 0, 2))
    BY <1>2
  <2>5. LaidAt(f, size, text, addr, s)
          = addr + 2 + (IF 1 \in LaidBefore(f, s) THEN m ELSE 0) + (IF 2 \in LaidBefore(f, s) THEN n ELSE 0)
    BY <2>3, <2>4, Zenon DEF LaidAt
  <2>6. LaidAt(g, size, other, addr, s)
          = addr + 2 + (IF 1 \in LaidBefore(g, s) THEN m ELSE 0) + (IF 2 \in LaidBefore(g, s) THEN n ELSE 0)
    BY <2>3, <2>4, Zenon DEF LaidAt
  <2> QED
    BY <2>2, <2>5, <2>6
<1>4. WordsLaid(f, size, text, addr, LaidAt(f, size, text, addr, s), s)
        = WordsLaid(g, size, other, addr, LaidAt(g, size, other, addr, s), s)
  <2>1. CASE s \in DOMAIN f.operands
    BY <1>2, <1>3, <2>1
  <2>2. CASE s \notin DOMAIN f.operands
    BY <1>1, <2>2, Zenon DEF WordsLaid
  <2> QED
    BY <2>1, <2>2
<1> QED
  BY <1>2, <1>3, <1>4

\* One is taken when the other is, and they assemble to the same bytes.
LEMMA AlikeAssembled ==
  ASSUME NEW c, NEW p, NEW f, NEW g, NEW word, NEW addr, NEW text, NEW other, NEW size,
         TextsOf(c, p, f, g, word, addr, text, other, size)
  PROVE  /\ Takes(f, size, text) <=> Takes(g, size, other)
         /\ Encoding(f, size, text, addr) = Encoding(g, size, other, addr)
<1>1. /\ FormsAlike(f, g)
      /\ TextOf(c, p, f, word, addr, text, size) /\ TextOf(c, p, g, word, addr, other, size)
      /\ DOMAIN f.operands = DOMAIN g.operands /\ text.suffix = other.suffix
      /\ \A t \in DOMAIN f.operands :
              /\ SlotAlike(f.operands[t], g.operands[t]) /\ text.operands[t] = other.operands[t]
              /\ text.operands[t].syntax \in SyntaxesOf(f.operands[t])
              /\ text.operands[t].syntax \in SyntaxesOf(g.operands[t])
  BY TextsAre
<1>2. /\ f \in SET /\ g \in SET /\ f.size = g.size
      /\ f.mnemonic \notin BitOperations /\ g.mnemonic \notin BitOperations
  BY <1>1, FormsAlikeAre
<1>3. Len(f.operands) = Len(text.operands) /\ Len(g.operands) = Len(other.operands)
  BY <1>1, TextOfIs, TextLong
<1>4. (\A s \in DOMAIN f.operands : InRange(f.operands[s], size, text.operands[s]))
        <=> (\A s \in DOMAIN g.operands : InRange(g.operands[s], size, other.operands[s]))
  <2>1. \A s \in DOMAIN f.operands :
          InRange(f.operands[s], size, text.operands[s]) <=> InRange(g.operands[s], size, text.operands[s])
    BY <1>1, AlikeLaid
  <2> QED
    BY <1>1, <2>1
<1>5. /\ ~(f.operands # <<>> /\ f.operands[1].kind = "BranchW")
      /\ ~(g.operands # <<>> /\ g.operands[1].kind = "BranchW")
  <2>1. ASSUME NEW h \in {f, g}, h.operands # <<>>, h.operands[1].kind = "BranchW" PROVE FALSE
    <3>1. 1 \in DOMAIN h.operands
      BY <1>2, <2>1, FormShape
    <3> QED
      BY <1>1, <2>1, <3>1 DEF SlotAlike
  <2> QED
    BY <2>1
<1>6. Takes(f, size, text) <=> Takes(g, size, other)
  <2>1. ASSUME NEW h \in {f, g}, ByteInWord(h) PROVE FALSE
    <3>1. h.operands # <<>> /\ h.operands[1].kind = "ImmWord"
      BY <2>1 DEF ByteInWord
    <3>2. 1 \in DOMAIN h.operands
      BY <1>2, <3>1, FormShape
    <3> QED
      BY <1>1, <3>1, <3>2 DEF SlotAlike
  <2>2. ~ByteInWord(f) /\ ~ByteInWord(g)
    BY <2>1
  <2> QED
    BY <1>1, <1>2, <1>3, <1>4, <1>5, <2>2, Zenon DEF Takes
<1>7. PICK a : /\ a = WordsLaid(f, size, text, addr, LaidAt(f, size, text, addr, 1), 1)
               /\ a = WordsLaid(g, size, other, addr, LaidAt(g, size, other, addr, 1), 1)
  BY AlikeWords
<1>8. PICK b : /\ b = WordsLaid(f, size, text, addr, LaidAt(f, size, text, addr, 2), 2)
               /\ b = WordsLaid(g, size, other, addr, LaidAt(g, size, other, addr, 2), 2)
  BY AlikeWords
<1>9. Encoding(f, size, text, addr) = WordBytes(InLaidOrder(f, <<word>>, a, b))
  <2>1. Encoding(f, size, text, addr)
          = WordBytes(InLaidOrder(f, <<word>>, WordsLaid(f, size, text, addr, LaidAt(f, size, text, addr, 1), 1),
                                               WordsLaid(f, size, text, addr, LaidAt(f, size, text, addr, 2), 2)))
    BY <1>1, EncodingParts
  <2> QED
    BY <1>7, <1>8, <2>1, Zenon
<1>10. Encoding(g, size, other, addr) = WordBytes(InLaidOrder(g, <<word>>, a, b))
  <2>1. Encoding(g, size, other, addr)
          = WordBytes(InLaidOrder(g, <<word>>, WordsLaid(g, size, other, addr, LaidAt(g, size, other, addr, 1), 1),
                                               WordsLaid(g, size, other, addr, LaidAt(g, size, other, addr, 2), 2)))
    BY <1>1, EncodingParts
  <2> QED
    BY <1>7, <1>8, <2>1, Zenon
<1>11. InLaidOrder(f, <<word>>, a, b) = InLaidOrder(g, <<word>>, a, b)
  <2>1. Swapped(f) <=> Swapped(g)
    <3>1. CASE 2 \in DOMAIN f.operands
      <4>1. 1 \in DOMAIN f.operands
        BY <1>2, <3>1, FormShape
      <4>2. (IsEa(f.operands[1]) <=> IsEa(g.operands[1])) /\ (IsEa(f.operands[2]) <=> IsEa(g.operands[2]))
        BY <1>1, <3>1, <4>1 DEF SlotAlike, IsEa
      <4> QED
        BY <1>1, <4>2 DEF Swapped
    <3>2. CASE 2 \notin DOMAIN f.operands
      BY <1>1, <3>2 DEF Swapped
    <3> QED
      BY <3>1, <3>2
  <2> QED
    BY <2>1, Zenon DEF InLaidOrder
<1> QED
  BY <1>6, <1>9, <1>10, <1>11, Zenon

\* Forms of registers alone are their opcode word.
LEMMA RegistersShort ==
  ASSUME NEW f, OnlyRegisters(f), NEW word
  PROVE  InstructionLen(f, word) = 2
<1>1. ASSUME NEW s PROVE SlotLen(f, word, s) = 0
  <2>1. CASE s \in DOMAIN f.operands
    <3>1. PICK slot : slot = f.operands[s]
      OBVIOUS
    <3>2. slot.kind \in {"Dn", "An"}
      BY <2>1, <3>1 DEF OnlyRegisters
    <3>3. ExtensionLen(slot, word, m68k_size(f.size, word)) = 0
      BY <3>2 DEF ExtensionLen, IsEa
    <3> QED
      BY <2>1, <3>1, <3>3, Zenon DEF SlotLen
  <2>2. CASE s \notin DOMAIN f.operands
    BY <2>2, Zenon DEF SlotLen
  <2> QED
    BY <2>1, <2>2
<1>2. SlotLen(f, word, 1) = 0 /\ SlotLen(f, word, 2) = 0
  BY <1>1
<1> QED
  BY <1>2 DEF InstructionLen

\* Registers alone say everything, in the opcode word.
LEMMA RegistersSaid ==
  ASSUME NEW c, NEW p, NEW f, NEW word, NEW addr, NEW text, NEW size, TextOf(c, p, f, word, addr, text, size),
         OnlyRegisters(f)
  PROVE  Takes(f, size, text) /\ Encoding(f, size, text, addr) = SubSeq(c, p + 1, p + 2)
<1>1. ASSUME NEW s \in DOMAIN f.operands PROVE SaidAt(f, word, c, p, text, s)
  <2>1. PICK slot : slot = f.operands[s]
    OBVIOUS
  <2>2. slot.kind \in {"Dn", "An"} /\ ~IsEa(slot)
    BY <2>1 DEF OnlyRegisters, IsEa
  <2>3. PICK operand : operand = text.operands[s]
    OBVIOUS
  <2>4. operand.syntax \in SyntaxesOf(slot)
    BY <2>1, <2>3, TextSyntaxes
  <2>5. SyntaxesOf(slot) = {slot.kind}
    BY <2>2 DEF SyntaxesOf, IsEa
  <2>6. operand.syntax \notin {"d8(An+Xn)", "d8(PC+Xn)", "list"}
    BY <2>2, <2>4, <2>5
  <2> QED
    BY <2>1, <2>2, <2>3, <2>6, Zenon DEF SaidAt, Says
<1>2. \A s \in DOMAIN f.operands : SaidAt(f, word, c, p, text, s)
  BY <1>1
<1>3. InstructionLen(f, word) = 2
  BY RegistersShort
<1>4. Encoding(f, size, text, addr) = SubSeq(c, p + 1, p + InstructionLen(f, word))
  BY <1>2, EncodingKept
<1>5. ~ByteInWord(f)
  <2>1. SUFFICES ASSUME ByteInWord(f) PROVE FALSE
    OBVIOUS
  <2>2. f.operands # <<>> /\ f.operands[1].kind = "ImmWord" /\ f \in SET
    BY <2>1, TextOfIs DEF ByteInWord
  <2>3. 1 \in DOMAIN f.operands
    BY <2>2, FormShape
  <2> QED
    BY <2>2, <2>3 DEF OnlyRegisters
<1>6. Takes(f, size, text)
  BY <1>2, <1>5, OwnForm
<1> QED
  BY <1>3, <1>4, <1>6

\* A reading of the buffer is a form that its word matches.
LEMMA ReadingMatches ==
  ASSUME NEW c \in Seq(Byte), NEW p \in Nat, p + 2 <= Len(c), NEW word, word = be16(c, p),
         NEW f \in Readings(c, p)
  PROVE  /\ Matches(f, word)
         /\ p + InstructionLen(f, word) <= Len(c) => Decoded(c, p, f, word)
<1>1. word \in Word16
  BY WordRead
<1>2. be16(c, p) \div 4096 \in 0..15
  BY <1>1, TopOfWord
<1>3. /\ f \in SET /\ FixedPart(word, f) = f.base /\ m68k_size(f.size, word) # "none"
      /\ EaAllowed(f, word) /\ ImmediateAllowed(f, word, c, p)
  BY <1>2, ReadingIs
<1> QED
  BY <1>1, <1>3 DEF Matches, Decoded

\* Two readings of one word have as many fixed bits, are as long and assemble to the same.
LEMMA ReadingsAgree ==
  ASSUME NEW c \in Seq(Byte), NEW p \in Nat, p + 2 <= Len(c), NEW word, word = be16(c, p),
         NEW f \in Readings(c, p), NEW g \in Readings(c, p), f # g, NEW addr \in Int,
         NEW line, line.text = Instruction(f, c, p, addr), line.addr = addr,
         NEW other, other.text = Instruction(g, c, p, addr), other.addr = addr
  PROVE  /\ FixedBits(f) = FixedBits(g)
         /\ InstructionLen(f, word) = InstructionLen(g, word)
         /\ p + InstructionLen(f, word) <= Len(c) => Assembled(line) = Assembled(other)
<1>1. Matches(f, word) /\ Matches(g, word)
  BY ReadingMatches
<1>2. Alike(f, g)
  BY <1>1, FormsOfAWord
<1>3. f \in SET /\ g \in SET /\ f.size = g.size
  BY <1>1, <1>2 DEF Matches, Alike
<1>4. SlotsAlike(f, g) => FormsAlike(f, g)
  BY <1>2, <1>3 DEF Alike, FormsAlike
<1>5. InstructionLen(f, word) = InstructionLen(g, word)
  <2>1. CASE SlotsAlike(f, g)
    BY <1>4, <2>1, AlikePlaces
  <2>2. CASE OnlyRegisters(f) /\ OnlyRegisters(g)
    BY <2>2, RegistersShort
  <2> QED
    BY <1>2, <2>1, <2>2 DEF Alike
<1>6. ASSUME p + InstructionLen(f, word) <= Len(c) PROVE Assembled(line) = Assembled(other)
  <2>1. Decoded(c, p, f, word) /\ Decoded(c, p, g, word)
    BY <1>5, <1>6, ReadingMatches
  <2>2. PICK size : size = m68k_size(f.size, word) /\ size = m68k_size(g.size, word)
    BY <1>3
  <2>3. TextOf(c, p, f, word, line.addr, line.text, size) /\ TextOf(c, p, g, word, other.addr, other.text, size)
    BY <2>1, <2>2, Zenon DEF TextOf, HasSize
  <2>4. /\ Assembled(line)
             = IF Takes(f, size, line.text) THEN {Encoding(f, size, line.text, line.addr)} ELSE {}
        /\ Assembled(other)
             = IF Takes(g, size, other.text) THEN {Encoding(g, size, other.text, other.addr)} ELSE {}
    BY <2>3, AssembledIs
  <2>5. /\ Takes(f, size, line.text) <=> Takes(g, size, other.text)
        /\ Encoding(f, size, line.text, line.addr) = Encoding(g, size, other.text, other.addr)
    <3>1. CASE SlotsAlike(f, g)
      <4>1. TextsOf(c, p, f, g, word, addr, line.text, other.text, size)
        BY <1>4, <2>3, <3>1, Zenon DEF TextsOf
      <4> QED
        BY <4>1, AlikeAssembled
    <3>2. CASE OnlyRegisters(f) /\ OnlyRegisters(g)
      BY <2>3, <3>2, RegistersSaid
    <3> QED
      BY <1>2, <3>1, <3>2 DEF Alike
  <2> QED
    BY <2>4, <2>5, Zenon
<1> QED
  BY <1>2, <1>5, <1>6 DEF Alike

\* Wherever a sweep of any buffer stops, the forms that match its word have
\* equally many fixed bits, are equally long, and their texts assemble to the
\* same bytes: the most specific form has nothing to win.
THEOREM OneReadingHolds == Spec => []OneReading
<1>1. TypeOK => OneReading
  <2> SUFFICES ASSUME TypeOK, pos + 2 <= Len(code),
                      NEW f \in Readings(code, pos), NEW g \in Readings(code, pos)
               PROVE  LET word == be16(code, pos)
                          addr == WrapAddress(origin + pos)
                      IN  /\ FixedBits(f) = FixedBits(g)
                          /\ InstructionLen(f, word) = InstructionLen(g, word)
                          /\ f # g /\ pos + InstructionLen(f, word) <= Len(code) =>
                               Assembled([text |-> Instruction(f, code, pos, addr), addr |-> addr])
                                 = Assembled([text |-> Instruction(g, code, pos, addr), addr |-> addr])
    BY DEF OneReading
  <2>1. code \in Seq(Byte) /\ pos \in Nat /\ origin + pos \in Int
    BY OriginIsInt
  <2>2. PICK addr \in Int : addr = WrapAddress(origin + pos)
    BY <2>1, AddressIsInt
  <2>3. PICK word : word = be16(code, pos)
    OBVIOUS
  <2>4. CASE f = g
    BY <2>4
  <2>5. CASE f # g
    <3>1. PICK line : line = [text |-> Instruction(f, code, pos, addr), addr |-> addr]
      OBVIOUS
    <3>2. PICK other : other = [text |-> Instruction(g, code, pos, addr), addr |-> addr]
      OBVIOUS
    <3>3. /\ line.text = Instruction(f, code, pos, addr) /\ line.addr = addr
          /\ other.text = Instruction(g, code, pos, addr) /\ other.addr = addr
      BY <3>1, <3>2
    <3>4. /\ FixedBits(f) = FixedBits(g)
          /\ InstructionLen(f, word) = InstructionLen(g, word)
          /\ pos + InstructionLen(f, word) <= Len(code) => Assembled(line) = Assembled(other)
      BY <2>1, <2>3, <2>5, <3>3, ReadingsAgree
    <3> QED
      BY <2>2, <2>3, <3>1, <3>2, <3>4, Zenon
  <2> QED
    BY <2>4, <2>5
<1> QED
  BY <1>1, TypeCorrect, PTL

==============================================================================
