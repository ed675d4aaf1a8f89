----------------------------- MODULE Disasm68000 -----------------------------
(***************************************************************************)
(* disassemble_68000: a sweep by words.  Of all the forms of the table     *)
(* that match the opcode word, the one with the most fixed bits is read;   *)
(* its operands are in fields of the word and in the extension words that  *)
(* follow it.  A word that is no instruction is listed as data, and so is  *)
(* an odd byte at the end.                                                 *)
(***************************************************************************)
EXTENDS M68000

CONSTANTS
  Codes,      \* the buffers disassembled
  Origins     \* the addresses they are loaded at

ASSUME CodesAreBytes == Codes \subseteq Seq(Byte)
Address == 0..(AddressSpace - 1)

ASSUME OriginsAreAddresses == Origins \subseteq Address

VARIABLES code, origin, pos, out

vars == <<code, origin, pos, out>>

------------------------------------------------------------------------------
(* decode_m68k: which form an opcode word is *)

\* The word at offset q, high byte first.
be16(c, q) == WordOf(c[q + 2], c[q + 1])

\* m68k_var_mask: the fields of a form, each its shift and its width.  They do
\* not overlap.
NoField == <<0, 0>>

SizeField(size) ==
  CASE size = "Std6" -> <<6, 2>> [] size = "Move" -> <<12, 2>>
    [] size = "WL8" -> <<8, 1>>  [] size = "WL6" -> <<6, 1>>
    [] OTHER -> NoField

SlotField(slot) ==
  CASE slot.kind \in {"Dn", "An", "Quick3", "-(An)", "(An)+"} -> <<slot.shift, 3>>
    [] slot.kind = "MovepDisp" -> <<0, 3>>
    [] slot.kind \in {"Quick8", "BranchW"} -> <<0, 8>>
    [] slot.kind = "Vec4" -> <<0, 4>>
    [] IsEa(slot) -> <<slot.shift, 6>>
    [] OTHER -> NoField

\* The field of slot s, of the up to two a form has.
FieldOf(f, s) == IF s \in DOMAIN f.operands THEN SlotField(f.operands[s]) ELSE NoField

\* The bits of a word in a field.
InField(word, field) == Bit(field[1]) * Field(word, field[1], field[2])

\* The word without its fields, and how many of its bits that leaves.
FixedPart(word, f) ==
  word - InField(word, SizeField(f.size)) - InField(word, FieldOf(f, 1)) - InField(word, FieldOf(f, 2))

FixedBits(f) == 16 - SizeField(f.size)[2] - FieldOf(f, 1)[2] - FieldOf(f, 2)[2]

\* Mutant: the sizes of MOVE are numbered like the others.
SizeInOrder(size, word) ==
  CASE size = "Std6" -> <<"B", "W", "L", "none">>[Field(word, 6, 2) + 1]
    [] size = "Move" -> <<"none", "B", "W", "L">>[Field(word, 12, 2) + 1]
    [] size = "WL8"  -> <<"W", "L">>[Field(word, 8, 1) + 1]
    [] size = "WL6"  -> <<"W", "L">>[Field(word, 6, 1) + 1]
    [] OTHER -> size

\* m68k_size: "none" where the bits of a size field name no size.
m68k_size(size, word) ==
  CASE size = "Std6" -> <<"B", "W", "L", "none">>[Field(word, 6, 2) + 1]
    [] size = "Move" -> <<"none", "B", "L", "W">>[Field(word, 12, 2) + 1]
    [] size = "WL8"  -> <<"W", "L">>[Field(word, 8, 1) + 1]
    [] size = "WL6"  -> <<"W", "L">>[Field(word, 6, 1) + 1]
    [] OTHER -> size

\* The mode and the register of an effective address; the destination of MOVE
\* has them the other way round.
ModeAndRegister(slot, word) ==
  LET field == Field(word, slot.shift, 6)
  IN  IF slot.kind = "Dest" THEN <<field % 8, field \div 8>> ELSE <<field \div 8, field % 8>>

ModeOf(slot, word) ==
  LET at == ModeAndRegister(slot, word)
  IN  ModeName(at[1], at[2])

\* Mutant: the modes of a slot are not looked at.
AnyModeAllowed(f, word) ==
  \A s \in DOMAIN f.operands :
    IsEa(f.operands[s]) =>
      LET mode == ModeOf(f.operands[s], word)
      IN  mode # "none" /\ ~(mode = "An" /\ m68k_size(f.size, word) = "B")

EaAllowed(f, word) ==
  \A s \in DOMAIN f.operands :
    IsEa(f.operands[s]) =>
      LET mode == ModeOf(f.operands[s], word)
      IN  /\ mode \in f.operands[s].modes
          /\ ~(mode = "An" /\ m68k_size(f.size, word) = "B")

\* The high byte of a byte-sized immediate is there and zero.
ImmediateAllowed(f, word, c, p) ==
  (m68k_size(f.size, word) = "B" /\ f.operands # <<>> /\ f.operands[1].kind = "ImmSized")
    => (p + 2 < Len(c) /\ c[p + 3] = 0)

\* The forms by the top four bits of their words.
StartingWith ==
  [n \in 0..15 |-> {f \in SET : IF f.size = "Move" THEN n < 4 ELSE f.base \div 4096 = n}]

Readings(c, p) ==
  LET word == be16(c, p)
  IN  {f \in StartingWith[word \div 4096] :
         /\ FixedPart(word, f) = f.base
         /\ m68k_size(f.size, word) # "none"
         /\ EaAllowed(f, word)
         /\ ImmediateAllowed(f, word, c, p)}

Before(f, g) ==
  \/ FixedBits(f) > FixedBits(g)
  \/ FixedBits(f) = FixedBits(g) /\ f.rank < g.rank

\* The most specific form, the first in the table of several.
Best(c, p) ==
  LET found == Readings(c, p)
  IN  {f \in found : \A g \in found : ~Before(g, f)}

------------------------------------------------------------------------------
(* render_m68k: the extension words *)

\* How many bytes behind the opcode word a slot has.
ExtensionLen(slot, word, size) ==
  LET mode == ModeOf(slot, word)
      sized == IF size = "L" THEN 4 ELSE 2
  IN  CASE IsEa(slot) /\ mode \in {"d16(An)", "d8(An+Xn)", "(xxx).W", "d16(PC)", "d8(PC+Xn)"} -> 2
        [] IsEa(slot) /\ mode = "(xxx).L" -> 4
        [] IsEa(slot) /\ mode = "#imm" -> sized
        [] slot.kind = "ImmSized" -> sized
        [] slot.kind \in {"MovepDisp", "ImmWord", "DispW", "RegList"} -> 2
        [] slot.kind = "BranchW" /\ word % 256 = 0 -> 2
        [] OTHER -> 0

\* Mutant: the register list is read in its turn.
ReadBeforeInOrder(f, s) == {t \in DOMAIN f.operands : t < s}

\* The slots whose extension is read before that of slot s: the register list
\* of MOVEM whichever operand it is, the others from left to right.
ReadBefore(f, s) ==
  {t \in DOMAIN f.operands :
     \/ f.operands[t].kind = "RegList" /\ t # s
     \/ t < s /\ f.operands[s].kind # "RegList"}

SlotLen(f, word, s) ==
  IF s \in DOMAIN f.operands THEN ExtensionLen(f.operands[s], word, m68k_size(f.size, word)) ELSE 0

ExtensionAt(f, word, s) ==
  LET read(t) == IF t \in ReadBefore(f, s) THEN SlotLen(f, word, t) ELSE 0
  IN  2 + read(1) + read(2)

InstructionLen(f, word) == 2 + SlotLen(f, word, 1) + SlotLen(f, word, 2)

------------------------------------------------------------------------------
(* render_m68k: the text.  An operand is its syntax and the numbers in it, *)
(* those of 32 bits as two words.                                          *)

Shown(syntax, numbers) == [syntax |-> syntax, numbers |-> numbers]

Immediate(hi, lo) == Shown("#imm", <<hi, lo>>)

\* n immediate bytes at offset q.
SizedImmediate(size, c, q) ==
  IF size = "L" THEN Immediate(be16(c, q), be16(c, q + 2)) ELSE Immediate(0, be16(c, q))

\* index_reg: bits 8 to 10 of a brief extension word are not looked at.
index_reg(brief) == brief \div 2048

\* A pc-relative displacement counts from its own extension word.
ExtensionAddress(addr, at) == WrapAddress(addr + at)

\* The effective address whose extension is at offset q and address from.
render_ea(mode, reg, size, c, q, from) ==
  LET word == be16(c, q)
      short == AsI8(LoByte(word))
  IN  CASE mode = "d16(An)"   -> Shown(mode, <<reg, AsI16(word)>>)
        [] mode = "d8(An+Xn)" -> Shown(mode, <<reg, short, index_reg(word)>>)
        [] mode = "(xxx).W"   -> Shown(mode, <<word>>)
        [] mode = "(xxx).L"   -> Shown(mode, <<word, be16(c, q + 2)>>)
        [] mode = "d16(PC)"   -> Shown(mode, <<WrapAddress(from + AsI16(word))>>)
        [] mode = "d8(PC+Xn)" -> Shown(mode, <<WrapAddress(from + short), index_reg(word)>>)
        [] mode = "#imm"      -> SizedImmediate(size, c, q)
        [] OTHER              -> Shown(mode, <<reg>>)

\* reverse_bits on four bits, on a byte and on a word.
Reverse4(n) == <<0, 8, 4, 12, 2, 10, 6, 14, 1, 9, 5, 13, 3, 11, 7, 15>>[n + 1]
Reverse8(b) == 16 * Reverse4(b % 16) + Reverse4(b \div 16)
ReverseBits(mask) == 256 * Reverse8(LoByte(mask)) + Reverse8(HiByte(mask))

\* The registers of a list, one bit each from D0 up: those of an address that
\* steps down are stored from A7 down.
ListOrder(f, word, mask) ==
  IF \E s \in DOMAIN f.operands : IsEa(f.operands[s]) /\ ModeOf(f.operands[s], word) = "-(An)"
  THEN ReverseBits(mask) ELSE mask

\* Where a branch leads whose displacement is v.
BranchTarget(addr, v) == Shown("target", <<WrapAddress(addr + 2 + v)>>)

\* Slot s of form f, whose extension is at offset q and address from.
OperandAt(f, word, c, q, from, addr, s) ==
  LET slot == f.operands[s]
      size == m68k_size(f.size, word)
      extension == be16(c, q)
      reg == Field(word, slot.shift, 3)
  IN  CASE IsEa(slot) ->
             render_ea(ModeOf(slot, word), ModeAndRegister(slot, word)[2], size, c, q, from)
        [] slot.kind \in {"Dn", "An", "-(An)", "(An)+"} -> Shown(slot.kind, <<reg>>)
        [] slot.kind = "Quick8"    -> Immediate(0, AsI8(LoByte(word)))
        [] slot.kind = "Quick3"    -> Immediate(0, IF reg = 0 THEN 8 ELSE reg)
        [] slot.kind = "Vec4"      -> Immediate(0, word % 16)
        [] slot.kind = "ImmWord"   -> Immediate(0, extension)
        [] slot.kind = "ImmSized"  -> SizedImmediate(size, c, q)
        [] slot.kind = "MovepDisp" -> Shown("d16(An)", <<word % 8, AsI16(extension)>>)
        [] slot.kind = "RegList"   -> Shown("list", <<ListOrder(f, word, extension)>>)
        [] slot.kind = "DispW"     -> BranchTarget(addr, AsI16(extension))
        [] slot.kind = "BranchW"   ->
             BranchTarget(addr, IF word % 256 = 0 THEN AsI16(extension) ELSE AsI8(word % 256))
        [] OTHER -> Shown(slot.kind, <<>>)

Operand(f, word, c, p, addr, s) ==
  LET at == ExtensionAt(f, word, s)
  IN  OperandAt(f, word, c, p + at, ExtensionAddress(addr, at), addr, s)

BitOperations == {"BTST", "BCHG", "BCLR", "BSET"}

\* size_suffix, and the two exceptions to it.
Suffix(f, word) ==
  IF f.mnemonic \in BitOperations THEN "none"
  ELSE IF f.operands # <<>> /\ f.operands[1].kind = "BranchW" THEN IF word % 256 = 0 THEN "W" ELSE "S"
  ELSE IF f.size = "W" THEN "none" ELSE m68k_size(f.size, word)

Instruction(f, c, p, addr) ==
  LET word == be16(c, p)
  IN  [kind |-> "instruction", mnemonic |-> f.mnemonic, suffix |-> Suffix(f, word),
       operands |-> [s \in DOMAIN f.operands |-> Operand(f, word, c, p, addr, s)]]

\* decode_m68k: the best form, if its extension words are all there.
decode_m68k(c, p) == {f \in Best(c, p) : p + InstructionLen(f, be16(c, p)) <= Len(c)}

Datum(bytes) == [kind |-> "data", bytes |-> bytes]


------------------------------------------------------------------------------
(* disassemble_68000 *)

\* Mutant: the address does not wrap.
PushUnwrapped(n, text) ==
  /\ out' = Append(out, [at    |-> pos,
                         addr  |-> origin + pos,
                         bytes |-> SubSeq(code, pos + 1, pos + n),
                         text  |-> text])
  /\ pos' = pos + n
  /\ UNCHANGED <<code, origin>>

\* Mutant: the address is not counted from the origin.
PushAtOffset(n, text) ==
  /\ out' = Append(out, [at    |-> pos,
                         addr  |-> WrapAddress(pos),
                         bytes |-> SubSeq(code, pos + 1, pos + n),
                         text  |-> text])
  /\ pos' = pos + n
  /\ UNCHANGED <<code, origin>>

Push(n, text) ==
  /\ out' = Append(out, [at    |-> pos,
                         addr  |-> WrapAddress(origin + pos),
                         bytes |-> SubSeq(code, pos + 1, pos + n),
                         text  |-> text])
  /\ pos' = pos + n
  /\ UNCHANGED <<code, origin>>

Init ==
  /\ code \in Codes
  /\ origin \in Origins
  /\ pos = 0
  /\ out = <<>>

EmitInstruction ==
  /\ pos + 2 <= Len(code)
  /\ \E f \in decode_m68k(code, pos) :
       Push(InstructionLen(f, be16(code, pos)),
            Instruction(f, code, pos, WrapAddress(origin + pos)))

\* Not an instruction, or one that is cut off: the word is data.
EmitWord ==
  /\ pos + 2 <= Len(code)
  /\ decode_m68k(code, pos) = {}
  /\ Push(2, Datum(SubSeq(code, pos + 1, pos + 2)))

\* The loop has ended one byte short of the end.
EmitByte ==
  /\ pos + 1 = Len(code)
  /\ Push(1, Datum(<<code[pos + 1]>>))

Return ==
  /\ pos >= Len(code)
  /\ UNCHANGED vars

Next == EmitInstruction \/ EmitWord \/ EmitByte \/ Return

Spec == Init /\ [][Next]_vars

\* A call runs until it returns: nothing in the loop waits.
FairSpec == Spec /\ WF_vars(Next)

------------------------------------------------------------------------------
(* The assembler, vasm without its optimisations.  It is not in this       *)
(* repository; it finds the forms whose slots take the operands and lays   *)
(* their numbers down.  A number out of range is refused, and so are an    *)
(* address register as a byte and a list of no registers.                  *)

\* From here to a target, within the 16 bits that a displacement has.
Distance(target, from) ==
  LET d == WrapAddress(target - from)
  IN  IF d >= AddressSpace \div 2 THEN d - AddressSpace ELSE d

\* The syntaxes of the operands a slot takes.
SyntaxesOf(slot) ==
  CASE IsEa(slot) -> slot.modes
    [] slot.kind \in {"Quick8", "Quick3", "Vec4", "ImmWord", "ImmSized"} -> {"#imm"}
    [] slot.kind = "MovepDisp" -> {"d16(An)"}
    [] slot.kind = "RegList" -> {"list"}
    [] slot.kind \in {"DispW", "BranchW"} -> {"target"}
    [] OTHER -> {slot.kind}

InRange(slot, size, operand) ==
  LET n == operand.numbers
  IN  /\ operand.syntax \in SyntaxesOf(slot)
      /\ CASE IsEa(slot) ->
                /\ ~(operand.syntax = "An" /\ size = "B")
                /\ (operand.syntax = "#imm" /\ size = "B") => n[2] \in Byte
           [] slot.kind = "Quick8"   -> n[2] \in -128..127
           [] slot.kind = "Quick3"   -> n[2] \in 1..8
           [] slot.kind = "Vec4"     -> n[2] \in 0..15
           [] slot.kind = "ImmSized" -> size = "B" => n[2] \in Byte
           [] slot.kind = "RegList"  -> n[1] # 0
           [] OTHER -> TRUE

\* The bits an operand puts into the opcode word.
OperandBits(slot, operand, suffix, addr) ==
  LET n == operand.numbers
  IN  CASE IsEa(slot) -> EaField(slot, operand.syntax, n[1])
        [] slot.kind \in {"Dn", "An", "-(An)", "(An)+"} -> Bit(slot.shift) * n[1]
        [] slot.kind = "Quick8" -> LoByte(n[2])
        [] slot.kind = "Quick3" -> Bit(slot.shift) * (n[2] % 8)
        [] slot.kind = "Vec4" -> n[2]
        [] slot.kind = "MovepDisp" -> n[1]
        [] slot.kind = "BranchW" /\ suffix = "S" -> LoByte(Distance(n[1], addr + 2))
        [] OTHER -> 0

\* The extension word of an index register and a short displacement.
Brief(displacement, index) == 2048 * index + LoByte(displacement)

\* The words it puts behind it; from is where the first of them lies.
OperandWords(slot, operand, size, suffix, list, addr, from) ==
  LET n == operand.numbers
      sized == IF size = "L" THEN n ELSE <<n[2]>>
  IN  CASE slot.kind = "MovepDisp" \/ (IsEa(slot) /\ operand.syntax = "d16(An)") -> <<Wrap16(n[2])>>
        [] operand.syntax = "d8(An+Xn)" -> <<Brief(n[2], n[3])>>
        [] operand.syntax = "(xxx).W" -> <<n[1]>>
        [] operand.syntax = "(xxx).L" -> n
        [] operand.syntax = "d16(PC)" -> <<Wrap16(Distance(n[1], from))>>
        [] operand.syntax = "d8(PC+Xn)" -> <<Brief(Distance(n[1], from), n[2])>>
        [] slot.kind = "ImmSized" \/ (IsEa(slot) /\ operand.syntax = "#imm") -> sized
        [] slot.kind = "ImmWord" -> <<n[2]>>
        [] slot.kind = "RegList" -> <<list>>
        [] slot.kind = "DispW" \/ (slot.kind = "BranchW" /\ suffix = "W") ->
             <<Wrap16(Distance(n[1], addr + 2))>>
        [] OTHER -> <<>>

\* The forms whose first word is a byte's value: what goes into the CCR is the
\* low half of its word (isa/src/m68k.rs:534), and a bit number is read by a form
\* of size B.
ByteInWord(f) ==
  /\ f.operands # <<>> /\ f.operands[1].kind = "ImmWord"
  /\ f.size = "B" \/ (Len(f.operands) = 2 /\ f.operands[2].kind = "Ccr")

\* Whether form f at a size is what a text says.
Takes(f, size, text) ==
  /\ Len(f.operands) = Len(text.operands)
  /\ \A s \in DOMAIN f.operands : InRange(f.operands[s], size, text.operands[s])
  /\ ByteInWord(f) => text.operands[1].numbers[2] \in Byte
  /\ text.suffix =
       IF f.mnemonic \in BitOperations THEN "none"
       ELSE IF f.operands # <<>> /\ f.operands[1].kind = "BranchW" THEN text.suffix
       ELSE IF f.size = "W" THEN "none" ELSE size

\* The mask of the register list of an instruction that has one.
ListMask(f, text) ==
  LET mask == text.operands[CHOOSE s \in DOMAIN f.operands : f.operands[s].kind = "RegList"].numbers[1]
  IN  IF \E s \in DOMAIN text.operands : text.operands[s].syntax = "-(An)" THEN ReverseBits(mask) ELSE mask

\* What slot s of form f lays down, its words at address from.
BitsLaid(f, text, addr, s) ==
  IF s \in DOMAIN f.operands
  THEN OperandBits(f.operands[s], text.operands[s], text.suffix, addr) ELSE 0

WordsLaid(f, size, text, addr, from, s) ==
  IF s \in DOMAIN f.operands
  THEN OperandWords(f.operands[s], text.operands[s], size, text.suffix, ListMask(f, text), addr, from)
  ELSE <<>>

\* Where the words of slot s lie: behind those of the slots laid down before.
LaidAt(f, size, text, addr, s) ==
  LET before(t) == IF t \in LaidBefore(f, s) THEN 2 * Len(WordsLaid(f, size, text, addr, 0, t)) ELSE 0
  IN  addr + 2 + before(1) + before(2)

\* The bytes form f at a size is for a text at address addr.
Encoding(f, size, text, addr) ==
  Laid(f, f.base + size_bits(f.size, size) + BitsLaid(f, text, addr, 1) + BitsLaid(f, text, addr, 2),
       [s \in DOMAIN f.operands |-> WordsLaid(f, size, text, addr, LaidAt(f, size, text, addr, s), s)])

(***************************************************************************)
(* What decoder and assembler rely on in the table: two forms of one name  *)
(* and as many operands differ in the operands a slot takes; a branch has  *)
(* one operand and a fixed size, as have the bit operations; immediates    *)
(* come first, and no slot reads words behind an effective address's but   *)
(* the register list, which is read first and has no other beside it.      *)
(***************************************************************************)
ASSUME SlotsTellForms ==
  \A f, g \in SET :
    f.mnemonic = g.mnemonic /\ f # g /\ Len(f.operands) = Len(g.operands) =>
      \E s \in DOMAIN f.operands : SyntaxesOf(f.operands[s]) \cap SyntaxesOf(g.operands[s]) = {}

NoWords == {"Dn", "An", "-(An)", "(An)+", "Quick3", "Quick8", "Vec4", "Ccr", "Sr", "Usp"}

ASSUME SlotsKeepTheirPlaces ==
  \A f \in SET :
    /\ f.mnemonic \in BitOperations => f.size = "B"
    /\ \A s \in DOMAIN f.operands :
         /\ f.operands[s].kind = "BranchW" =>
              Len(f.operands) = 1 /\ f.size = "W" /\ f.mnemonic \notin BitOperations
         /\ f.operands[s].kind = "ImmSized" => s = 1
         /\ f.operands[s].kind = "RegList" => \A t \in DOMAIN f.operands : t = s \/ IsEa(f.operands[t])
    /\ Len(f.operands) = 2 /\ IsEa(f.operands[1]) /\ ~IsEa(f.operands[2]) =>
         f.operands[2].kind \in NoWords \cup {"RegList"}
    /\ Len(f.operands) = 2 /\ f.operands[1].kind = "ImmSized" => f.operands[2].kind # "RegList"

(***************************************************************************)
(* What keeps two forms from sharing a word: bits that both fix and one    *)
(* sets; a size or a mode that one of them has no use for and the other's  *)
(* fixed bits spell.  Forms that nothing keeps apart are alike: they have  *)
(* the same kinds of slots in the same places, or only registers.          *)
(***************************************************************************)
Apart(field, other) == field[1] + field[2] <= other[1] \/ other[1] + other[2] <= field[1]

\* The parts of a word, cut wherever a field begins or ends.
Cuts == {<<0, 3>>, <<3, 1>>, <<4, 2>>, <<6, 1>>, <<7, 1>>, <<8, 1>>, <<9, 3>>, <<12, 2>>, <<14, 2>>}

\* No field of a form has a bit of this one.
Fixes(f, field) ==
  Apart(field, SizeField(f.size)) /\ Apart(field, FieldOf(f, 1)) /\ Apart(field, FieldOf(f, 2))

BaseHas(f, field) == Field(f.base, field[1], field[2])

OtherBits(f, g) ==
  \E cut \in Cuts : Fixes(f, cut) /\ Fixes(g, cut) /\ BaseHas(f, cut) # BaseHas(g, cut)

NoSuchSize(f, g) ==
  \/ f.size = "Std6" /\ Fixes(g, <<6, 2>>) /\ BaseHas(g, <<6, 2>>) = 3
  \/ f.size = "Move" /\ Fixes(g, <<12, 2>>) /\ BaseHas(g, <<12, 2>>) = 0

NoSuchMode(f, g) ==
  /\ Fixes(g, <<3, 3>>)
  /\ \E s \in DOMAIN f.operands :
       /\ f.operands[s].kind = "Ea"
       /\ \A reg \in 0..7 :
            (Fixes(g, <<0, 3>>) => reg = BaseHas(g, <<0, 3>>)) =>
              ModeName(BaseHas(g, <<3, 3>>), reg) \notin f.operands[s].modes

SlotsAlike(f, g) ==
  /\ f.mnemonic \notin BitOperations /\ g.mnemonic \notin BitOperations
  /\ \A s \in DOMAIN f.operands :
       /\ f.operands[s].kind = g.operands[s].kind /\ f.operands[s].shift = g.operands[s].shift
       /\ f.operands[s].kind \in {"Ea", "Dest", "Dn", "DispW"}

OnlyRegisters(f) == \A s \in DOMAIN f.operands : f.operands[s].kind \in {"Dn", "An"}

Alike(f, g) ==
  /\ f.base = g.base /\ f.size = g.size /\ Len(f.operands) = Len(g.operands)
  /\ FixedBits(f) = FixedBits(g)
  /\ SlotsAlike(f, g) \/ (OnlyRegisters(f) /\ OnlyRegisters(g))

ASSUME FormsDifferOrAreAlike ==
  \A f, g \in SET :
    \/ f = g
    \/ OtherBits(f, g)
    \/ NoSuchSize(f, g) \/ NoSuchSize(g, f)
    \/ NoSuchMode(f, g) \/ NoSuchMode(g, f)
    \/ Alike(f, g)

ASSUME FieldsLieApart ==
  \A f \in SET :
    /\ Apart(SizeField(f.size), FieldOf(f, 1)) /\ Apart(SizeField(f.size), FieldOf(f, 2))
    /\ Apart(FieldOf(f, 1), FieldOf(f, 2))
    /\ \A s \in {1, 2} : FieldOf(f, s) \in {NoField, <<0, 3>>, <<9, 3>>, <<0, 4>>, <<0, 6>>, <<6, 6>>, <<0, 8>>}
    /\ \A s \in DOMAIN f.operands : f.operands[s].kind = "Ea" => f.operands[s].shift = 0

Mnemonics == {f.mnemonic : f \in SET}

Named == [m \in Mnemonics |-> {f \in SET : f.mnemonic = m}]

\* What a line may assemble to.
Assembled(line) ==
  IF line.text.kind = "data" THEN {line.text.bytes}
  ELSE UNION {{Encoding(f, size, line.text, line.addr) :
                 size \in {z \in SizesOf(f.size) : Takes(f, z, line.text)}}
              : f \in Named[line.text.mnemonic]}

------------------------------------------------------------------------------
(* Properties *)

Syntaxes == ALL \cup {"Ccr", "Sr", "Usp", "list", "target"}

OperandText == [syntax : Syntaxes, numbers : Seq(Int)]

Text ==
  [kind : {"data"}, bytes : Seq(Byte)]
    \cup [kind : {"instruction"}, mnemonic : Mnemonics, suffix : {"none", "B", "W", "L", "S"},
          operands : Seq(OperandText)]

TypeOK ==
  /\ code \in Seq(Byte)
  /\ origin \in Address
  /\ pos \in 0..Len(code)
  /\ out \in Seq([at : Nat, addr : Address, bytes : Seq(Byte), text : Text])

\* The bits of a line that its text has no place for: bits 8 to 10 of a brief
\* extension word, the high byte of a byte read as #imm through an effective
\* address, and a MOVEM of no registers at all.
Unsaid(line) ==
  /\ line.text.kind = "instruction"
  /\ \E f \in Best(code, line.at) : \E s \in DOMAIN f.operands :
       LET word == be16(code, line.at)
           extension == be16(code, line.at + ExtensionAt(f, word, s))
           syntax == line.text.operands[s].syntax
       IN  \/ syntax \in {"d8(An+Xn)", "d8(PC+Xn)"} /\ HiByte(extension) % 8 # 0
           \/ /\ IsEa(f.operands[s]) /\ syntax = "#imm" /\ m68k_size(f.size, word) = "B"
              /\ HiByte(extension) # 0
           \/ syntax = "list" /\ extension = 0

\* A byte's value printed with the non-zero high half of its word: decode_m68k
\* turns such words down for ImmSized only, as not what the assembler emits.
TooWide(line) ==
  /\ line.text.kind = "instruction"
  /\ \E f \in Best(code, line.at) :
       ByteInWord(f) /\ line.text.operands[1].numbers[2] \notin Byte

(***************************************************************************)
(* Every line comes back from its text, whatever the words are: the fields *)
(* of the form that was chosen, the extension words in their order, pc-    *)
(* relative targets counted from their own words, register lists reversed  *)
(* or not, and no second form that the text could be taken for.  Three     *)
(* kinds of line say less than their words do, and a fourth says a byte    *)
(* that is none; even these never assemble to another length, so nothing   *)
(* behind them moves.                                                      *)
(***************************************************************************)
RoundTrip ==
  \A k \in DOMAIN out :
    IF Unsaid(out[k]) \/ TooWide(out[k])
    THEN \A bytes \in Assembled(out[k]) : Len(bytes) = Len(out[k].bytes)
    ELSE Assembled(out[k]) = {out[k].bytes}

(***************************************************************************)
(* decode_m68k lets the most specific of all matching forms win.  The      *)
(* table leaves it nothing to decide: wherever a sweep stops, forms that   *)
(* match one word have equally many fixed bits, are equally long, and      *)
(* their texts assemble to the same bytes (MOVE and MOVEA, DBF and DBRA,   *)
(* the two ways to write EXG).                                             *)
(***************************************************************************)
OneReading ==
  pos + 2 <= Len(code) =>
    LET word == be16(code, pos)
        addr == WrapAddress(origin + pos)
    IN  \A f, g \in Readings(code, pos) :
          /\ FixedBits(f) = FixedBits(g)
          /\ InstructionLen(f, word) = InstructionLen(g, word)
          /\ f # g /\ pos + InstructionLen(f, word) <= Len(code) =>
               Assembled([text |-> Instruction(f, code, pos, addr), addr |-> addr])
                 = Assembled([text |-> Instruction(g, code, pos, addr), addr |-> addr])

ExemplarsStarting == [b \in Byte |-> {e \in exemplars : e.bytes[1] = b}]

(***************************************************************************)
(* Every row the table declares comes back from its own exemplar, as one   *)
(* line with the operand shape of the row: exemplars() lays the words down *)
(* with those of effective addresses last, render_m68k reads the register  *)
(* list first and then from left to right, and both mean the same.         *)
(***************************************************************************)
ExemplarsDecode ==
  out # <<>> =>
    LET here == {e \in ExemplarsStarting[code[1]] : e.bytes = code}
    IN  here # {} =>
          /\ out[1].bytes = code
          /\ \E e \in here :
               /\ e.mnemonic = out[1].text.mnemonic
               /\ e.syntaxes = [s \in DOMAIN out[1].text.operands |-> out[1].text.operands[s].syntax]

\* The lines without their text.
Pieces ==
  [k \in DOMAIN out |->
     [at |-> out[k].at, addr |-> out[k].addr, bytes |-> out[k].bytes]]

Listing == INSTANCE Sweep
             WITH Codes <- Seq(Byte), Origins <- Address, Unit <- 1,
                  Memory <- AddressSpace, out <- Pieces

(***************************************************************************)
(* The sweep keeps the promise of Sweep over the 32-bit address space: no  *)
(* extension word is listed twice or skipped, and an odd byte at the end   *)
(* is listed too.                                                          *)
(***************************************************************************)
ImplementsSweep == Listing!FairSpec

==============================================================================
