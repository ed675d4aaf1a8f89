------------------------------- MODULE Tms9900 -------------------------------
(***************************************************************************)
(* The TMS9900: its table (isa/src/tms9900.rs), decode_tms9900, and asl,   *)
(* which reads the texts back.                                             *)
(***************************************************************************)
EXTENDS Texts, FiniteSets

------------------------------------------------------------------------------
(* The table *)

Insn(mnemonic, base, class) == [mnemonic |-> mnemonic, base |-> base, class |-> class]

\* Instructions whose words stand `step` apart; an empty name leaves one out.
Apart(names, base, step, class) ==
  {Insn(names[i], base + (i - 1) * step, class) : i \in {j \in DOMAIN names : names[j] # ""}}

Immediates ==
  Apart(<<"LI", "AI", "ANDI", "ORI", "CI">>, \h0200, 32, "ImmReg")
    \cup Apart(<<"STWP", "STST">>, \h02A0, 32, "StoreReg")
    \cup Apart(<<"LWPI", "LIMI">>, \h02E0, 32, "ImmOnly")

Controls ==
  Apart(<<"IDLE", "RSET", "RTWP", "CKON", "CKOF", "LREX">>, \h0340, 32, "Control")

Singles ==
  Apart(<<"BLWP", "B", "X", "CLR", "NEG", "INV", "INC", "INCT", "DEC", "DECT", "BL", "SWPB",
          "SETO", "ABS">>, \h0400, 64, "SingleGeneral")

Shifts == Apart(<<"SRA", "SRL", "SLA", "SRC">>, \h0800, 256, "Shift")

Jumps ==
  Apart(<<"JMP", "JLT", "JLE", "JEQ", "JHE", "JGT", "JNE", "JNC", "JOC", "JNO", "JL", "JH", "JOP">>,
        \h1000, 256, "Jump")
    \cup Apart(<<"SBO", "SBZ", "TB">>, \h1D00, 256, "Cru")

ToRegister ==
  Apart(<<"COC", "CZC", "XOR", "", "", "", "MPY", "DIV">>, \h2000, 1024, "DualRegDst")
    \cup {Insn("XOP", \h2C00, "Xop")}

CruTransfers == Apart(<<"LDCR", "STCR">>, \h3000, 1024, "CruMulti")

Duals ==
  Apart(<<"SZC", "SZCB", "S", "SB", "C", "CB", "A", "AB", "MOV", "MOVB", "SOC", "SOCB">>,
        \h4000, \h1000, "DualGeneral")

INSTRUCTIONS ==
  UNION {Immediates, Controls, Singles, Shifts, Jumps, ToRegister, CruTransfers, Duals}

\* Class::mask: how many low bits of the word are operand fields.  `decode`
\* tries the classes with fewer first.
FieldBits ==
  [Control |-> 0, ImmOnly |-> 0, ImmReg |-> 4, StoreReg |-> 4, SingleGeneral |-> 6, Shift |-> 8,
   Jump |-> 8, Cru |-> 8, DualRegDst |-> 10, Xop |-> 10, CruMulti |-> 10, DualGeneral |-> 12]

Claims(word) ==
  {row \in INSTRUCTIONS : word - (word % 2^FieldBits[row.class]) = row.base}

------------------------------------------------------------------------------
(* decode_tms9900 *)

Field(kind, shift, width) == [kind |-> kind, shift |-> shift, width |-> width]

General(shift) == Field("general", shift, 6)

Register(shift) == Field("register", shift, 4)

\* The immediate word has no bits in the opcode word.
ImmediateWord == Field("immediate", 0, 0)

\* The fields of an instruction's word in the order they are written.
Fields ==
  [DualGeneral |-> <<General(0), General(6)>>,
   DualRegDst |-> <<General(0), Register(6)>>,
   Xop |-> <<General(0), Field("number", 6, 4)>>,
   CruMulti |-> <<General(0), Field("count", 6, 4)>>,
   Shift |-> <<Register(0), Field("number", 4, 4)>>,
   SingleGeneral |-> <<General(0)>>,
   Control |-> <<>>,
   ImmReg |-> <<Register(0), ImmediateWord>>,
   ImmOnly |-> <<ImmediateWord>>,
   StoreReg |-> <<Register(0)>>,
   Jump |-> <<Field("jump", 0, 8)>>,
   Cru |-> <<Field("displacement", 0, 8)>>]

In(word, field) == (word \div 2^field.shift) % 2^field.width

\* Whether a field has a word of its own behind the opcode word.
HasWord(field, value) ==
  \/ field.kind = "immediate"
  \/ field.kind = "general" /\ value \div 16 = 2

\* Extension words of the first n fields.
Extensions(class, word, n) ==
  Cardinality({s \in 1..n : HasWord(Fields[class][s], In(word, Fields[class][s]))})

\* Every row with its fields zero, and zero words where it needs them.
Exemplars ==
  {BigBytes(row.base) \o [k \in 1..2 * Extensions(row.class, row.base, Len(Fields[row.class])) |-> 0] :
     row \in INSTRUCTIONS}

\* q is the offset of the first extension word, ord the number of them
\* before this operand's.  Register 0 does not index: the address stands alone.
tms9900_general(c, q, value, ord) ==
  LET t == value \div 16
      reg == value % 16
      address == BigWord(c, q + 2 * ord)
  IN  CASE t = 0 -> Operand("r", <<reg>>)
        [] t = 1 -> Operand("*r", <<reg>>)
        [] t = 3 -> Operand("*r+", <<reg>>)
        [] OTHER -> IF reg = 0 THEN Operand("@n", <<address>>) ELSE Operand("@n(r)", <<address, reg>>)

OperandText(c, p, addr, class, word, s) ==
  LET field == Fields[class][s]
      value == In(word, field)
      number(n) == Operand("n", <<n>>)
  IN  CASE field.kind = "general" ->
             tms9900_general(c, p + 2, value, Extensions(class, word, s - 1))
        [] field.kind = "register"     -> Operand("r", <<value>>)
        [] field.kind = "number"       -> number(value)
        [] field.kind = "count"        -> number(IF value = 0 THEN 16 ELSE value)
        [] field.kind = "displacement" -> number(AsI8(value))
        [] field.kind = "immediate"    -> number(BigWord(c, p + 2))
        [] field.kind = "jump"         -> number(Wrap16(addr + 2 + 2 * AsI8(value)))

\* What a row makes of the word at offset p; its whole word is there.
ReadingOf(row, c, p, addr) ==
  LET word == BigWord(c, p)
      n == Len(Fields[row.class])
      length == 2 + 2 * Extensions(row.class, word, n)
  IN  IF p + length > Len(c) THEN Refusal(FieldBits[row.class])
      ELSE Reading(FieldBits[row.class], length,
                   Text(row.mnemonic, [s \in 1..n |-> OperandText(c, p, addr, row.class, word, s)]))

Readings(c, p, addr) == {ReadingOf(row, c, p, addr) : row \in Claims(BigWord(c, p))}

------------------------------------------------------------------------------
(* asl.  It is not in this repository.                                     *)

\* The field's value and the extension word that say an operand.
Said(field, operand, addr) ==
  LET n == operand.numbers[1]
      value(v) == {[value |-> v, words |-> <<>>]}
      worded(v) == {[value |-> v, words |-> BigBytes(n)]}
      jump == Distance(n, Wrap16(addr + 2))
  IN  CASE field.kind = "general" ->
             (CASE operand.syntax = "r"     -> value(n)
                [] operand.syntax = "*r"    -> value(16 + n)
                [] operand.syntax = "*r+"   -> value(48 + n)
                [] operand.syntax = "@n"    -> worded(32)
                [] operand.syntax = "@n(r)" ->
                     IF operand.numbers[2] = 0 THEN {} ELSE worded(32 + operand.numbers[2])
                [] OTHER -> {})
        [] field.kind = "register" /\ operand.syntax = "r" -> value(n)
        [] field.kind # "register" /\ operand.syntax = "n" ->
             (CASE field.kind = "immediate" -> worded(0)
                [] field.kind = "number" /\ n \in 0..15 -> value(n)
                [] field.kind = "count" /\ n \in 1..16 -> value(n % 16)
                [] field.kind = "displacement" /\ n \in -128..127 -> value(LoByte(n))
                [] field.kind = "jump" /\ jump % 2 = 0 /\ jump \in -256..254 -> value(LoByte(jump \div 2))
                [] OTHER -> {})
        [] OTHER -> {}

\* No instruction has more than two operands.
Assembled(text, addr) ==
  LET one(row, s) == Said(Fields[row.class][s], text.operands[s], addr)
      at(row, s, said) == said.value * 2^Fields[row.class][s].shift
      laid(row) ==
        CASE Len(text.operands) = 0 -> {BigBytes(row.base)}
          [] Len(text.operands) = 1 -> {BigBytes(row.base + at(row, 1, a)) \o a.words : a \in one(row, 1)}
          [] OTHER -> {BigBytes(row.base + at(row, 1, a) + at(row, 2, b)) \o a.words \o b.words :
                         a \in one(row, 1), b \in one(row, 2)}
  IN  UNION {laid(row) : row \in {r \in INSTRUCTIONS : r.mnemonic = text.name}}

==============================================================================
