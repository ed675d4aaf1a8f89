-------------------------------- MODULE M68000 -------------------------------
(***************************************************************************)
(* The 68000: its table (isa/src/m68k.rs) and the decoder that reads it    *)
(* backwards.  A form is an opcode word with fixed bits and fields, and    *)
(* extension words behind it.  Texts are records of mnemonic, suffix and   *)
(* operands; an operand is its syntax and the numbers in it.               *)
(***************************************************************************)
EXTENDS Words, Sequences, FiniteSets

\* Addresses are u32 in the code.  TLC's integers can add up no more than 30
\* bits; addresses of 30 bits wrap all the same.
CONSTANT AddressSpace

ASSUME AddressesHoldWords == AddressSpace \in Nat /\ AddressSpace >= 65536

WrapAddress(a) == a % AddressSpace

\* 1 << n, of a word.
Bit(n) ==
  <<1, 2, 4, 8, 16, 32, 64, 128, 256, 512, 1024, 2048, 4096, 8192, 16384, 32768>>[n + 1]

\* A field of an opcode word.
Field(word, shift, width) == (word \div Bit(shift)) % Bit(width)

------------------------------------------------------------------------------
(* Effective addresses *)

MEM_ALT == {"(An)", "(An)+", "-(An)", "d16(An)", "d8(An+Xn)", "(xxx).W", "(xxx).L"}
DATA_ALT == MEM_ALT \cup {"Dn"}
ALT == DATA_ALT \cup {"An"}
DATA_NOIMM == DATA_ALT \cup {"d16(PC)", "d8(PC+Xn)"}
DATA == DATA_NOIMM \cup {"#imm"}
ALL == DATA \cup {"An"}
CONTROL == DATA_NOIMM \ {"Dn", "(An)+", "-(An)"}

\* ea_bit: the name of a mode, "none" where there is none.
ModeName(mode, reg) ==
  IF mode < 7
  THEN <<"Dn", "An", "(An)", "(An)+", "-(An)", "d16(An)", "d8(An+Xn)">>[mode + 1]
  ELSE <<"(xxx).W", "(xxx).L", "d16(PC)", "d8(PC+Xn)", "#imm", "none", "none", "none">>[reg + 1]

------------------------------------------------------------------------------
(* The table.  `rank` tells apart rows that match the same words: the      *)
(* lower one comes first in the table.                                     *)

Ea(modes) == [kind |-> "Ea", shift |-> 0, modes |-> modes]
MoveDest(modes) == [kind |-> "Dest", shift |-> 6, modes |-> modes]
Reg(kind, shift) == [kind |-> kind, shift |-> shift, modes |-> {}]
Slot(kind) == Reg(kind, 0)

Form(mnemonic, base, size, operands) ==
  [mnemonic |-> mnemonic, base |-> base, size |-> size, operands |-> operands, rank |-> 0]

Later(forms) == {[f EXCEPT !.rank = 1] : f \in forms}

\* The sixteen conditions, in the order of their codes.
Conditions ==
  <<"T", "F", "HI", "LS", "CC", "CS", "NE", "EQ", "VC", "VS", "PL", "MI", "GE", "LT", "GT", "LE">>

NoOperands ==
  LET bases == [RTS |-> \h4E75, NOP |-> \h4E71, RTE |-> \h4E73, RTR |-> \h4E77,
                TRAPV |-> \h4E76, RESET |-> \h4E70, ILLEGAL |-> \h4AFC]
  IN  {Form(m, bases[m], "W", <<>>) : m \in DOMAIN bases}

Moves ==
  {Form("MOVEA", 0, "Move", <<Ea(ALL), MoveDest({"An"})>>),
   Form("MOVE", \h44C0, "W", <<Ea(DATA), Slot("Ccr")>>),
   Form("MOVE", \h46C0, "W", <<Ea(DATA), Slot("Sr")>>),
   Form("MOVE", \h40C0, "W", <<Slot("Sr"), Ea(DATA_ALT)>>),
   Form("MOVE", \h4E68, "W", <<Slot("Usp"), Reg("An", 0)>>),
   Form("MOVE", \h4E60, "W", <<Reg("An", 0), Slot("Usp")>>),
   Form("MOVEQ", \h7000, "L", <<Slot("Quick8"), Reg("Dn", 9)>>),
   Form("LEA", \h41C0, "L", <<Ea(CONTROL), Reg("An", 9)>>)}
    \cup Later({Form("MOVE", 0, "Move", <<Ea(ALL), MoveDest(ALT)>>)})

\* ADD, SUB, CMP, AND, OR, EOR and the multiplications.
Arithmetic ==
  LET toDn == [ADD |-> \hD000, SUB |-> \h9000, CMP |-> \hB000]
      logic == [AND |-> \hC000, OR |-> \h8000]
      toMemory == [ADD |-> \hD100, SUB |-> \h9100, AND |-> \hC100, OR |-> \h8100]
      toAn == [ADD |-> \hD0C0, SUB |-> \h90C0, CMP |-> \hB0C0]
      words == [MULU |-> \hC0C0, DIVU |-> \h80C0, MULS |-> \hC1C0, DIVS |-> \h81C0, CHK |-> \h4180]
  IN  {Form(m, toDn[m], "Std6", <<Ea(ALL), Reg("Dn", 9)>>) : m \in DOMAIN toDn}
        \cup {Form(m, logic[m], "Std6", <<Ea(DATA), Reg("Dn", 9)>>) : m \in DOMAIN logic}
        \cup {Form(m, toMemory[m], "Std6", <<Reg("Dn", 9), Ea(MEM_ALT)>>) : m \in DOMAIN toMemory}
        \cup {Form(m, toAn[m], "WL8", <<Ea(ALL), Reg("An", 9)>>) : m \in DOMAIN toAn}
        \cup {Form(m, words[m], "W", <<Ea(DATA), Reg("Dn", 9)>>) : m \in DOMAIN words}
        \cup {Form("EOR", \hB100, "Std6", <<Reg("Dn", 9), Ea(DATA_ALT)>>)}

Immediates ==
  LET bases == [ORI |-> 0, ANDI |-> \h200, SUBI |-> \h400, ADDI |-> \h600, EORI |-> \hA00, CMPI |-> \hC00]
      status == {"ORI", "ANDI", "EORI"}
  IN  {Form(m, bases[m], "Std6", <<Slot("ImmSized"), Ea(DATA_ALT)>>) : m \in DOMAIN bases}
        \cup {Form(m, bases[m] + \h3C, "W", <<Slot("ImmWord"), Slot("Ccr")>>) : m \in status}
        \cup {Form(m, bases[m] + \h7C, "W", <<Slot("ImmWord"), Slot("Sr")>>) : m \in status}

\* Two data registers, or two memory operands before or after which the
\* address registers step.
Extended ==
  LET pair(kind) == <<Reg(kind, 0), Reg(kind, 9)>>
      both(m, base, size) == {Form(m, base, size, pair("Dn")), Form(m, base + 8, size, pair("-(An)"))}
  IN  both("ADDX", \hD100, "Std6") \cup both("SUBX", \h9100, "Std6")
        \cup both("ABCD", \hC100, "B") \cup both("SBCD", \h8100, "B")
        \cup {Form("CMPM", \hB108, "Std6", pair("(An)+"))}

Exchanges ==
  {Form("EXG", \hC140, "W", <<Reg("Dn", 9), Reg("Dn", 0)>>),
   Form("EXG", \hC148, "W", <<Reg("An", 9), Reg("An", 0)>>),
   Form("EXG", \hC188, "W", <<Reg("Dn", 9), Reg("An", 0)>>)}
    \cup Later({Form("EXG", \hC188, "W", <<Reg("An", 0), Reg("Dn", 9)>>)})

SingleOperands ==
  LET sized == [NEGX |-> \h4000, CLR |-> \h4200, NEG |-> \h4400, NOT |-> \h4600, TST |-> \h4A00]
      bytes == [NBCD |-> \h4800, TAS |-> \h4AC0]
      jumps == [JMP |-> \h4EC0, JSR |-> \h4E80]
  IN  {Form(m, sized[m], "Std6", <<Ea(DATA_ALT)>>) : m \in DOMAIN sized}
        \cup {Form(m, bytes[m], "B", <<Ea(DATA_ALT)>>) : m \in DOMAIN bytes}
        \cup {Form(m, jumps[m], "W", <<Ea(CONTROL)>>) : m \in DOMAIN jumps}
        \cup {Form("PEA", \h4840, "L", <<Ea(CONTROL)>>),
              Form("SWAP", \h4840, "W", <<Reg("Dn", 0)>>),
              Form("EXT", \h4880, "WL6", <<Reg("Dn", 0)>>),
              Form("UNLK", \h4E58, "W", <<Reg("An", 0)>>),
              Form("TRAP", \h4E40, "W", <<Slot("Vec4")>>),
              Form("STOP", \h4E72, "W", <<Slot("ImmWord")>>),
              Form("LINK", \h4E50, "W", <<Reg("An", 0), Slot("ImmWord")>>)}

Quicks ==
  {Form("ADDQ", \h5000, "Std6", <<Reg("Quick3", 9), Ea(ALT)>>),
   Form("SUBQ", \h5100, "Std6", <<Reg("Quick3", 9), Ea(ALT)>>)}

ConditionName(stem, n) == stem \o Conditions[n + 1]

CountedBranches ==
  LET counted == <<Reg("Dn", 0), Slot("DispW")>>
  IN  {Form(ConditionName("DB", n), \h50C8 + 256 * n, "W", counted) : n \in 0..15}
        \cup Later({Form("DBRA", \h51C8, "W", counted)})

ConditionalSets ==
  {Form(ConditionName("S", n), \h50C0 + 256 * n, "B", <<Ea(DATA_ALT)>>) : n \in 0..15}

\* BRA and BSR take the places of the first two conditions.
Branches ==
  {Form(ConditionName("B", n), \h6000 + 256 * n, "W", <<Slot("BranchW")>>) : n \in 2..15}
    \cup {Form("BRA", \h6000, "W", <<Slot("BranchW")>>),
          Form("BSR", \h6100, "W", <<Slot("BranchW")>>)}

Shifts ==
  LET names == <<<<"ASR", "ASL">>, <<"LSR", "LSL">>, <<"ROXR", "ROXL">>, <<"ROR", "ROL">>>>
  IN  UNION {LET m == names[t + 1][d + 1]
             IN  {Form(m, \hE000 + 256 * d + 8 * t, "Std6", <<Reg("Quick3", 9), Reg("Dn", 0)>>),
                  Form(m, \hE020 + 256 * d + 8 * t, "Std6", <<Reg("Dn", 9), Reg("Dn", 0)>>),
                  Form(m, \hE0C0 + 256 * d + 512 * t, "W", <<Ea(MEM_ALT)>>)}
             : t \in 0..3, d \in 0..1}

Bits ==
  LET row(m, n, static, dynamic) ==
        {Form(m, \h800 + 64 * n, "B", <<Slot("ImmWord"), Ea(static)>>),
         Form(m, \h100 + 64 * n, "B", <<Reg("Dn", 9), Ea(dynamic)>>)}
  IN  row("BTST", 0, DATA_NOIMM, DATA) \cup row("BCHG", 1, DATA_ALT, DATA_ALT)
        \cup row("BCLR", 2, DATA_ALT, DATA_ALT) \cup row("BSET", 3, DATA_ALT, DATA_ALT)

Multiples ==
  {Form("MOVEM", \h4880, "WL6", <<Slot("RegList"), Ea((CONTROL \cap MEM_ALT) \cup {"-(An)"})>>),
   Form("MOVEM", \h4C80, "WL6", <<Ea(CONTROL \cup {"(An)+"}), Slot("RegList")>>),
   Form("MOVEP", \h0108, "WL6", <<Slot("MovepDisp"), Reg("Dn", 9)>>),
   Form("MOVEP", \h0188, "WL6", <<Reg("Dn", 9), Slot("MovepDisp")>>)}

SET ==
  NoOperands \cup Moves \cup Arithmetic \cup Immediates \cup Extended \cup Exchanges
    \cup SingleOperands \cup Quicks \cup CountedBranches \cup ConditionalSets \cup Branches
    \cup Shifts \cup Bits \cup Multiples

IsEa(slot) == slot.kind \in {"Ea", "Dest"}

OperandSlot ==
  [kind : {"Ea", "Dest", "Dn", "An", "-(An)", "(An)+", "Quick3", "Quick8", "Vec4", "ImmWord", "ImmSized",
           "MovepDisp", "RegList", "DispW", "BranchW", "Ccr", "Sr", "Usp"},
   shift : {0, 6, 9}, modes : SUBSET ALL]

ASSUME RowsAreWellFormed ==
  \A f \in SET :
    /\ f.base \in Word16 /\ f.rank \in Nat
    /\ f.size \in {"B", "W", "L", "Std6", "Move", "WL8", "WL6"}
    /\ f.operands \in Seq(OperandSlot) /\ Len(f.operands) <= 2

------------------------------------------------------------------------------
(* Laying a form down *)

\* size_bits: what each size puts into the word.
SizeBits ==
  [Std6 |-> [B |-> 0, W |-> 64, L |-> 128],
   Move |-> [B |-> 4096, W |-> 12288, L |-> 8192],
   WL8  |-> [W |-> 0, L |-> 256],
   WL6  |-> [W |-> 0, L |-> 64]]

size_bits(enc, size) == IF enc \in DOMAIN SizeBits THEN SizeBits[enc][size] ELSE 0

SizesOf(enc) == IF enc \in DOMAIN SizeBits THEN DOMAIN SizeBits[enc] ELSE {enc}

\* Modes with a register of their own; the others have a fixed register field.
RegisterModes == {"Dn", "An", "(An)", "(An)+", "-(An)", "d16(An)", "d8(An+Xn)"}

ModeNumber(mode) ==
  CASE mode = "Dn" -> 0 [] mode = "An" -> 1 [] mode = "(An)" -> 2 [] mode = "(An)+" -> 3
    [] mode = "-(An)" -> 4 [] mode = "d16(An)" -> 5 [] mode = "d8(An+Xn)" -> 6 [] OTHER -> 7

ModeRegister(mode, reg) ==
  CASE mode \in RegisterModes -> reg
    [] mode = "(xxx).W" -> 0 [] mode = "(xxx).L" -> 1
    [] mode = "d16(PC)" -> 2 [] mode = "d8(PC+Xn)" -> 3 [] OTHER -> 4

\* The field of an effective address, where its slot has it.
EaField(slot, mode, reg) ==
  Bit(slot.shift) * (IF slot.kind = "Dest" THEN 8 * ModeRegister(mode, reg) + ModeNumber(mode)
                     ELSE 8 * ModeNumber(mode) + ModeRegister(mode, reg))

\* Extension words come in operand order, those of effective addresses last.
LaidBefore(f, s) ==
  {t \in DOMAIN f.operands :
     IF IsEa(f.operands[t]) = IsEa(f.operands[s]) THEN t < s ELSE IsEa(f.operands[s])}

\* The bytes of words, high byte first.
WordBytes(words) ==
  [k \in 1..(2 * Len(words)) |->
     IF k % 2 = 1 THEN HiByte(words[(k + 1) \div 2]) ELSE LoByte(words[k \div 2])]

\* The bytes of an opcode word and the extension words of each slot.
Laid(f, word, words) ==
  LET part(ea, s) ==
        IF s \in DOMAIN f.operands /\ IsEa(f.operands[s]) = ea THEN words[s] ELSE <<>>
  IN  WordBytes(<<word>> \o part(FALSE, 1) \o part(FALSE, 2) \o part(TRUE, 1) \o part(TRUE, 2))

------------------------------------------------------------------------------
(* exemplars: an instance of every form with each mode it allows *)

EX_DN == 1
EX_AN == 2
EX_BRIEF == \h3010
EX_DISP == \h0010

exemplar_size(enc) == IF enc \in DOMAIN SizeBits THEN "W" ELSE enc

Instance(syntax, bits, words) == [syntax |-> syntax, bits |-> bits, words |-> words]

ImmediateWords(size) == IF size = "L" THEN <<0, \h40>> ELSE <<\h40>>

ea_instance(slot, mode, size) ==
  Instance(mode, EaField(slot, mode, IF mode = "Dn" THEN EX_DN ELSE EX_AN),
    CASE mode \in {"d16(An)", "d16(PC)"} -> <<EX_DISP>>
      [] mode \in {"d8(An+Xn)", "d8(PC+Xn)"} -> <<EX_BRIEF>>
      [] mode = "(xxx).W" -> <<\h20>>
      [] mode = "(xxx).L" -> <<0, \h3000>>
      [] mode = "#imm" -> ImmediateWords(size)
      [] OTHER -> <<>>)

fixed_slot(slot, size) ==
  CASE slot.kind = "Dn" -> Instance("Dn", Bit(slot.shift) * EX_DN, <<>>)
    [] slot.kind \in {"An", "-(An)", "(An)+"} -> Instance(slot.kind, Bit(slot.shift) * EX_AN, <<>>)
    [] slot.kind = "Quick8" -> Instance("#imm", \h12, <<>>)
    [] slot.kind = "Quick3" -> Instance("#imm", Bit(slot.shift), <<>>)
    [] slot.kind = "Vec4" -> Instance("#imm", 3, <<>>)
    [] slot.kind = "ImmWord" -> Instance("#imm", 0, <<3>>)
    [] slot.kind = "ImmSized" -> Instance("#imm", 0, ImmediateWords(size))
    [] slot.kind = "RegList" -> Instance("list", 0, <<\h8001>>)
    [] slot.kind = "MovepDisp" -> Instance("d16(An)", EX_AN, <<EX_DISP>>)
    [] slot.kind \in {"BranchW", "DispW"} -> Instance("target", 0, <<EX_DISP>>)
    [] OTHER -> Instance(slot.kind, 0, <<>>)

SlotChoices(slot, size) ==
  IF IsEa(slot) THEN {ea_instance(slot, mode, size) : mode \in slot.modes}
  ELSE {fixed_slot(slot, size)}

\* One choice for each of the up to two slots of a form.
Combinations(f) ==
  LET choices(s) == SlotChoices(f.operands[s], exemplar_size(f.size))
  IN  CASE Len(f.operands) = 0 -> {<<>>}
        [] Len(f.operands) = 1 -> {<<x>> : x \in choices(1)}
        [] Len(f.operands) = 2 -> {<<x, y>> : x \in choices(1), y \in choices(2)}

Exemplar(f, chosen) ==
  LET bits(s) == IF s \in DOMAIN chosen THEN chosen[s].bits ELSE 0
  IN  [mnemonic |-> f.mnemonic,
       syntaxes |-> [s \in DOMAIN chosen |-> chosen[s].syntax],
       bytes |-> Laid(f, f.base + size_bits(f.size, exemplar_size(f.size)) + bits(1) + bits(2),
                      [s \in DOMAIN chosen |-> chosen[s].words])]

exemplars == UNION {{Exemplar(f, chosen) : chosen \in Combinations(f)} : f \in SET}

==============================================================================
