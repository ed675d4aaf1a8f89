-------------------------------- MODULE Pdp11 --------------------------------
(***************************************************************************)
(* The PDP-11: its table (isa/src/pdp11.rs), decode_pdp11, and asl, which  *)
(* reads the texts back.                                                   *)
(***************************************************************************)
EXTENDS Texts, FiniteSets

------------------------------------------------------------------------------
(* The table *)

Insn(mnemonic, base, class) == [mnemonic |-> mnemonic, base |-> base, class |-> class]

\* Instructions whose words stand `step` apart; an empty name leaves one out.
Apart(names, base, step, class) ==
  {Insn(names[i], base + (i - 1) * step, class) : i \in {j \in DOMAIN names : names[j] # ""}}

DoubleOperand ==
  Apart(<<"MOV", "CMP", "BIT", "BIC", "BIS", "ADD">>, \h1000, \h1000, "Double")
    \cup Apart(<<"MOVB", "CMPB", "BITB", "BICB", "BISB", "SUB">>, \h9000, \h1000, "Double")

SingleOperand ==
  Apart(<<"JMP", "", "SWAB">>, \h0040, 64, "Single")
    \cup Apart(<<"CLR", "COM", "INC", "DEC", "NEG", "ADC", "SBC", "TST", "ROR", "ROL", "ASR", "ASL",
                 "", "MFPI", "MTPI", "SXT", "CSM", "", "TSTSET", "WRTLCK">>, \h0A00, 64, "Single")
    \cup Apart(<<"CLRB", "COMB", "INCB", "DECB", "NEGB", "ADCB", "SBCB", "TSTB", "RORB", "ROLB",
                 "ASRB", "ASLB", "MTPS", "MFPD", "MTPD", "MFPS">>, \h8A00, 64, "Single")

Branches ==
  Apart(<<"BR", "BNE", "BEQ", "BGE", "BLT", "BGT", "BLE">>, \h0100, 256, "Branch")
    \cup Apart(<<"BPL", "BMI", "BHI", "BLOS", "BVC", "BVS", "BCC", "BCS">>, \h8000, 256, "Branch")
    \cup Apart(<<"BHIS", "BLO">>, \h8600, 256, "Branch")

WithRegister ==
  Apart(<<"MUL", "DIV", "ASH", "ASHC">>, \h7000, 512, "RegSrc")
    \cup {Insn("XOR", \h7800, "Xor"), Insn("SOB", \h7E00, "Sob"), Insn("JSR", \h0800, "Jsr")}

WithNumber ==
  {Insn("EMT", \h8800, "Trap"), Insn("TRAP", \h8900, "Trap"), Insn("MARK", \h0D00, "Mark"),
   Insn("SPL", \h0098, "Spl"), Insn("RTS", \h0080, "Rts")}

NoOperand ==
  Apart(<<"HALT", "WAIT", "RTI", "BPT", "IOT", "RESET", "RTT", "MFPT">>, 0, 1, "NoArg")
    \cup Apart(<<"NOP", "CLC", "CLV", "", "CLZ", "", "", "", "CLN", "", "", "", "", "", "", "CCC">>,
               \h00A0, 1, "NoArg")
    \cup Apart(<<"SEC", "SEV", "", "SEZ", "", "", "", "SEN", "", "", "", "", "", "", "SCC">>,
               \h00B1, 1, "NoArg")

INSTRUCTIONS ==
  UNION {DoubleOperand, SingleOperand, Branches, WithRegister, WithNumber, NoOperand}

\* Class::mask: how many low bits of the word are operand fields.  `decode`
\* tries the classes with fewer first.
FieldBits ==
  [NoArg |-> 0, Rts |-> 3, Spl |-> 3, Mark |-> 6, Single |-> 6, Trap |-> 8, Branch |-> 8,
   Jsr |-> 9, Sob |-> 9, RegSrc |-> 9, Xor |-> 9, Double |-> 12]

Claims(word) ==
  {row \in INSTRUCTIONS : word - (word % 2^FieldBits[row.class]) = row.base}

Exemplars ==
  {LittleBytes(row.base + (IF row.mnemonic \in {"JMP", "WRTLCK"} THEN 8 ELSE 0)) : row \in INSTRUCTIONS}

------------------------------------------------------------------------------
(* decode_pdp11 *)

\* Operands a `#n` may stand for.
pdp11_single_imm_ok == {"JMP", "MFPI", "MFPD", "MTPS", "CSM"}
double_imm_ok == {"CMP", "BIT", "CMPB", "BITB"}

Field(kind, shift, width) == [kind |-> kind, shift |-> shift, width |-> width]

General(shift, imm_ok) == Field(IF imm_ok THEN "source" ELSE "destination", shift, 6)

Register(shift) == Field("register", shift, 3)

\* The fields of an instruction's word in the order they are written.
Fields(row) ==
  CASE row.class = "Double" -> <<General(6, TRUE), General(0, row.mnemonic \in double_imm_ok)>>
    [] row.class = "Single" -> <<General(0, row.mnemonic \in pdp11_single_imm_ok)>>
    [] row.class = "Jsr"    -> <<Register(6), General(0, TRUE)>>
    [] row.class = "RegSrc" -> <<General(0, TRUE), Register(6)>>
    [] row.class = "Xor"    -> <<Register(6), General(0, FALSE)>>
    [] row.class = "Rts"    -> <<Register(0)>>
    [] row.class = "Branch" -> <<Field("branch", 0, 8)>>
    [] row.class = "Sob"    -> <<Register(6), Field("back", 0, 6)>>
    [] row.class = "Trap"   -> <<Field("number", 0, 8)>>
    [] row.class = "Mark"   -> <<Field("number", 0, 6)>>
    [] row.class = "Spl"    -> <<Field("number", 0, 3)>>
    [] row.class = "NoArg"  -> <<>>

In(word, field) == (word \div 2^field.shift) % 2^field.width

IsGeneral(field) == field.kind \in {"source", "destination"}

\* Whether a mode and register carry an extension word.
has_ext(field, value) ==
  LET mode == value \div 8
      reg == value % 8
  IN  /\ IsGeneral(field)
      /\ \/ mode \in {6, 7}
         \/ reg = 7 /\ mode = 3
         \/ reg = 7 /\ mode = 2 /\ field.kind = "source"

\* Extension words of the first n operands.
Extensions(row, word, n) ==
  Cardinality({s \in 1..n : has_ext(Fields(row)[s], In(word, Fields(row)[s]))})

InRegister == <<"r", "(r)", "(r)+", "@(r)+", "-(r)", "@-(r)", "x(r)", "@x(r)">>

InPC == <<"", "", "#n", "@#n", "", "", "address", "@address">>

\* Mutant: an operand is relative to the first extension word's end.
pdp11_read_ea_first(c, q, field, value, addr, ord) ==
  LET mode == value \div 8
      reg == value % 8
      ext == LittleWord(c, q + 2 * ord)
  IN  IF ~has_ext(field, value) THEN Operand(InRegister[mode + 1], <<reg>>)
      ELSE IF reg # 7 THEN Operand(InRegister[mode + 1], <<ext, reg>>)
      ELSE Operand(InPC[mode + 1], <<IF mode >= 6 THEN Wrap16(addr + 4 + ext) ELSE ext>>)

\* One operand; q is the offset of the first extension word, and ord the
\* number of them before this operand's.
pdp11_read_ea(c, q, field, value, addr, ord) ==
  LET mode == value \div 8
      reg == value % 8
      ext == LittleWord(c, q + 2 * ord)
  IN  IF ~has_ext(field, value) THEN Operand(InRegister[mode + 1], <<reg>>)
      ELSE IF reg # 7 THEN Operand(InRegister[mode + 1], <<ext, reg>>)
      ELSE Operand(InPC[mode + 1],
                   <<IF mode >= 6 THEN Wrap16(addr + 4 + 2 * ord + ext) ELSE ext>>)

OperandText(c, p, addr, row, word, s) ==
  LET field == Fields(row)[s]
      value == In(word, field)
  IN  CASE IsGeneral(field) ->
             pdp11_read_ea(c, p + 2, field, value, addr, Extensions(row, word, s - 1))
        [] field.kind = "register" -> Operand("r", <<value>>)
        [] field.kind = "number"   -> Operand("n", <<value>>)
        [] field.kind = "branch"   -> Operand("address", <<Wrap16(addr + 2 + 2 * AsI8(value))>>)
        [] field.kind = "back"     -> Operand("address", <<Wrap16(addr + 2 - 2 * value)>>)

\* What a row makes of the word at offset p; its whole word is there.
ReadingOf(row, c, p, addr) ==
  LET word == LittleWord(c, p)
      n == Len(Fields(row))
      length == 2 + 2 * Extensions(row, word, n)
      illegal == row.mnemonic \in {"JMP", "WRTLCK"} /\ (word % 64) \div 8 = 0
  IN  IF illegal \/ p + length > Len(c) THEN Refusal(FieldBits[row.class])
      ELSE Reading(FieldBits[row.class], length,
                   Text(row.mnemonic, [s \in 1..n |-> OperandText(c, p, addr, row, word, s)]))

Readings(c, p, addr) == {ReadingOf(row, c, p, addr) : row \in Claims(LittleWord(c, p))}

------------------------------------------------------------------------------
(* asl.  It is not in this repository.  It takes the row of the name, and  *)
(* `#n` only where the field is a source.                                  *)

Place(syntax, seq) == CHOOSE i \in DOMAIN seq : seq[i] = syntax

\* The field's value and the extension word that say an operand; ord counts
\* the extension words before it.
Said(field, operand, addr, ord) ==
  LET syntax == operand.syntax
      n == operand.numbers[1]
      value(v, words) == [value |-> v, words |-> words]
      branch == Distance(n, Wrap16(addr + 2))
  IN  CASE IsGeneral(field) /\ syntax \in {InRegister[i] : i \in 1..6} ->
             {value(8 * (Place(syntax, InRegister) - 1) + n, <<>>)}
        [] IsGeneral(field) /\ syntax \in {"x(r)", "@x(r)"} ->
             {value(8 * (Place(syntax, InRegister) - 1) + operand.numbers[2], <<n>>)}
        [] IsGeneral(field) /\ syntax \in {"address", "@address"} ->
             {value(8 * (Place(syntax, InPC) - 1) + 7, <<Wrap16(n - (addr + 4 + 2 * ord))>>)}
        [] \/ IsGeneral(field) /\ syntax = "@#n"
           \/ field.kind = "source" /\ syntax = "#n" ->
             {value(8 * (Place(syntax, InPC) - 1) + 7, <<n>>)}
        [] field.kind = "register" /\ syntax = "r" -> {value(n, <<>>)}
        [] field.kind = "number" /\ syntax = "n" -> {value(n, <<>>)}
        [] field.kind = "branch" /\ syntax = "address" /\ branch % 2 = 0 /\ branch \in -256..254 ->
             {value((branch \div 2) % 256, <<>>)}
        [] field.kind = "back" /\ syntax = "address" /\ branch % 2 = 0 /\ branch \in -126..0 ->
             {value((-branch) \div 2, <<>>)}
        [] OTHER -> {}

Laid(words) == IF words = <<>> THEN <<>> ELSE LittleBytes(words[1])

\* No instruction has more than two operands.
Assembled(text, addr) ==
  LET rows == {row \in INSTRUCTIONS : row.mnemonic = text.name}
      at(row, s, said) == said.value * 2^Fields(row)[s].shift
  IN  UNION {CASE Len(Fields(row)) = 0 -> {LittleBytes(row.base)}
               [] Len(Fields(row)) = 1 ->
                    {LittleBytes(row.base + at(row, 1, a)) \o Laid(a.words) :
                       a \in Said(Fields(row)[1], text.operands[1], addr, 0)}
               [] OTHER ->
                    UNION {{LittleBytes(row.base + at(row, 1, a) + at(row, 2, b)) \o Laid(a.words) \o Laid(b.words) :
                              b \in Said(Fields(row)[2], text.operands[2], addr, Len(a.words))} :
                           a \in Said(Fields(row)[1], text.operands[1], addr, 0)} : row \in rows}

==============================================================================
