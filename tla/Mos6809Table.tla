---------------------------- MODULE Mos6809Table -----------------------------
(***************************************************************************)
(* The 6809 table (isa::mos6809::SET), one row for every mnemonic and      *)
(* operand shape it has an opcode for: SET keeps the four opcodes of a     *)
(* memory operation and the two of a branch in one entry.                  *)
(***************************************************************************)
EXTENDS Words, Sequences

Row(mnemonic, shape, opcode) ==
  [mnemonic |-> mnemonic, shape |-> shape, opcode |-> opcode]

\* Rows whose opcodes follow each other; an empty name leaves one out.
Consecutive(names, page, base, shape) ==
  {Row(names[i], shape, page \o <<base + i - 1>>) : i \in {j \in DOMAIN names : names[j] # ""}}

\* The shapes of a memory operation stand 16 opcodes apart.
InMemory(names, page, base) ==
  Consecutive(names, page, base + 16, "direct")
    \cup Consecutive(names, page, base + 32, "indexed")
    \cup Consecutive(names, page, base + 48, "extended")

WithImmediate(names, page, base, shape) ==
  Consecutive(names, page, base, shape) \cup InMemory(names, page, base)

\* Loads, stores, arithmetic and logic on an accumulator.
Accumulator ==
  WithImmediate(<<"suba", "cmpa", "sbca", "", "anda", "bita", "lda", "", "eora", "adca", "ora", "adda">>,
                <<>>, \h80, "imm8")
    \cup WithImmediate(<<"subb", "cmpb", "sbcb", "", "andb", "bitb", "ldb", "", "eorb", "adcb", "orb", "addb">>,
                       <<>>, \hC0, "imm8")
    \cup InMemory(<<"sta">>, <<>>, \h87) \cup InMemory(<<"stb">>, <<>>, \hC7)

\* The same on 16 bits; half of them stand behind a prefix.
WordOperations ==
  WithImmediate(<<"subd">>, <<>>, \h83, "imm16") \cup WithImmediate(<<"addd">>, <<>>, \hC3, "imm16")
    \cup WithImmediate(<<"cmpx", "", "ldx">>, <<>>, \h8C, "imm16")
    \cup WithImmediate(<<"ldd", "", "ldu">>, <<>>, \hCC, "imm16")
    \cup WithImmediate(<<"cmpd">>, <<\h10>>, \h83, "imm16")
    \cup WithImmediate(<<"cmpy", "", "ldy">>, <<\h10>>, \h8C, "imm16")
    \cup WithImmediate(<<"lds">>, <<\h10>>, \hCE, "imm16")
    \cup WithImmediate(<<"cmpu">>, <<\h11>>, \h83, "imm16")
    \cup WithImmediate(<<"cmps">>, <<\h11>>, \h8C, "imm16")
    \cup InMemory(<<"stx">>, <<>>, \h8F) \cup InMemory(<<"std", "", "stu">>, <<>>, \hCD)
    \cup InMemory(<<"sty">>, <<\h10>>, \h8F) \cup InMemory(<<"sts">>, <<\h10>>, \hCF)

ToConditionCodes ==
  {Row("andcc", "imm8", <<\h1C>>), Row("orcc", "imm8", <<\h1A>>), Row("cwai", "imm8", <<\h3C>>)}

\* Read, modify, write, and the jumps; asl and lsl are one operation.
ReadModifyWrite ==
  LET operations == <<"neg", "", "", "com", "lsr", "", "ror", "asr", "asl", "rol", "dec", "",
                      "inc", "tst", "jmp", "clr">>
      at(names, base) ==
        Consecutive(names, <<>>, base, "direct")
          \cup Consecutive(names, <<>>, base + 96, "indexed")
          \cup Consecutive(names, <<>>, base + 112, "extended")
  IN  at(operations, 0) \cup at(<<"lsl">>, 8) \cup InMemory(<<"jsr">>, <<>>, \h8D)

LoadEffectiveAddress == Consecutive(<<"leax", "leay", "leas", "leau">>, <<>>, \h30, "indexed")

OnAccumulators ==
  Consecutive(<<"nega", "", "", "coma", "lsra", "", "rora", "asra", "asla", "rola", "deca", "",
                "inca", "tsta", "", "clra">>, <<>>, \h40, "inherent")
    \cup Consecutive(<<"negb", "", "", "comb", "lsrb", "", "rorb", "asrb", "aslb", "rolb", "decb", "",
                       "incb", "tstb", "", "clrb">>, <<>>, \h50, "inherent")
    \cup {Row("lsla", "inherent", <<\h48>>), Row("lslb", "inherent", <<\h58>>)}

Inherent ==
  Consecutive(<<"nop", "sync", "", "", "", "", "", "daa", "", "", "", "sex">>, <<>>, \h12, "inherent")
    \cup Consecutive(<<"rts", "abx", "rti", "", "mul", "", "swi">>, <<>>, \h39, "inherent")
    \cup {Row("swi2", "inherent", <<\h10, \h3F>>), Row("swi3", "inherent", <<\h11, \h3F>>)}

Registers ==
  Consecutive(<<"exg", "tfr">>, <<>>, \h1E, "transfer")
    \cup Consecutive(<<"pshs", "puls", "pshu", "pulu">>, <<>>, \h34, "stack")

Branches ==
  LET conditions == <<"", "brn", "bhi", "bls", "bcc", "bcs", "bne", "beq",
                      "bvc", "bvs", "bpl", "bmi", "bge", "blt", "bgt", "ble">>
      alternatives == <<"bhs", "blo">>
      both(names, base) ==
        Consecutive(names, <<>>, base, "short") \cup Consecutive(names, <<\h10>>, base, "long")
  IN  both(conditions, \h20) \cup both(alternatives, \h24)
        \cup {Row("bra", "short", <<\h20>>), Row("bra", "long", <<\h16>>),
              Row("bsr", "short", <<\h8D>>), Row("bsr", "long", <<\h17>>)}

\* Rows an assembler takes and the disassembler leaves alone.
Undocumented6809 ==
  {Row("reset", "inherent", <<\h3E>>), Row("rhf", "inherent", <<\h14>>), Row("hcf", "inherent", <<\h14>>)}

SET6809 ==
  UNION {Accumulator, WordOperations, ToConditionCodes, ReadModifyWrite, LoadEffectiveAddress,
         OnAccumulators, Inherent, Registers, Branches, Undocumented6809}

\* Insn::exemplar: the operand that stands behind the opcode.
CanonicalOperand ==
  [inherent |-> <<>>, short |-> <<2>>, long |-> <<0, 2>>, imm8 |-> <<\h12>>, imm16 |-> <<\h12, \h34>>,
   direct |-> <<\h34>>, indexed |-> <<\h84>>, extended |-> <<\h56, \h78>>,
   transfer |-> <<1>>, stack |-> <<2>>]

Exemplar6809(row) == row.opcode \o CanonicalOperand[row.shape]

==============================================================================
