------------------------------ MODULE Ca65Tables -----------------------------
(***************************************************************************)
(* The rows of the CPUs disassemble_ca65 serves: the 6502 with one of the  *)
(* extensions of isa/src, and SWEET 16.  Rows that lie at fixed distances  *)
(* from each other are written as a base and the distances.                *)
(***************************************************************************)
EXTENDS Mos6502Table

Ca65OperandsOf(mode) ==
  CASE mode = "immediate16" -> <<Operand("Immediate", 2)>>
    [] mode = "(absolute,x)" -> <<Operand("Address", 2)>>
    [] mode = "relative16" -> <<Operand("RelativePc", 2)>>
    [] mode = "zeropage,relative" -> <<Operand("Address", 1), Operand("RelativePc", 1)>>
    [] mode = "accumulator,relative" -> <<Operand("RelativePc", 1)>>
    [] mode = "immediate,zeropage" -> <<Operand("Immediate", 1), Operand("Address", 1)>>
    [] OTHER -> OperandsOf(mode)

FormCa65(opcode, mnemonic, mode) ==
  [mnemonic |-> mnemonic, mode |-> mode, opcode |-> opcode,
   operands |-> Ca65OperandsOf(mode), suffix |-> <<>>]

\* A mnemonic's forms: the opcode of each of its modes.
Modes(mnemonic, opcodes) ==
  {FormCa65(<<opcodes[mode]>>, mnemonic, mode) : mode \in DOMAIN opcodes}

\* Forms of one mode: the opcode of each mnemonic.
Ones(mode, opcodes) == {FormCa65(<<opcodes[m]>>, m, mode) : m \in DOMAIN opcodes}

\* One mnemonic per bit, the bit its last character.
PerBit(stem, base, step, mode) ==
  {FormCa65(<<base + step * n>>, stem \o ToString(n), mode) : n \in 0..7}

------------------------------------------------------------------------------
(* isa/src/mos65c02.rs *)

CMOS_COMPATIBLE ==
  Ones("implied", [PHX |-> \hDA, PHY |-> \h5A, PLX |-> \hFA, PLY |-> \h7A])
    \cup Ones("accumulator", [INC |-> \h1A, DEC |-> \h3A])
    \cup Ones("relative", [BRA |-> \h80])
    \cup Modes("STZ", "zeropage" :> \h64 @@ "zeropage,x" :> \h74 @@ "absolute" :> \h9C
                        @@ "absolute,x" :> \h9E)
    \cup Modes("TRB", "zeropage" :> \h14 @@ "absolute" :> \h1C)
    \cup Modes("TSB", "zeropage" :> \h04 @@ "absolute" :> \h0C)
    \cup Modes("BIT", "immediate" :> \h89 @@ "zeropage,x" :> \h34 @@ "absolute,x" :> \h3C)
    \cup Modes("JMP", "(absolute,x)" :> \h7C)

\* The opcodes of the accumulator's instructions through a zero-page pointer.
ThroughPointer ==
  [ORA |-> \h12, AND |-> \h32, EOR |-> \h52, ADC |-> \h72, STA |-> \h92, LDA |-> \hB2,
   CMP |-> \hD2, SBC |-> \hF2]

CMOS_SET == CMOS_COMPATIBLE \cup Ones("(indirect)", ThroughPointer)

ROCKWELL_ADDITIONS ==
  PerBit("RMB", \h07, 16, "zeropage") \cup PerBit("SMB", \h87, 16, "zeropage")
    \cup PerBit("BBR", \h0F, 16, "zeropage,relative")
    \cup PerBit("BBS", \h8F, 16, "zeropage,relative")

ROCKWELL_SET == CMOS_SET \cup ROCKWELL_ADDITIONS

WDC_SET == ROCKWELL_SET \cup Ones("implied", [WAI |-> \hCB, STP |-> \hDB])

------------------------------------------------------------------------------
(* isa/src/csg65ce02.rs *)

LongBranches ==
  [LBPL |-> \h13, LBMI |-> \h33, LBVC |-> \h53, LBVS |-> \h73, LBCC |-> \h93, LBCS |-> \hB3,
   LBNE |-> \hD3, LBEQ |-> \hF3, BSR |-> \h63, LBRU |-> \h83, LBRA |-> \h83]

CE_ADDITIONS ==
  Ones("(indirect),z", ThroughPointer)
    \cup Ones("(stack-indirect),y", [STA |-> \h82, LDA |-> \hE2])
    \cup Modes("JSR", "indirect" :> \h22 @@ "(absolute,x)" :> \h23)
    \cup Modes("STX", "absolute,y" :> \h9B) \cup Modes("STY", "absolute,x" :> \h8B)
    \cup Ones("relative", [BRU |-> \h80]) \cup Ones("relative16", LongBranches)
    \cup Modes("ASR", "accumulator" :> \h43 @@ "zeropage" :> \h44 @@ "zeropage,x" :> \h54)
    \cup Ones("absolute", [ASW |-> \hCB, ROW |-> \hEB])
    \cup Modes("CPZ", "immediate" :> \hC2 @@ "zeropage" :> \hD4 @@ "absolute" :> \hDC)
    \cup Ones("zeropage", [DEW |-> \hC3, INW |-> \hE3])
    \cup Modes("LDZ", "immediate" :> \hA3 @@ "absolute" :> \hAB @@ "absolute,x" :> \hBB)
    \cup Modes("PHW", "immediate16" :> \hF4 @@ "absolute" :> \hFC)
    \cup Ones("immediate", [RTN |-> \h62])
    \cup Ones("implied", [CLE |-> \h02, SEE |-> \h03, INZ |-> \h1B, DEZ |-> \h3B, NEG |-> \h42,
                          TSY |-> \h0B, TYS |-> \h2B, TAZ |-> \h4B, TAB |-> \h5B, TZA |-> \h6B,
                          TBA |-> \h7B, PHZ |-> \hDB, PLZ |-> \hFB])

CE_CORE == CMOS_COMPATIBLE \cup ROCKWELL_ADDITIONS \cup CE_ADDITIONS

CSG65CE02_SET == CE_CORE \cup Ones("implied", [AUG |-> \h5C])

CSG4502_SET == CE_CORE \cup Ones("implied", [MAP |-> \h5C, EOM |-> \hEA])

------------------------------------------------------------------------------
(* isa/src/mega45gs02.rs *)

\* The prefix that makes an instruction act on Q, and the one that makes a
\* pointer 32 bits wide.
Quad == <<\h42, \h42>>
Wide == <<\hEA>>

OnQ(mnemonic, opcodes) ==
  {FormCa65(Append(Quad, opcodes[mode]), mnemonic, mode) : mode \in DOMAIN opcodes}

\* Zero page, absolute, and through a pointer of 16 and of 32 bits.
QuadAccumulator(mnemonic, base, index) ==
  OnQ(mnemonic, "zeropage" :> base + \h05 @@ "absolute" :> base + \h0D
                  @@ ("(indirect)" \o index) :> base + \h12)
    \cup {FormCa65(Quad \o Wide \o <<base + \h12>>, mnemonic, "[indirect]" \o index)}

QuadShift(mnemonic, accumulator, base) ==
  OnQ(mnemonic, "accumulator" :> accumulator @@ "zeropage" :> base + \h06
                  @@ "absolute" :> base + \h0E @@ "zeropage,x" :> base + \h16
                  @@ "absolute,x" :> base + \h1E)

Additions45GS02 ==
  QuadAccumulator("ORQ", 0, "") \cup QuadAccumulator("ANDQ", \h20, "")
    \cup QuadAccumulator("EORQ", \h40, "") \cup QuadAccumulator("ADCQ", \h60, "")
    \cup QuadAccumulator("STQ", \h80, "") \cup QuadAccumulator("LDQ", \hA0, ",z")
    \cup QuadAccumulator("CMPQ", \hC0, "") \cup QuadAccumulator("SBCQ", \hE0, "")
    \cup QuadShift("ASLQ", \h0A, 0) \cup QuadShift("ROLQ", \h2A, \h20)
    \cup QuadShift("LSRQ", \h4A, \h40) \cup QuadShift("RORQ", \h6A, \h60)
    \cup QuadShift("DEQ", \h3A, \hC0) \cup QuadShift("INQ", \h1A, \hE0)
    \cup OnQ("BITQ", "zeropage" :> \h24 @@ "absolute" :> \h2C)
    \cup OnQ("ASRQ", "accumulator" :> \h43 @@ "zeropage" :> \h44 @@ "zeropage,x" :> \h54)
    \cup {FormCa65(Append(Wide, ThroughPointer[m]), m, "[indirect],z") : m \in DOMAIN ThroughPointer}

MEGA45GS02_SET == CSG4502_SET \cup Additions45GS02

------------------------------------------------------------------------------
(* isa/src/m740.rs *)

M740_SET ==
  Modes("JSR", "(indirect)" :> \h02 @@ "special-page" :> \h22) \cup Modes("JMP", "(indirect)" :> \hB2)
    \cup PerBit("BBS", \h03, 32, "accumulator,relative")
    \cup PerBit("BBS", \h07, 32, "zeropage,relative")
    \cup PerBit("BBC", \h13, 32, "accumulator,relative")
    \cup PerBit("BBC", \h17, 32, "zeropage,relative")
    \cup PerBit("SEB", \h0B, 32, "accumulator") \cup PerBit("SEB", \h0F, 32, "zeropage")
    \cup PerBit("CLB", \h1B, 32, "accumulator") \cup PerBit("CLB", \h1F, 32, "zeropage")
    \cup Ones("implied", [CLT |-> \h12, SET |-> \h32, STP |-> \h42, WIT |-> \hC2])
    \cup Ones("accumulator", [DEC |-> \h1A, INC |-> \h3A])
    \cup Ones("immediate,zeropage", [LDM |-> \h3C])
    \cup Ones("zeropage", [COM |-> \h44, TST |-> \h64, RRF |-> \h82])
    \cup Ones("zeropage,x", [MUL |-> \h62, DIV |-> \hE2]) \cup Ones("relative", [BRA |-> \h80])

------------------------------------------------------------------------------
(* isa/src/nmos6502_undocumented.rs, isa/src/c64dtv2.rs *)

ReadModifyWrite(mnemonic, base) ==
  Modes(mnemonic, "(indirect,x)" :> base @@ "zeropage" :> base + \h04 @@ "absolute" :> base + \h0C
                    @@ "(indirect),y" :> base + \h10 @@ "zeropage,x" :> base + \h14
                    @@ "absolute,y" :> base + \h18 @@ "absolute,x" :> base + \h1C)

DTV_SHARED_INSTRUCTIONS ==
  ReadModifyWrite("SLO", \h03) \cup ReadModifyWrite("RLA", \h23) \cup ReadModifyWrite("SRE", \h43)
    \cup ReadModifyWrite("RRA", \h63) \cup ReadModifyWrite("DCP", \hC3)
    \cup ReadModifyWrite("ISC", \hE3)
    \cup Modes("SAX", "zeropage" :> \h87 @@ "zeropage,y" :> \h97 @@ "(indirect,x)" :> \h83
                        @@ "absolute" :> \h8F)
    \cup Modes("LAX", "zeropage" :> \hA7 @@ "zeropage,y" :> \hB7 @@ "(indirect,x)" :> \hA3
                        @@ "(indirect),y" :> \hB3 @@ "absolute" :> \hAF @@ "absolute,y" :> \hBF)
    \cup Ones("absolute,y", [LAS |-> \hBB, TAS |-> \h9B, SHA |-> \h9F, SHX |-> \h9E])
    \cup Ones("(indirect),y", [SHA |-> \h93]) \cup Ones("absolute,x", [SHY |-> \h9C])
    \cup Ones("immediate", [ASR |-> \h4B, ARR |-> \h6B, SBX |-> \hCB, ANE |-> \h8B, LXA |-> \hAB])
    \cup Modes("DOP", "implied" :> \h80 @@ "immediate" :> \h80 @@ "zeropage" :> \h04
                        @@ "zeropage,x" :> \h14)
    \cup Modes("TOP", "implied" :> \h0C @@ "absolute" :> \h0C @@ "absolute,x" :> \h1C)
    \cup Modes("NOP", "implied" :> \hEA @@ "immediate" :> \h80 @@ "zeropage" :> \h04
                        @@ "zeropage,x" :> \h14 @@ "absolute" :> \h0C @@ "absolute,x" :> \h1C)
    \cup Ones("implied", [JAM |-> \h02])

ANC_ADDITION == Ones("immediate", [ANC |-> \h0B])

UNDOCUMENTED_SET == DTV_SHARED_INSTRUCTIONS \cup ANC_ADDITION

C64DTV2_CA65_SET ==
  DTV_SHARED_INSTRUCTIONS \cup Ones("relative", [BRA |-> \h12])
    \cup Ones("immediate", [SAC |-> \h32, SIR |-> \h42]) \cup ANC_ADDITION

------------------------------------------------------------------------------
(* isa/src/sweet16.rs: the register is part of the opcode and of the mode. *)

WithRegister(mnemonic, base, before, after, operands) ==
  {[mnemonic |-> mnemonic, mode |-> before \o ToString(r) \o after, opcode |-> <<base + r>>,
    operands |-> operands, suffix |-> <<>>] : r \in 0..15}

Direct(opcodes) == UNION {WithRegister(m, opcodes[m], "r", "", <<>>) : m \in DOMAIN opcodes}

Indirect(opcodes) == UNION {WithRegister(m, opcodes[m], "@r", "", <<>>) : m \in DOMAIN opcodes}

SWEET16_SET ==
  WithRegister("SET", \h10, "r", ",immediate", <<Operand("Immediate", 2)>>)
    \cup Direct([LD |-> \h20, ST |-> \h30, ADD |-> \hA0, SUB |-> \hB0, CPR |-> \hD0, INR |-> \hE0,
                 DCR |-> \hF0])
    \cup Indirect([LD |-> \h40, ST |-> \h50, LDD |-> \h60, STD |-> \h70, POP |-> \h80,
                   STP |-> \h90, POPD |-> \hC0])
    \cup Ones("implied", [RTN |-> 0, BK |-> \h0A, RS |-> \h0B])
    \cup Ones("relative", [BR |-> 1, BNC |-> 2, BC |-> 3, BP |-> 4, BM |-> 5, BZ |-> 6, BNZ |-> 7,
                           BM1 |-> 8, BNM1 |-> 9, BS |-> \h0C])

==============================================================================
