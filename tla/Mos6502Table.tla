---------------------------- MODULE Mos6502Table -----------------------------
(***************************************************************************)
(* The rows of isa/src/mos6502.rs.  The opcodes of a mnemonic lie at fixed *)
(* distances from its base, by addressing mode; a mnemonic is written as   *)
(* its base and the modes it has.                                          *)
(***************************************************************************)
EXTENDS Forms, TLC

\* The operand slots that go with a mode label.
OperandsOf(mode) ==
  CASE mode \in {"implied", "accumulator"} -> <<>>
    [] mode = "immediate" -> <<Operand("Immediate", 1)>>
    [] mode = "relative" -> <<Operand("RelativePc", 1)>>
    [] mode \in {"absolute", "absolute,x", "absolute,y", "indirect"} -> <<Operand("Address", 2)>>
    [] OTHER -> <<Operand("Address", 1)>>

Form(b, mnemonic, mode) ==
  [mnemonic |-> mnemonic, mode |-> mode, opcode |-> <<b>>,
   operands |-> OperandsOf(mode), suffix |-> <<>>]

\* The forms of a mnemonic with the given base and modes.
Forms6502(mnemonic, base, modes) ==
  {Form(base + modes[mode], mnemonic, mode) : mode \in DOMAIN modes}

Without(modes, mode) == [m \in DOMAIN modes \ {mode} |-> modes[m]]

------------------------------------------------------------------------------
AccumulatorModes ==
  "(indirect,x)" :> \h01 @@ "zeropage" :> \h05 @@ "immediate" :> \h09 @@ "absolute" :> \h0D
    @@ "(indirect),y" :> \h11 @@ "zeropage,x" :> \h15 @@ "absolute,y" :> \h19
    @@ "absolute,x" :> \h1D

ShiftModes ==
  "zeropage" :> \h06 @@ "accumulator" :> \h0A @@ "absolute" :> \h0E
    @@ "zeropage,x" :> \h16 @@ "absolute,x" :> \h1E

BitModes == "zeropage" :> \h04 @@ "absolute" :> \h0C

CompareModes == "immediate" :> 0 @@ "zeropage" :> \h04 @@ "absolute" :> \h0C

LoadsAndStores ==
  Forms6502("LDA", \hA0, AccumulatorModes)
    \cup Forms6502("STA", \h80, Without(AccumulatorModes, "immediate"))
    \cup Forms6502("LDX", \hA0, "immediate" :> \h02 @@ "zeropage" :> \h06 @@ "absolute" :> \h0E
                                  @@ "zeropage,y" :> \h16 @@ "absolute,y" :> \h1E)
    \cup Forms6502("LDY", \hA0, CompareModes @@ "zeropage,x" :> \h14 @@ "absolute,x" :> \h1C)
    \cup Forms6502("STX", \h80, "zeropage" :> \h06 @@ "absolute" :> \h0E @@ "zeropage,y" :> \h16)
    \cup Forms6502("STY", \h80, "zeropage" :> \h04 @@ "absolute" :> \h0C @@ "zeropage,x" :> \h14)

\* Mnemonics without an operand: opcode and mnemonic.
Implied(list) == {Form(b, list[b], "implied") : b \in DOMAIN list}

RegistersAndStack ==
  Implied(\hAA :> "TAX" @@ \hA8 :> "TAY" @@ \h8A :> "TXA" @@ \h98 :> "TYA" @@ \hBA :> "TSX"
            @@ \h9A :> "TXS" @@ \h48 :> "PHA" @@ \h68 :> "PLA" @@ \h08 :> "PHP" @@ \h28 :> "PLP"
            @@ \hE8 :> "INX" @@ \hC8 :> "INY" @@ \hCA :> "DEX" @@ \h88 :> "DEY")

Arithmetic ==
  Forms6502("INC", \hE0, Without(ShiftModes, "accumulator"))
    \cup Forms6502("DEC", \hC0, Without(ShiftModes, "accumulator"))
    \cup Forms6502("ADC", \h60, AccumulatorModes) \cup Forms6502("SBC", \hE0, AccumulatorModes)
    \cup Forms6502("AND", \h20, AccumulatorModes) \cup Forms6502("ORA", \h00, AccumulatorModes)
    \cup Forms6502("EOR", \h40, AccumulatorModes) \cup Forms6502("CMP", \hC0, AccumulatorModes)
    \cup Forms6502("CPX", \hE0, CompareModes) \cup Forms6502("CPY", \hC0, CompareModes)
    \cup Forms6502("BIT", \h20, BitModes)
    \cup Forms6502("ASL", \h00, ShiftModes) \cup Forms6502("ROL", \h20, ShiftModes)
    \cup Forms6502("LSR", \h40, ShiftModes) \cup Forms6502("ROR", \h60, ShiftModes)

Branches ==
  \h10 :> "BPL" @@ \h30 :> "BMI" @@ \h50 :> "BVC" @@ \h70 :> "BVS"
    @@ \h90 :> "BCC" @@ \hB0 :> "BCS" @@ \hD0 :> "BNE" @@ \hF0 :> "BEQ"

JumpsAndFlags ==
  Forms6502("JMP", 0, "absolute" :> \h4C @@ "indirect" :> \h6C)
    \cup Forms6502("JSR", 0, "absolute" :> \h20)
    \cup Implied(\h60 :> "RTS" @@ \h40 :> "RTI" @@ \h00 :> "BRK" @@ \hEA :> "NOP"
                   @@ \h18 :> "CLC" @@ \h38 :> "SEC" @@ \h58 :> "CLI" @@ \h78 :> "SEI"
                   @@ \hD8 :> "CLD" @@ \hF8 :> "SED" @@ \hB8 :> "CLV")
    \cup {Form(b, Branches[b], "relative") : b \in DOMAIN Branches}

SET == LoadsAndStores \cup RegistersAndStack \cup Arithmetic \cup JumpsAndFlags

==============================================================================
