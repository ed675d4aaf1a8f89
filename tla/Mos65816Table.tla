---------------------------- MODULE Mos65816Table ----------------------------
(***************************************************************************)
(* The rows of isa/src/mos65816.rs, the extension over the 6502: the new   *)
(* addressing modes of its mnemonics, the 16-bit twins of its immediates,  *)
(* and the mnemonics that are new.                                         *)
(***************************************************************************)
EXTENDS Forms, TLC

ExtendedOperandsOf(mode) ==
  CASE mode \in {"implied", "accumulator"} -> <<>>
    [] mode \in {"immediate", "signature"} -> <<Operand("Immediate", 1)>>
    [] mode = "immediate16" -> <<Operand("Immediate", 2)>>
    [] mode = "relative" -> <<Operand("RelativePc", 1)>>
    [] mode = "relative16" -> <<Operand("RelativePc", 2)>>
    [] mode \in {"absolute", "absolute,x", "[absolute]", "(absolute,x)"} -> <<Operand("Address", 2)>>
    [] mode \in {"long", "long,x"} -> <<Operand("Address", 3)>>
    [] mode = "block-move" -> <<Operand("Address", 1), Operand("Address", 1)>>
    [] OTHER -> <<Operand("Address", 1)>>

Form816(b, mnemonic, mode) ==
  [mnemonic |-> mnemonic, mode |-> mode, opcode |-> <<b>>,
   operands |-> ExtendedOperandsOf(mode), suffix |-> <<>>]

Forms816(mnemonic, base, modes) ==
  {Form816(base + modes[mode], mnemonic, mode) : mode \in DOMAIN modes}

\* alu816!, less the immediate
AluModes816 ==
  "(indirect)" :> \h12 @@ "[indirect]" :> \h07 @@ "[indirect],y" :> \h17 @@ "long" :> \h0F
    @@ "long,x" :> \h1F @@ "stack,s" :> \h03 @@ "(stack,s),y" :> \h13

AluBase ==
  "ORA" :> \h00 @@ "AND" :> \h20 @@ "EOR" :> \h40 @@ "ADC" :> \h60 @@ "STA" :> \h80
    @@ "LDA" :> \hA0 @@ "CMP" :> \hC0 @@ "SBC" :> \hE0

AluForms ==
  UNION {Forms816(m, AluBase[m], AluModes816) : m \in DOMAIN AluBase}
    \cup {Form816(AluBase[m] + 9, m, "immediate16") : m \in DOMAIN AluBase \ {"STA"}}

MemoryForms ==
  Forms816("LDX", 0, "immediate16" :> \hA2) \cup Forms816("LDY", 0, "immediate16" :> \hA0)
    \cup Forms816("CPX", 0, "immediate16" :> \hE0) \cup Forms816("CPY", 0, "immediate16" :> \hC0)
    \cup Forms816("BIT", 0, "immediate" :> \h89 @@ "immediate16" :> \h89 @@ "zeropage,x" :> \h34
                              @@ "absolute,x" :> \h3C)
    \cup Forms816("STZ", 0, "zeropage" :> \h64 @@ "zeropage,x" :> \h74 @@ "absolute" :> \h9C
                              @@ "absolute,x" :> \h9E)
    \cup Forms816("INC", 0, "accumulator" :> \h1A) \cup Forms816("DEC", 0, "accumulator" :> \h3A)
    \cup Forms816("TRB", 0, "zeropage" :> \h14 @@ "absolute" :> \h1C)
    \cup Forms816("TSB", 0, "zeropage" :> \h04 @@ "absolute" :> \h0C)

\* JMP and JML share two opcodes.
ControlForms ==
  Forms816("JMP", 0, "long" :> \h5C @@ "[absolute]" :> \hDC @@ "(absolute,x)" :> \h7C)
    \cup Forms816("JML", 0, "long" :> \h5C @@ "[absolute]" :> \hDC)
    \cup Forms816("JSR", 0, "(absolute,x)" :> \hFC) \cup Forms816("JSL", 0, "long" :> \h22)
    \cup Forms816("PEA", 0, "absolute" :> \hF4) \cup Forms816("PEI", 0, "(indirect)" :> \hD4)
    \cup Forms816("PER", 0, "relative16" :> \h62) \cup Forms816("BRL", 0, "relative16" :> \h82)
    \cup Forms816("BRA", 0, "relative" :> \h80)
    \cup Forms816("REP", 0, "immediate" :> \hC2) \cup Forms816("SEP", 0, "immediate" :> \hE2)

Implied816 ==
  \h5B :> "TCD" @@ \h7B :> "TDC" @@ \h1B :> "TCS" @@ \h3B :> "TSC" @@ \h9B :> "TXY"
    @@ \hBB :> "TYX" @@ \hEB :> "XBA" @@ \hFB :> "XCE" @@ \h8B :> "PHB" @@ \hAB :> "PLB"
    @@ \h0B :> "PHD" @@ \h2B :> "PLD" @@ \h4B :> "PHK" @@ \hDA :> "PHX" @@ \h5A :> "PHY"
    @@ \hFA :> "PLX" @@ \h7A :> "PLY" @@ \hCB :> "WAI" @@ \hDB :> "STP" @@ \h6B :> "RTL"

\* Mutant: the reserved opcode is left out.
OtherFormsLessWDM ==
  {Form816(b, Implied816[b], "implied") : b \in DOMAIN Implied816}
    \cup Forms816("MVN", 0, "block-move" :> \h54) \cup Forms816("MVP", 0, "block-move" :> \h44)
    \cup Forms816("COP", 0, "signature" :> \h02)

OtherForms ==
  {Form816(b, Implied816[b], "implied") : b \in DOMAIN Implied816}
    \cup Forms816("MVN", 0, "block-move" :> \h54) \cup Forms816("MVP", 0, "block-move" :> \h44)
    \cup Forms816("COP", 0, "signature" :> \h02) \cup Forms816("WDM", 0, "signature" :> \h42)

SET816 == AluForms \cup MemoryForms \cup ControlForms \cup OtherForms

==============================================================================
