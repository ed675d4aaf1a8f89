------------------------------ MODULE Z80Table -------------------------------
(***************************************************************************)
(* The rows of isa/src/z80.rs: SET, and NEXT for the Spectrum Next.  A row *)
(* is the text it prints as (mnemonic, then the arguments of its mode      *)
(* label), its opcode bytes, its operand slots and its suffix.  Rows that  *)
(* fill a column or a block of the opcode page are written as one set.     *)
(***************************************************************************)
EXTENDS Forms, TLC

NONE == <<>>
ONE_N == <<Operand("Immediate", 1)>>
ONE_NN == <<Operand("Immediate", 2)>>
ONE_NN_BE == <<Operand("ImmediateBe", 2)>>
ONE_ADDR == <<Operand("Address", 2)>>
ONE_E == <<Operand("RelativePc", 1)>>
ONE_DISP == <<Operand("Displacement", 1)>>
DISP_THEN_N == <<Operand("Displacement", 1), Operand("Immediate", 1)>>
TWO_N == <<Operand("Immediate", 1), Operand("Immediate", 1)>>

\* form, form_u
Form(opcode, name, operands) ==
  [name |-> name, opcode |-> opcode, operands |-> operands, suffix |-> <<>>]

\* form_ddcb: the displacement stands between the prefix and the last byte.
FormDdcb(opcode, suffix, name) ==
  [name |-> name, opcode |-> opcode, operands |-> ONE_DISP, suffix |-> suffix]

\* One row without operands for each opcode of a function from opcode to name.
Plain(prefix, names) == {Form(Append(prefix, b), names[b], NONE) : b \in DOMAIN names}

\* What the three-bit and two-bit fields of an opcode stand for.
Slot(list) == [k \in 0..(Len(list) - 1) |-> list[k + 1]]
Reg == Slot(<<"B", "C", "D", "E", "H", "L", "(HL)", "A">>)
Pair == Slot(<<"BC", "DE", "HL", "SP">>)
StackPair == Slot(<<"BC", "DE", "HL", "AF">>)
Condition == Slot(<<"NZ", "Z", "NC", "C", "PO", "PE", "P", "M">>)
RstTarget == Slot(<<"00", "08", "10", "18", "20", "28", "30", "38">>)
Alu == Slot(<< <<"ADD", "A">>, <<"ADC", "A">>, <<"SUB">>, <<"SBC", "A">>,
               <<"AND">>, <<"XOR">>, <<"OR">>, <<"CP">> >>)
Rotate == Slot(<<"RLC", "RRC", "RL", "RR", "SLA", "SRA", "SLL", "SRL">>)
Digit == Slot(<<"0", "1", "2", "3", "4", "5", "6", "7">>)
Mem == 6   \* the slot of Reg that is memory

------------------------------------------------------------------------------
(* The unprefixed page and the ED page *)

Loads ==
  {Form(<<\h40 + 8 * y + z>>, <<"LD", Reg[y], Reg[z]>>, NONE) :
     <<y, z>> \in ((0..7) \X (0..7)) \ {<<Mem, Mem>>}}
  \cup {Form(<<\h06 + 8 * y>>, <<"LD", Reg[y], "n">>, ONE_N) : y \in 0..7}
  \cup {Form(<<\h01 + 16 * p>>, <<"LD", Pair[p], "nn">>, ONE_NN) : p \in 0..3}
  \cup {Form(<<\h02>>, <<"LD", "(BC)", "A">>, NONE), Form(<<\h12>>, <<"LD", "(DE)", "A">>, NONE),
        Form(<<\h0A>>, <<"LD", "A", "(BC)">>, NONE), Form(<<\h1A>>, <<"LD", "A", "(DE)">>, NONE),
        Form(<<\h22>>, <<"LD", "(nn)", "HL">>, ONE_ADDR), Form(<<\h2A>>, <<"LD", "HL", "(nn)">>, ONE_ADDR),
        Form(<<\h32>>, <<"LD", "(nn)", "A">>, ONE_ADDR), Form(<<\h3A>>, <<"LD", "A", "(nn)">>, ONE_ADDR),
        Form(<<\hF9>>, <<"LD", "SP", "HL">>, NONE)}
  \* The ED encodings of LD (nn),HL and LD HL,(nn) are left out: they would
  \* print like the base-page ones.
  \cup UNION {{Form(<<\hED, \h43 + 16 * p>>, <<"LD", "(nn)", Pair[p]>>, ONE_ADDR),
               Form(<<\hED, \h4B + 16 * p>>, <<"LD", Pair[p], "(nn)">>, ONE_ADDR)} :
                p \in {0, 1, 3}}
  \cup Plain(<<\hED>>, \h47 :> <<"LD", "I", "A">> @@ \h4F :> <<"LD", "R", "A">>
                         @@ \h57 :> <<"LD", "A", "I">> @@ \h5F :> <<"LD", "A", "R">>)

ExchangesAndBranches ==
  Plain(<<>>, \h00 :> <<"NOP">> @@ \h08 :> <<"EX", "AF", "AF'">>
                @@ \hEB :> <<"EX", "DE", "HL">> @@ \hE3 :> <<"EX", "(SP)", "HL">>)
  \cup {Form(<<\h10>>, <<"DJNZ", "e">>, ONE_E), Form(<<\h18>>, <<"JR", "e">>, ONE_E)}
  \cup {Form(<<\h20 + 8 * c>>, <<"JR", Condition[c], "e">>, ONE_E) : c \in 0..3}

Arithmetic ==
  {Form(<<\h80 + 8 * y + z>>, Append(Alu[y], Reg[z]), NONE) : <<y, z>> \in (0..7) \X (0..7)}
  \cup {Form(<<\hC6 + 8 * y>>, Append(Alu[y], "n"), ONE_N) : y \in 0..7}
  \cup UNION {{Form(<<\h04 + 8 * y>>, <<"INC", Reg[y]>>, NONE),
               Form(<<\h05 + 8 * y>>, <<"DEC", Reg[y]>>, NONE)} : y \in 0..7}
  \cup UNION {{Form(<<\h09 + 16 * p>>, <<"ADD", "HL", Pair[p]>>, NONE),
               Form(<<\h03 + 16 * p>>, <<"INC", Pair[p]>>, NONE),
               Form(<<\h0B + 16 * p>>, <<"DEC", Pair[p]>>, NONE),
               Form(<<\hED, \h4A + 16 * p>>, <<"ADC", "HL", Pair[p]>>, NONE),
               Form(<<\hED, \h42 + 16 * p>>, <<"SBC", "HL", Pair[p]>>, NONE)} : p \in 0..3}

AccumulatorAndFlags ==
  Plain(<<>>, \h07 :> <<"RLCA">> @@ \h0F :> <<"RRCA">> @@ \h17 :> <<"RLA">> @@ \h1F :> <<"RRA">>
                @@ \h27 :> <<"DAA">> @@ \h2F :> <<"CPL">> @@ \h37 :> <<"SCF">> @@ \h3F :> <<"CCF">>
                @@ \h76 :> <<"HALT">>)

StackAndJumps ==
  UNION {{Form(<<\hC5 + 16 * p>>, <<"PUSH", StackPair[p]>>, NONE),
          Form(<<\hC1 + 16 * p>>, <<"POP", StackPair[p]>>, NONE)} : p \in 0..3}
  \cup UNION {{Form(<<\hC2 + 8 * c>>, <<"JP", Condition[c], "nn">>, ONE_ADDR),
               Form(<<\hC4 + 8 * c>>, <<"CALL", Condition[c], "nn">>, ONE_ADDR),
               Form(<<\hC0 + 8 * c>>, <<"RET", Condition[c]>>, NONE),
               Form(<<\hC7 + 8 * c>>, <<"RST", RstTarget[c]>>, NONE)} : c \in 0..7}
  \cup {Form(<<\hC3>>, <<"JP", "nn">>, ONE_ADDR), Form(<<\hE9>>, <<"JP", "(HL)">>, NONE),
        Form(<<\hCD>>, <<"CALL", "nn">>, ONE_ADDR), Form(<<\hC9>>, <<"RET">>, NONE)}

InputOutput ==
  {Form(<<\hD3>>, <<"OUT", "(n)", "A">>, ONE_N), Form(<<\hDB>>, <<"IN", "A", "(n)">>, ONE_N)}
  \cup UNION {{Form(<<\hED, \h41 + 8 * y>>, <<"OUT", "(C)", Reg[y]>>, NONE),
               Form(<<\hED, \h40 + 8 * y>>, <<"IN", Reg[y], "(C)">>, NONE)} : y \in (0..7) \ {Mem}}
  \cup Plain(<<>>, \hD9 :> <<"EXX">> @@ \hF3 :> <<"DI">> @@ \hFB :> <<"EI">>)

EdMisc ==
  Plain(<<\hED>>, \h44 :> <<"NEG">> @@ \h45 :> <<"RETN">> @@ \h4D :> <<"RETI">>
                    @@ \h67 :> <<"RRD">> @@ \h6F :> <<"RLD">>
                    @@ \h46 :> <<"IM", "0">> @@ \h56 :> <<"IM", "1">> @@ \h5E :> <<"IM", "2">>
                    @@ \hA0 :> <<"LDI">> @@ \hA8 :> <<"LDD">> @@ \hB0 :> <<"LDIR">> @@ \hB8 :> <<"LDDR">>
                    @@ \hA1 :> <<"CPI">> @@ \hA9 :> <<"CPD">> @@ \hB1 :> <<"CPIR">> @@ \hB9 :> <<"CPDR">>
                    @@ \hA2 :> <<"INI">> @@ \hAA :> <<"IND">> @@ \hB2 :> <<"INIR">> @@ \hBA :> <<"INDR">>
                    @@ \hA3 :> <<"OUTI">> @@ \hAB :> <<"OUTD">> @@ \hB3 :> <<"OTIR">> @@ \hBB :> <<"OTDR">>)

(* The CB page: complete. *)
Rotates == {Form(<<\hCB, 8 * y + z>>, <<Rotate[y], Reg[z]>>, NONE) : <<y, z>> \in (0..7) \X (0..7)}

Bits ==
  UNION {{Form(<<\hCB, \h40 + 8 * n + z>>, <<"BIT", Digit[n], Reg[z]>>, NONE),
          Form(<<\hCB, \h80 + 8 * n + z>>, <<"RES", Digit[n], Reg[z]>>, NONE),
          Form(<<\hCB, \hC0 + 8 * n + z>>, <<"SET", Digit[n], Reg[z]>>, NONE)} :
            <<n, z>> \in (0..7) \X (0..7)}

------------------------------------------------------------------------------
(* The DD (IX) and FD (IY) pages, which are alike.  An index register is   *)
(* described by its prefix, its name, its two halves and its memory slot.  *)

IX == [prefix |-> \hDD, name |-> "IX", high |-> "IXH", low |-> "IXL", ref |-> "(IX)",
       mem |-> "(IX+d)"]
IY == [prefix |-> \hFD, name |-> "IY", high |-> "IYH", low |-> "IYL", ref |-> "(IY)",
       mem |-> "(IY+d)"]

\* The slots 4 and 5 are the halves; a form with no half in it is not listed.
HalfReg(x) == [Reg EXCEPT ![4] = x.high, ![5] = x.low]
Halves == {4, 5}

IndexHalves(x) ==
  {Form(<<x.prefix, \h40 + 8 * y + z>>, <<"LD", HalfReg(x)[y], HalfReg(x)[z]>>, NONE) :
     <<y, z>> \in {yz \in ((0..7) \ {Mem}) \X ((0..7) \ {Mem}) : yz[1] \in Halves \/ yz[2] \in Halves}}
  \cup {Form(<<x.prefix, \h80 + 8 * y + z>>, Append(Alu[y], HalfReg(x)[z]), NONE) :
          <<y, z>> \in (0..7) \X Halves}
  \cup UNION {{Form(<<x.prefix, \h06 + 8 * y>>, <<"LD", HalfReg(x)[y], "n">>, ONE_N),
               Form(<<x.prefix, \h04 + 8 * y>>, <<"INC", HalfReg(x)[y]>>, NONE),
               Form(<<x.prefix, \h05 + 8 * y>>, <<"DEC", HalfReg(x)[y]>>, NONE)} : y \in Halves}

IndexGroup(x) ==
  LET XPair == [Pair EXCEPT ![2] = x.name]
  IN  {Form(<<x.prefix, \h09 + 16 * p>>, <<"ADD", x.name, XPair[p]>>, NONE) : p \in 0..3}
      \cup {Form(<<x.prefix, \h86 + 8 * y>>, Append(Alu[y], x.mem), ONE_DISP) : y \in 0..7}
      \cup UNION {{Form(<<x.prefix, \h46 + 8 * y>>, <<"LD", Reg[y], x.mem>>, ONE_DISP),
                   Form(<<x.prefix, \h70 + y>>, <<"LD", x.mem, Reg[y]>>, ONE_DISP)} :
                     y \in (0..7) \ {Mem}}
      \cup {Form(<<x.prefix, \h34>>, <<"INC", x.mem>>, ONE_DISP),
            Form(<<x.prefix, \h35>>, <<"DEC", x.mem>>, ONE_DISP),
            Form(<<x.prefix, \h36>>, <<"LD", x.mem, "n">>, DISP_THEN_N),
            Form(<<x.prefix, \h21>>, <<"LD", x.name, "nn">>, ONE_NN),
            Form(<<x.prefix, \h22>>, <<"LD", "(nn)", x.name>>, ONE_ADDR),
            Form(<<x.prefix, \h2A>>, <<"LD", x.name, "(nn)">>, ONE_ADDR)}
      \cup Plain(<<x.prefix>>, \h23 :> <<"INC", x.name>> @@ \h2B :> <<"DEC", x.name>>
                                 @@ \hE5 :> <<"PUSH", x.name>> @@ \hE1 :> <<"POP", x.name>>
                                 @@ \hE3 :> <<"EX", "(SP)", x.name>> @@ \hE9 :> <<"JP", x.ref>>
                                 @@ \hF9 :> <<"LD", "SP", x.name>>)

\* DD CB d op: the documented rotates and the bit forms, in memory only.
IndexBits(x) ==
  {FormDdcb(<<x.prefix, \hCB>>, <<8 * y + Mem>>, <<Rotate[y], x.mem>>) :
     y \in {k \in 0..7 : Rotate[k] # "SLL"}}
  \cup UNION {{FormDdcb(<<x.prefix, \hCB>>, <<\h40 + 8 * n + Mem>>, <<"BIT", Digit[n], x.mem>>),
               FormDdcb(<<x.prefix, \hCB>>, <<\h80 + 8 * n + Mem>>, <<"RES", Digit[n], x.mem>>),
               FormDdcb(<<x.prefix, \hCB>>, <<\hC0 + 8 * n + Mem>>, <<"SET", Digit[n], x.mem>>)} : n \in 0..7}

SET ==
  Loads \cup ExchangesAndBranches \cup Arithmetic \cup AccumulatorAndFlags \cup StackAndJumps
    \cup InputOutput \cup EdMisc \cup Rotates \cup Bits
    \cup UNION {IndexHalves(x) \cup IndexGroup(x) \cup IndexBits(x) : x \in {IX, IY}}

------------------------------------------------------------------------------
(* Z80N.  PUSH nn is the one big-endian immediate; MUL has three spellings. *)

NEXT ==
  Plain(<<\hED>>, \h23 :> <<"SWAPNIB">> @@ \h24 :> <<"MIRROR", "A">>
                    @@ \h28 :> <<"BSLA", "DE", "B">> @@ \h29 :> <<"BSRA", "DE", "B">>
                    @@ \h2A :> <<"BSRL", "DE", "B">> @@ \h2B :> <<"BSRF", "DE", "B">>
                    @@ \h2C :> <<"BRLC", "DE", "B">> @@ \h30 :> <<"MUL">>
                    @@ \h31 :> <<"ADD", "HL", "A">> @@ \h32 :> <<"ADD", "DE", "A">>
                    @@ \h33 :> <<"ADD", "BC", "A">> @@ \h90 :> <<"OUTINB">>
                    @@ \h93 :> <<"PIXELDN">> @@ \h94 :> <<"PIXELAD">> @@ \h95 :> <<"SETAE">>
                    @@ \hA4 :> <<"LDIX">> @@ \hA5 :> <<"LDWS">> @@ \hAC :> <<"LDDX">>
                    @@ \hB4 :> <<"LDIRX">> @@ \hB7 :> <<"LDPIRX">> @@ \hBC :> <<"LDDRX">>)
  \cup {Form(<<\hED, \h30>>, <<"MUL", "D", "E">>, NONE), Form(<<\hED, \h30>>, <<"MUL", "DE">>, NONE),
        Form(<<\hED, \h27>>, <<"TEST", "n">>, ONE_N),
        Form(<<\hED, \h34>>, <<"ADD", "HL", "nn">>, ONE_NN),
        Form(<<\hED, \h35>>, <<"ADD", "DE", "nn">>, ONE_NN),
        Form(<<\hED, \h36>>, <<"ADD", "BC", "nn">>, ONE_NN),
        Form(<<\hED, \h8A>>, <<"PUSH", "nn">>, ONE_NN_BE),
        Form(<<\hED, \h91>>, <<"NEXTREG", "n", "n">>, TWO_N),
        Form(<<\hED, \h92>>, <<"NEXTREG", "n", "A">>, ONE_N)}

\* The sets disassemble_z80 consults, in their order.
Sets(z80n) ==
  InstructionSet(0, "Little", SET)
    \cup (IF z80n THEN InstructionSet(1, "Little", NEXT) ELSE {})

==============================================================================
