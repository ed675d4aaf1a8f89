--------------------------- MODULE EarlyByteTables ----------------------------
(***************************************************************************)
(* The tables of four early CPUs.                                          *)
(***************************************************************************)
EXTENDS ByteRows

------------------------------------------------------------------------------
(* isa/src/scmp.rs: the National SC/MP.                                    *)

ScmpPointers == <<"0", "1", "2", "3">>

\* Auto-indexing the program counter is the immediate form.
ScmpAuto == <<"@1", "@2", "@3">>

ScmpInherent ==
  Consecutive(<<"HALT", "XAE", "CCL", "SCL", "DINT", "IEN", "CSA", "CAS", "NOP">>, 0, <<>>)
    \cup Consecutive(<<"SIO", "", "", "SR", "SRL", "RR", "RRL">>, \h19, <<>>)
    \cup Across(<<>>, <<"LDE", "", "ANE", "ORE", "XRE", "DAE", "ADE", "CAE">>, <<>>, \h40, 8, <<>>)

ScmpExchanges ==
  Across(<<"XPAL">>, ScmpPointers, <<>>, \h30, 1, <<>>) \cup Across(<<"XPAH">>, ScmpPointers, <<>>, \h34, 1, <<>>)
    \cup Across(<<"XPPC">>, ScmpPointers, <<>>, \h3C, 1, <<>>)

ScmpMemoryReference ==
  LET operations == <<"LD", "ST", "AND", "OR", "XOR", "DAD", "ADD", "CAD">>
  IN  UNION {Across(<<operations[i]>>, ScmpPointers, <<>>, \hC0 + 8 * (i - 1), 1, <<"e-disp">>)
               \cup Across(<<operations[i]>>, ScmpAuto, <<>>, \hC5 + 8 * (i - 1), 1, <<"e-disp">>) : i \in 1..8}

ScmpTransfers ==
  LET at(mnemonic, base) == Across(<<mnemonic>>, ScmpPointers, <<>>, base, 1, <<"e-disp">>)
  IN  at("ILD", \hA8) \cup at("DLD", \hB8) \cup at("JMP", \h90) \cup at("JP", \h94)
        \cup at("JZ", \h98) \cup at("JNZ", \h9C)

ScmpImmediates ==
  Across(<<>>, <<"LDI", "", "ANI", "ORI", "XRI", "DAI", "ADI", "CAI">>, <<"imm">>, \hC4, 8, <<"byte">>)
    \cup {Row(<<"DLY", "imm">>, <<\h8F>>, <<"byte">>)}

ScmpRows == UNION {ScmpInherent, ScmpExchanges, ScmpMemoryReference, ScmpTransfers, ScmpImmediates}

------------------------------------------------------------------------------
(* isa/src/cdp1802.rs: the RCA 1802.  A short branch names an address on   *)
(* the page it is on.                                                      *)

\* LDN 0 is IDL; OUT and INP number their ports from 1.
Cdp1802WithRegister ==
  UNION {Across(<<pair[1]>>, Numbers, <<>>, 16 * pair[2], 1, <<>>) :
           pair \in {<<"INC", 1>>, <<"DEC", 2>>, <<"LDA", 4>>, <<"STR", 5>>, <<"GLO", 8>>, <<"GHI", 9>>,
                     <<"PLO", 10>>, <<"PHI", 11>>, <<"SEP", 13>>, <<"SEX", 14>>}}
    \cup Across(<<"LDN">>, Tail(Numbers), <<>>, \h01, 1, <<>>)
    \cup Across(<<"OUT">>, Tail(UpTo7), <<>>, \h61, 1, <<>>) \cup Across(<<"INP">>, Tail(UpTo7), <<>>, \h69, 1, <<>>)

Cdp1802Inherent ==
  Consecutive(<<"RET", "DIS", "LDXA", "STXD", "ADC", "SDB", "SHRC", "SMB", "SAV", "MARK", "REQ", "SEQ",
                "", "", "SHLC">>, \h70, <<>>)
    \cup Consecutive(<<"LDX", "OR", "AND", "XOR", "ADD", "SD", "SHR", "SM", "", "", "", "", "", "", "SHL">>, \hF0, <<>>)
    \cup Consecutive(<<"NOP", "LSNQ", "LSNZ", "LSNF", "LSKP", "", "", "", "LSIE", "LSQ", "LSZ", "LSDF">>, \hC4, <<>>)
    \cup {Row(<<"IDL">>, <<0>>, <<>>), Row(<<"IRX">>, <<\h60>>, <<>>)}

Cdp1802Immediates ==
  Across(<<>>, <<"ADCI", "SDBI", "", "SMBI">>, <<"immediate">>, \h7C, 1, <<"byte">>)
    \cup Across(<<>>, <<"LDI", "ORI", "ANI", "XRI", "ADI", "SDI", "", "SMI">>, <<"immediate">>, \hF8, 1, <<"byte">>)

Cdp1802Branches ==
  Across(<<>>, <<"BR", "BQ", "BZ", "BDF", "B1", "B2", "B3", "B4", "NBR", "BNQ", "BNZ", "BNF", "BN1", "BN2",
                 "BN3", "BN4">>, <<"short">>, \h30, 1, <<"page">>)
    \cup Across(<<>>, <<"LBR", "LBQ", "LBZ", "LBDF", "", "", "", "", "", "LBNQ", "LBNZ", "LBNF">>, <<"long">>,
                \hC0, 1, <<"WORD">>)

Cdp1802Rows == UNION {Cdp1802WithRegister, Cdp1802Inherent, Cdp1802Immediates, Cdp1802Branches}

------------------------------------------------------------------------------
(* isa/src/f8.rs: the Fairchild F8.  Its branches are measured from their  *)
(* own offset byte.                                                        *)

F8Moves ==
  Across(<<"LR", "a">>, <<"ku", "kl", "qu", "ql">>, <<>>, 0, 1, <<>>)
    \cup Across(<<"LR">>, <<"ku", "kl", "qu", "ql">>, <<"a">>, 4, 1, <<>>)
    \cup Across(<<"LR", "a">>, Numbers, <<>>, \h40, 1, <<>>) \cup Across(<<"LR">>, Numbers, <<"a">>, \h50, 1, <<>>)
    \cup {Row(<<"LR">> \o move[1], <<move[2]>>, <<>>) :
            move \in {<<<<"k", "p">>, \h08>>, <<<<"p", "k">>, \h09>>, <<<<"a", "is">>, \h0A>>, <<<<"is", "a">>, \h0B>>,
                      <<<<"p0", "q">>, \h0D>>, <<<<"q", "dc">>, \h0E>>, <<<<"dc", "q">>, \h0F>>, <<<<"dc", "h">>, \h10>>,
                      <<<<"h", "dc">>, \h11>>, <<<<"w", "j">>, \h1D>>, <<<<"j", "w">>, \h1E>>}}

F8Inherent ==
  Consecutive(<<"LM", "ST", "COM", "LNK", "DI", "EI", "POP", "", "", "INC">>, \h16, <<>>)
    \cup Consecutive(<<"NOP", "XDC">>, \h2B, <<>>)
    \cup Consecutive(<<"AM", "AMD", "NM", "OM", "XM", "CM", "ADC">>, \h88, <<>>)
    \cup {Row(<<"PK">>, <<\h0C>>, <<>>)}
    \cup Across(<<>>, <<"SR", "SL">>, <<"1">>, \h12, 1, <<>>) \cup Across(<<>>, <<"SR", "SL">>, <<"4">>, \h14, 1, <<>>)

\* The operand is the low nibble of the opcode.
F8InNibble ==
  UNION {Across(<<pair[1]>>, Numbers, <<>>, 16 * pair[2], 1, <<>>) :
           pair \in {<<"DS", 3>>, <<"LIS", 7>>, <<"INS", 10>>, <<"OUTS", 11>>, <<"AS", 12>>, <<"ASD", 13>>,
                     <<"XS", 14>>, <<"NS", 15>>}}
    \cup Across(<<"LISU">>, UpTo7, <<>>, \h60, 1, <<>>) \cup Across(<<"LISL">>, UpTo7, <<>>, \h68, 1, <<>>)

F8WithOperand ==
  Across(<<>>, <<"LI", "NI", "OI", "XI", "AI", "CI">>, <<"imm">>, \h20, 1, <<"byte">>)
    \cup Across(<<>>, <<"IN", "OUT">>, <<"port">>, \h26, 1, <<"byte">>)
    \cup Across(<<>>, <<"PI", "JMP", "DCI">>, <<"abs">>, \h28, 1, <<"WORD">>)

F8Branches ==
  Across(<<"BT">>, UpTo7, <<>>, \h80, 1, <<"offset">>) \cup Across(<<"BF">>, Numbers, <<>>, \h90, 1, <<"offset">>)
    \cup {Row(<<"BR7">>, <<\h8F>>, <<"offset">>)}

F8Rows == UNION {F8Moves, F8Inherent, F8InNibble, F8WithOperand, F8Branches}

------------------------------------------------------------------------------
(* isa/src/m6800.rs: the Motorola 6800.                                    *)

\* A row of operations in the memory modes their opcodes stand apart by.
M6800InMemory(mnemonics, base) ==
  Across(<<>>, mnemonics, <<"direct">>, base, 1, <<"byte">>)
    \cup Across(<<>>, mnemonics, <<"indexed">>, base + 16, 1, <<"byte">>)
    \cup Across(<<>>, mnemonics, <<"extended">>, base + 32, 1, <<"WORD">>)

M6800WithImmediate(mnemonics, base, slot) ==
  Across(<<>>, mnemonics, <<"immediate">>, base, 1, <<slot>>) \cup M6800InMemory(mnemonics, base + 16)

M6800Accumulators ==
  M6800WithImmediate(<<"SUBA", "CMPA", "SBCA", "", "ANDA", "BITA", "LDAA", "", "EORA", "ADCA", "ORAA", "ADDA">>, \h80, "byte")
    \cup M6800WithImmediate(<<"SUBB", "CMPB", "SBCB", "", "ANDB", "BITB", "LDAB", "", "EORB", "ADCB", "ORAB", "ADDB">>, \hC0, "byte")
    \cup M6800WithImmediate(<<"CPX", "", "LDS">>, \h8C, "WORD") \cup M6800WithImmediate(<<"LDX">>, \hCE, "WORD")
    \cup M6800InMemory(<<"STAA">>, \h97) \cup M6800InMemory(<<"STAB">>, \hD7)
    \cup M6800InMemory(<<"STS">>, \h9F) \cup M6800InMemory(<<"STX">>, \hDF)

\* These have no direct mode.
M6800ReadModifyWrite ==
  LET operations == <<"NEG", "", "", "COM", "LSR", "", "ROR", "ASR", "ASL", "ROL", "DEC", "",
                      "INC", "TST", "JMP", "CLR">>
      at(mnemonics, indexed) ==
        Across(<<>>, mnemonics, <<"indexed">>, indexed, 1, <<"byte">>)
          \cup Across(<<>>, mnemonics, <<"extended">>, indexed + 16, 1, <<"WORD">>)
  IN  at(operations, \h60) \cup at(<<"JSR">>, \hAD)

M6800Branches ==
  Across(<<>>, <<"BRA", "", "BHI", "BLS", "BCC", "BCS", "BNE", "BEQ", "BVC", "BVS", "BPL", "BMI",
                 "BGE", "BLT", "BGT", "BLE">>, <<"relative">>, \h20, 1, <<"rel">>)
    \cup {Row(<<"BSR", "relative">>, <<\h8D>>, <<"rel">>)}

M6800Inherent ==
  LET inherent(mnemonics, base) == Consecutive(mnemonics, base, <<>>)
  IN  inherent(<<"NOP", "", "", "", "", "TAP", "TPA", "INX", "DEX", "CLV", "SEV", "CLC", "SEC", "CLI", "SEI",
                 "SBA", "CBA", "", "", "", "", "TAB", "TBA", "", "DAA", "", "ABA">>, \h01)
        \cup inherent(<<"TSX", "INS", "PULA", "PULB", "DES", "TXS", "PSHA", "PSHB", "", "RTS", "", "RTI",
                        "", "", "WAI", "SWI">>, \h30)
        \cup inherent(<<"NEGA", "", "", "COMA", "LSRA", "", "RORA", "ASRA", "ASLA", "ROLA", "DECA", "",
                        "INCA", "TSTA", "", "CLRA">>, \h40)
        \cup inherent(<<"NEGB", "", "", "COMB", "LSRB", "", "RORB", "ASRB", "ASLB", "ROLB", "DECB", "",
                        "INCB", "TSTB", "", "CLRB">>, \h50)

M6800Rows == UNION {M6800Accumulators, M6800ReadModifyWrite, M6800Branches, M6800Inherent}

==============================================================================
