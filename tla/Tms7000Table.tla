----------------------------- MODULE Tms7000Table -----------------------------
(***************************************************************************)
(* isa/src/tms7000.rs: the TI TMS7000, and TRAP, which disassemble_tms7000 *)
(* knows without a row and looks for first.                                *)
(***************************************************************************)
EXTENDS ByteRows, TLC

\* The high nibble is the addressing mode; a jump's offset comes last.
DualOperand ==
  LET operations == <<"MOV", "AND", "OR", "XOR", "", "", "ADD", "ADC", "SUB", "SBB", "MPY", "CMP", "DAC", "DSB">>
      tests == <<"BTJO", "BTJZ">>
      in(mnemonics, low, jump) ==
        Across(<<>>, mnemonics, <<"rn", "a">>, \h10 + low, 1, <<"byte">> \o jump)
          \cup Across(<<>>, mnemonics, <<"%n", "a">>, \h20 + low, 1, <<"byte">> \o jump)
          \cup Across(<<>>, mnemonics, <<"rn", "b">>, \h30 + low, 1, <<"byte">> \o jump)
          \cup Across(<<>>, mnemonics, <<"rn", "rn">>, \h40 + low, 1, <<"byte", "byte">> \o jump)
          \cup Across(<<>>, mnemonics, <<"%n", "b">>, \h50 + low, 1, <<"byte">> \o jump)
          \cup Across(<<>>, mnemonics, <<"b", "a">>, \h60 + low, 1, jump)
          \cup Across(<<>>, mnemonics, <<"%n", "rn">>, \h70 + low, 1, <<"byte", "byte">> \o jump)
  IN  in(operations, 2, <<>>) \cup in(tests, 6, <<"rel">>)
        \cup {Row(<<"MOV", "a", "b">>, <<\hC0>>, <<>>), Row(<<"MOV", "a", "rn">>, <<\hD0>>, <<"byte">>),
              Row(<<"MOV", "b", "rn">>, <<\hD1>>, <<"byte">>)}

Peripheral ==
  LET operations == <<"MOVP", "ANDP", "ORP", "XORP">>
      tests == <<"BTJOP", "BTJZP">>
      in(mnemonics, low, jump) ==
        Across(<<>>, mnemonics, <<"a", "pn">>, \h80 + low, 1, <<"byte">> \o jump)
          \cup Across(<<>>, mnemonics, <<"b", "pn">>, \h90 + low, 1, <<"byte">> \o jump)
          \cup Across(<<>>, mnemonics, <<"%n", "pn">>, \hA0 + low, 1, <<"byte", "byte">> \o jump)
  IN  in(operations, 2, <<>>) \cup in(tests, 6, <<"rel">>)
        \cup {Row(<<"MOVP", "pn", "a">>, <<\h80>>, <<"byte">>), Row(<<"MOVP", "pn", "b">>, <<\h91>>, <<"byte">>)}

ExtendedAddressing ==
  LET operations == <<"LDA", "STA", "BR", "CMPA", "CALL">>
  IN  Across(<<>>, operations, <<"@">>, \h8A, 1, <<"WORD">>) \cup Across(<<>>, operations, <<"*">>, \h9A, 1, <<"byte">>)
        \cup Across(<<>>, operations, <<"@(b)">>, \hAA, 1, <<"WORD">>)
        \cup {Row(<<"MOVD", "%n", "rn">>, <<\h88>>, <<"WORD", "byte">>),
              Row(<<"MOVD", "rn", "rn">>, <<\h98>>, <<"byte", "byte">>),
              Row(<<"MOVD", "%n(b)", "rn">>, <<\hA8>>, <<"WORD", "byte">>)}

SingleRegister ==
  LET operations == <<"DEC", "INC", "INV", "CLR", "XCHB", "SWAP", "PUSH", "POP", "", "DECD", "RR", "RRC", "RL", "RLC">>
  IN  Across(<<>>, operations, <<"a">>, \hB2, 1, <<>>) \cup Across(<<>>, operations, <<"b">>, \hC2, 1, <<>>)
        \cup Across(<<>>, operations, <<"rn">>, \hD2, 1, <<"byte">>)
        \cup {Row(<<"PUSH", "st">>, <<\h0E>>, <<>>), Row(<<"POP", "st">>, <<\h08>>, <<>>),
              Row(<<"DJNZ", "a">>, <<\hBA>>, <<"rel">>), Row(<<"DJNZ", "b">>, <<\hCA>>, <<"rel">>),
              Row(<<"DJNZ", "rn">>, <<\hDA>>, <<"byte", "rel">>)}

Jumps == Consecutive(<<"JMP", "JN", "JZ", "JC", "JP", "JPZ", "JNZ", "JNC">>, \hE0, <<"rel">>)

\* B0 has two names.
Inherent ==
  Consecutive(<<"NOP", "IDLE", "", "", "", "EINT", "DINT", "SETC", "", "STSP", "RETS", "RETI", "", "LDSP">>, 0, <<>>)
    \cup {Row(<<"TSTA">>, <<\hB0>>, <<>>), Row(<<"CLRC">>, <<\hB0>>, <<>>), Row(<<"TSTB">>, <<\hC1>>, <<>>)}

\* TRAP n is 255 - n.
Traps == {Row(<<"trap", ToString(n)>>, <<255 - n>>, <<>>) : n \in 0..23}

Rows == UNION {DualOperand, Peripheral, ExtendedAddressing, SingleRegister, Jumps, Inherent, Traps}

==============================================================================
