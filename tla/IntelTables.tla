----------------------------- MODULE IntelTables ------------------------------
(***************************************************************************)
(* The tables of two Intel CPUs.                                           *)
(***************************************************************************)
EXTENDS ByteRows

------------------------------------------------------------------------------
(* isa/src/i8080.rs: the Intel 8080.                                       *)

I8080Registers == <<"b", "c", "d", "e", "h", "l", "m", "a">>
I8080Pairs == <<"b", "d", "h", "sp">>
I8080Stacked == <<"b", "d", "h", "psw">>

I8080Inherent ==
  Across(<<>>, <<"RLC", "RRC", "RAL", "RAR", "DAA", "CMA", "STC", "CMC">>, <<>>, \h07, 8, <<>>)
    \cup Across(<<>>, <<"XTHL", "XCHG", "DI", "EI">>, <<>>, \hE3, 8, <<>>)
    \cup Across(<<>>, <<"RNZ", "RZ", "RNC", "RC", "RPO", "RPE", "RP", "RM">>, <<>>, \hC0, 8, <<>>)
    \cup {Row(<<"NOP">>, <<0>>, <<>>), Row(<<"HLT">>, <<\h76>>, <<>>), Row(<<"RET">>, <<\hC9>>, <<>>),
          Row(<<"SPHL">>, <<\hF9>>, <<>>), Row(<<"PCHL">>, <<\hE9>>, <<>>)}

\* 76 is HLT.
I8080Moves ==
  UNION {Across(<<"MOV", I8080Registers[i]>>, IF i = 7 THEN [I8080Registers EXCEPT ![7] = ""] ELSE I8080Registers,
                <<>>, \h40 + 8 * (i - 1), 1, <<>>) : i \in 1..8}
    \cup Across(<<"MVI">>, I8080Registers, <<"N">>, \h06, 8, <<"byte">>)
    \cup Across(<<"LXI">>, I8080Pairs, <<"NN">>, \h01, 16, <<"word">>)
    \cup Across(<<"LDAX">>, <<"b", "d">>, <<>>, \h0A, 16, <<>>) \cup Across(<<"STAX">>, <<"b", "d">>, <<>>, \h02, 16, <<>>)
    \cup Across(<<>>, <<"SHLD", "LHLD", "STA", "LDA">>, <<"NN">>, \h22, 8, <<"word">>)
    \cup Across(<<"PUSH">>, I8080Stacked, <<>>, \hC5, 16, <<>>) \cup Across(<<"POP">>, I8080Stacked, <<>>, \hC1, 16, <<>>)
    \cup Across(<<>>, <<"OUT", "IN">>, <<"N">>, \hD3, 8, <<"byte">>)

I8080Arithmetic ==
  LET operations == <<"ADD", "ADC", "SUB", "SBB", "ANA", "XRA", "ORA", "CMP">>
  IN  UNION {Across(<<operations[i]>>, I8080Registers, <<>>, \h80 + 8 * (i - 1), 1, <<>>) : i \in 1..8}
        \cup Across(<<>>, <<"ADI", "ACI", "SUI", "SBI", "ANI", "XRI", "ORI", "CPI">>, <<"N">>, \hC6, 8, <<"byte">>)
        \cup Across(<<"INR">>, I8080Registers, <<>>, \h04, 8, <<>>) \cup Across(<<"DCR">>, I8080Registers, <<>>, \h05, 8, <<>>)
        \cup Across(<<"INX">>, I8080Pairs, <<>>, \h03, 16, <<>>) \cup Across(<<"DCX">>, I8080Pairs, <<>>, \h0B, 16, <<>>)
        \cup Across(<<"DAD">>, I8080Pairs, <<>>, \h09, 16, <<>>)

I8080Jumps ==
  Across(<<>>, <<"JNZ", "JZ", "JNC", "JC", "JPO", "JPE", "JP", "JM">>, <<"NN">>, \hC2, 8, <<"word">>)
    \cup Across(<<>>, <<"CNZ", "CZ", "CNC", "CC", "CPO", "CPE", "CP", "CM">>, <<"NN">>, \hC4, 8, <<"word">>)
    \cup Across(<<"RST">>, UpTo7, <<>>, \hC7, 8, <<>>)
    \cup {Row(<<"JMP", "NN">>, <<\hC3>>, <<"word">>), Row(<<"CALL", "NN">>, <<\hCD>>, <<"word">>)}

I8080Rows == UNION {I8080Inherent, I8080Moves, I8080Arithmetic, I8080Jumps}

------------------------------------------------------------------------------
(* isa/src/i8048.rs: the Intel 8048.  JMP and CALL hold the upper bits of  *)
(* their address in the opcode; disassemble_8048 knows them without a row. *)

I8048Working == <<"r0", "r1", "r2", "r3", "r4", "r5", "r6", "r7">>
I8048Pointers == <<"@r0", "@r1">>

\* An operation with the accumulator on @r0, @r1 and, eight further on, r0 to r7.
I8048OnRegisters(before, base) ==
  Across(before, I8048Pointers, <<>>, base, 1, <<>>) \cup Across(before, I8048Working, <<>>, base + 8, 1, <<>>)

I8048Arithmetic ==
  UNION {I8048OnRegisters(<<pair[1], "a">>, 16 * pair[2]) :
           pair \in {<<"ADD", 6>>, <<"ADDC", 7>>, <<"ANL", 5>>, <<"ORL", 4>>, <<"XRL", 13>>, <<"XCH", 2>>, <<"MOV", 15>>}}
    \cup I8048OnRegisters(<<"INC">>, \h10) \cup Across(<<"DEC">>, I8048Working, <<>>, \hC8, 1, <<>>)
    \cup Across(<<>>, <<"DEC", "INC", "CLR", "CPL", "SWAP", "DA", "RRC", "RR">>, <<"a">>, \h07, 16, <<>>)
    \cup Across(<<>>, <<"RL", "RLC">>, <<"a">>, \hE7, 16, <<>>)
    \cup {Row(<<"XCHD", "a", "@r0">>, <<\h30>>, <<>>), Row(<<"XCHD", "a", "@r1">>, <<\h31>>, <<>>)}

I8048FlagOperations ==
  {Row(<<"CLR", "c">>, <<\h97>>, <<>>), Row(<<"CLR", "f0">>, <<\h85>>, <<>>), Row(<<"CLR", "f1">>, <<\hA5>>, <<>>),
   Row(<<"CPL", "c">>, <<\hA7>>, <<>>), Row(<<"CPL", "f0">>, <<\h95>>, <<>>), Row(<<"CPL", "f1">>, <<\hB5>>, <<>>)}

I8048Immediates ==
  {Row(<<"ADD", "a", "#N">>, <<\h03>>, <<"byte">>), Row(<<"ADDC", "a", "#N">>, <<\h13>>, <<"byte">>),
   Row(<<"XRL", "a", "#N">>, <<\hD3>>, <<"byte">>)}
    \cup Across(<<>>, <<"MOV", "", "ORL", "ANL">>, <<"a", "#N">>, \h23, 16, <<"byte">>)
    \cup Across(<<"ORL">>, <<"bus", "p1", "p2">>, <<"#N">>, \h88, 1, <<"byte">>)
    \cup Across(<<"ANL">>, <<"bus", "p1", "p2">>, <<"#N">>, \h98, 1, <<"byte">>)
    \cup Across(<<"MOV">>, I8048Pointers, <<"#N">>, \hB0, 1, <<"byte">>) \cup Across(<<"MOV">>, I8048Working, <<"#N">>, \hB8, 1, <<"byte">>)

I8048Moves ==
  Across(<<"MOV">>, I8048Pointers, <<"a">>, \hA0, 1, <<>>) \cup Across(<<"MOV">>, I8048Working, <<"a">>, \hA8, 1, <<>>)
    \cup Across(<<"MOVX", "a">>, I8048Pointers, <<>>, \h80, 1, <<>>) \cup Across(<<"MOVX">>, I8048Pointers, <<"a">>, \h90, 1, <<>>)
    \cup {Row(<<"MOV", "a", "psw">>, <<\hC7>>, <<>>), Row(<<"MOV", "psw", "a">>, <<\hD7>>, <<>>),
          Row(<<"MOV", "a", "t">>, <<\h42>>, <<>>), Row(<<"MOV", "t", "a">>, <<\h62>>, <<>>),
          Row(<<"MOVP", "a", "@a">>, <<\hA3>>, <<>>), Row(<<"MOVP3", "a", "@a">>, <<\hE3>>, <<>>)}

I8048Ports ==
  LET ports == <<"p4", "p5", "p6", "p7">>
  IN  Across(<<"MOVD", "a">>, ports, <<>>, \h0C, 1, <<>>) \cup Across(<<"MOVD">>, ports, <<"a">>, \h3C, 1, <<>>)
        \cup Across(<<"ORLD">>, ports, <<"a">>, \h8C, 1, <<>>) \cup Across(<<"ANLD">>, ports, <<"a">>, \h9C, 1, <<>>)
        \cup Across(<<"IN", "a">>, <<"p1", "p2">>, <<>>, \h09, 1, <<>>) \cup Across(<<"OUTL">>, <<"p1", "p2">>, <<"a">>, \h39, 1, <<>>)
        \cup {Row(<<"INS", "a", "bus">>, <<\h08>>, <<>>), Row(<<"OUTL", "bus", "a">>, <<\h02>>, <<>>)}

\* Within the page; `rel` is the label of such a jump.
I8048Jumps ==
  Across(<<>>, <<"JTF", "JNT0", "JT0", "JNT1", "JT1", "", "JF1", "JNI", "JNZ", "", "JF0", "JZ", "", "JNC", "JC">>,
         <<"rel">>, \h16, 16, <<"page">>)
    \cup Across(<<>>, <<"JB0", "JB1", "JB2", "JB3", "JB4", "JB5", "JB6", "JB7">>, <<"rel">>, \h12, 32, <<"page">>)
    \cup Across(<<"DJNZ">>, I8048Working, <<"rel">>, \hE8, 1, <<"page">>)

\* The two families disassemble_8048 decodes itself.
I8048LongJumps ==
  {Row(<<"jmp">>, <<\h04 + 32 * high>>, <<"low11">>) : high \in 0..7}
    \cup {Row(<<"call">>, <<\h14 + 32 * high>>, <<"low11">>) : high \in 0..7}

I8048Control ==
  {Row(<<"NOP">>, <<0>>, <<>>), Row(<<"RET">>, <<\h83>>, <<>>), Row(<<"RETR">>, <<\h93>>, <<>>),
   Row(<<"JMPP", "@a">>, <<\hB3>>, <<>>), Row(<<"ENT0", "clk">>, <<\h75>>, <<>>), Row(<<"STRT", "t">>, <<\h55>>, <<>>),
   Row(<<"STRT", "cnt">>, <<\h45>>, <<>>), Row(<<"STOP", "tcnt">>, <<\h65>>, <<>>)}
    \cup Across(<<>>, <<"EN", "DIS">>, <<"i">>, \h05, 16, <<>>) \cup Across(<<>>, <<"EN", "DIS">>, <<"tcnti">>, \h25, 16, <<>>)
    \cup Across(<<"SEL">>, <<"rb0", "rb1", "mb0", "mb1">>, <<>>, \hC5, 16, <<>>)

I8048Rows == UNION {I8048Arithmetic, I8048FlagOperations, I8048Immediates, I8048Moves, I8048Ports, I8048Jumps, I8048LongJumps, I8048Control}

==============================================================================
