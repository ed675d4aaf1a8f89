------------------------------ MODULE Sm83Table ------------------------------
(***************************************************************************)
(* isa/src/sm83.rs: the Game Boy's CPU.                                    *)
(***************************************************************************)
EXTENDS ByteRows

Registers == <<"b", "c", "d", "e", "h", "l", "[hl]", "a">>
Pairs == <<"bc", "de", "hl", "sp">>
Stacked == <<"bc", "de", "hl", "af">>
Conditions == <<"nz", "z", "nc", "c">>

Control ==
  Across(<<>>, <<"RLCA", "RRCA", "RLA", "RRA", "DAA", "CPL", "SCF", "CCF">>, <<>>, \h07, 8, <<>>)
    \cup {Row(<<"NOP">>, <<0>>, <<>>), Row(<<"STOP">>, <<\h10, 0>>, <<>>),
          Row(<<"HALT">>, <<\h76>>, <<>>), Row(<<"DI">>, <<\hF3>>, <<>>), Row(<<"EI">>, <<\hFB>>, <<>>)}

\* 76 is HALT.
Loads ==
  UNION {Across(<<"LD", Registers[i]>>, IF i = 7 THEN [Registers EXCEPT ![7] = ""] ELSE Registers,
                <<>>, \h40 + 8 * (i - 1), 1, <<>>) : i \in 1..8}
    \cup Across(<<"LD">>, Registers, <<"N">>, \h06, 8, <<"byte">>)
    \cup Across(<<"LD">>, Pairs, <<"NN">>, \h01, 16, <<"word">>)
    \cup Across(<<"LD">>, <<"[bc]", "[de]", "[hl+]", "[hl-]">>, <<"a">>, \h02, 16, <<>>)
    \cup Across(<<"LD", "a">>, <<"[bc]", "[de]", "[hl+]", "[hl-]">>, <<>>, \h0A, 16, <<>>)
    \cup Across(<<>>, <<"LDI", "LDD">>, <<"[hl]", "a">>, \h22, 16, <<>>)
    \cup Across(<<>>, <<"LDI", "LDD">>, <<"a", "[hl]">>, \h2A, 16, <<>>)
    \cup {Row(<<"LD", "[NN]", "a">>, <<\hEA>>, <<"word">>), Row(<<"LD", "a", "[NN]">>, <<\hFA>>, <<"word">>),
          Row(<<"LD", "[NN]", "sp">>, <<\h08>>, <<"word">>), Row(<<"LD", "hl", "sp+D">>, <<\hF8>>, <<"disp">>),
          Row(<<"LD", "sp", "hl">>, <<\hF9>>, <<>>),
          Row(<<"LDH", "[$ff00+N]", "a">>, <<\hE0>>, <<"byte">>), Row(<<"LDH", "a", "[$ff00+N]">>, <<\hF0>>, <<"byte">>),
          Row(<<"LDH", "[c]", "a">>, <<\hE2>>, <<>>), Row(<<"LDH", "a", "[c]">>, <<\hF2>>, <<>>)}

Arithmetic ==
  LET operations == <<"ADD", "ADC", "SUB", "SBC", "AND", "XOR", "OR", "CP">>
  IN  UNION {Across(<<operations[i], "a">>, Registers, <<>>, \h80 + 8 * (i - 1), 1, <<>>) : i \in 1..8}
        \cup Across(<<>>, operations, <<"a", "N">>, \hC6, 8, <<"byte">>)
        \cup Across(<<"INC">>, Registers, <<>>, \h04, 8, <<>>) \cup Across(<<"DEC">>, Registers, <<>>, \h05, 8, <<>>)
        \cup Across(<<"INC">>, Pairs, <<>>, \h03, 16, <<>>) \cup Across(<<"DEC">>, Pairs, <<>>, \h0B, 16, <<>>)
        \cup Across(<<"ADD", "hl">>, Pairs, <<>>, \h09, 16, <<>>)
        \cup {Row(<<"ADD", "sp", "D">>, <<\hE8>>, <<"disp">>)}

Jumps ==
  Across(<<"JP">>, Conditions, <<"NN">>, \hC2, 8, <<"word">>) \cup Across(<<"CALL">>, Conditions, <<"NN">>, \hC4, 8, <<"word">>)
    \cup Across(<<"JR">>, Conditions, <<"E">>, \h20, 8, <<"rel">>) \cup Across(<<"RET">>, Conditions, <<>>, \hC0, 8, <<>>)
    \cup Across(<<"RST">>, <<"00", "08", "10", "18", "20", "28", "30", "38">>, <<>>, \hC7, 8, <<>>)
    \cup Across(<<"PUSH">>, Stacked, <<>>, \hC5, 16, <<>>) \cup Across(<<"POP">>, Stacked, <<>>, \hC1, 16, <<>>)
    \cup {Row(<<"JP", "NN">>, <<\hC3>>, <<"word">>), Row(<<"JP", "hl">>, <<\hE9>>, <<>>),
          Row(<<"CALL", "NN">>, <<\hCD>>, <<"word">>), Row(<<"JR", "E">>, <<\h18>>, <<"rel">>),
          Row(<<"RET">>, <<\hC9>>, <<>>), Row(<<"RETI">>, <<\hD9>>, <<>>)}

\* The page behind CB.
BitOperations ==
  LET plain == <<"RLC", "RRC", "RL", "RR", "SLA", "SRA", "SWAP", "SRL">>
      bits == <<"BIT", "RES", "SET">>
  IN  {Row(<<plain[i], Registers[r]>>, <<\hCB, 8 * (i - 1) + r - 1>>, <<>>) : i \in 1..8, r \in 1..8}
        \cup {Row(<<bits[i], UpTo7[n], Registers[r]>>, <<\hCB, 64 * i + 8 * (n - 1) + r - 1>>, <<>>) :
                i \in 1..3, n \in 1..8, r \in 1..8}

Rows == UNION {Control, Loads, Arithmetic, Jumps, BitOperations}

==============================================================================
