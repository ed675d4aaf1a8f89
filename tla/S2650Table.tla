------------------------------ MODULE S2650Table ------------------------------
(***************************************************************************)
(* isa/src/s2650.rs: the Signetics 2650.  The low two bits of an opcode    *)
(* are a register or a condition.                                          *)
(***************************************************************************)
EXTENDS ByteRows

Registers == <<"r0", "r1", "r2", "r3">>
NotR0 == <<"", "r1", "r2", "r3">>
Conditions == <<"eq", "gt", "lt", "un">>

\* is_memref_abs_mn: these may be indexed.
MemoryReference ==
  LET m(mnemonic, base) == Across(<<mnemonic>>, Registers, <<>>, base, 1, <<"memref">>)
  IN  m("LODA", \h0C) \cup m("EORA", \h2C) \cup m("ANDA", \h4C) \cup m("IORA", \h6C)
        \cup m("ADDA", \h8C) \cup m("SUBA", \hAC) \cup m("STRA", \hCC) \cup m("COMA", \hEC)

OnRegisters ==
  LET z(mnemonic, registers, base) == Across(<<mnemonic>>, registers, <<>>, base, 1, <<>>)
  IN  z("LODZ", NotR0, 0) \cup z("STRZ", NotR0, \hC0) \cup z("ANDZ", NotR0, \h40)
        \cup z("ADDZ", Registers, \h80) \cup z("SUBZ", Registers, \hA0) \cup z("IORZ", Registers, \h60)
        \cup z("EORZ", Registers, \h20) \cup z("COMZ", Registers, \hE0) \cup z("DAR", Registers, \h94)
        \cup z("RRR", Registers, \h50) \cup z("RRL", Registers, \hD0) \cup z("REDC", Registers, \h30)
        \cup z("REDD", Registers, \h70) \cup z("WRTC", Registers, \hB0) \cup z("WRTD", Registers, \hF0)
        \cup z("RETC", Conditions, \h14) \cup z("RETE", Conditions, \h34)

Immediates ==
  LET i(mnemonic, base) == Across(<<mnemonic>>, Registers, <<>>, base, 1, <<"byte">>)
  IN  i("LODI", \h04) \cup i("EORI", \h24) \cup i("ANDI", \h44) \cup i("REDE", \h54) \cup i("IORI", \h64)
        \cup i("ADDI", \h84) \cup i("SUBI", \hA4) \cup i("WRTE", \hD4) \cup i("COMI", \hE4) \cup i("TMI", \hF4)
        \cup Consecutive(<<"CPSU", "CPSL", "PPSU", "PPSL">>, \h74, <<"byte">>)
        \cup Consecutive(<<"TPSU", "TPSL">>, \hB4, <<"byte">>)

Relative ==
  LET r(mnemonic, field, base) == Across(<<mnemonic>>, field, <<>>, base, 1, <<"rel7">>)
  IN  r("LODR", Registers, \h08) \cup r("EORR", Registers, \h28) \cup r("ANDR", Registers, \h48)
        \cup r("IORR", Registers, \h68) \cup r("ADDR", Registers, \h88) \cup r("SUBR", Registers, \hA8)
        \cup r("STRR", Registers, \hC8) \cup r("COMR", Registers, \hE8)
        \cup r("BCTR", Conditions, \h18) \cup r("BSTR", Conditions, \h38) \cup r("BCFR", Conditions, \h98)
        \cup r("BSFR", Conditions, \hB8) \cup r("BRNR", Registers, \h58) \cup r("BSNR", Registers, \h78)
        \cup r("BIRR", Registers, \hD8) \cup r("BDRR", Registers, \hF8)

AbsoluteBranches ==
  LET a(mnemonic, field, base) == Across(<<mnemonic>>, field, <<>>, base, 1, <<"abs15">>)
  IN  a("BCTA", Conditions, \h1C) \cup a("BSTA", Conditions, \h3C) \cup a("BCFA", Conditions, \h9C)
        \cup a("BSFA", Conditions, \hBC) \cup a("BRNA", Registers, \h5C) \cup a("BSNA", Registers, \h7C)
        \cup a("BIRA", Registers, \hDC) \cup a("BDRA", Registers, \hFC)

Inherent ==
  Consecutive(<<"SPSU", "SPSL">>, \h12, <<>>) \cup Consecutive(<<"LPSU", "LPSL">>, \h92, <<>>)
    \cup {Row(<<"HALT">>, <<\h40>>, <<>>), Row(<<"NOP">>, <<\hC0>>, <<>>)}

Rows == UNION {MemoryReference, OnRegisters, Immediates, Relative, AbsoluteBranches, Inherent}

==============================================================================
