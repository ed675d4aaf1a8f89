------------------------------- MODULE MC65816 -------------------------------
(***************************************************************************)
(* disassemble_65816 over the whole of both tables.                        *)
(***************************************************************************)
EXTENDS Disasm65816, Mos65816Table, Mos6502Table, SequencesExt

MCTable == SET \cup SET816

\* Every opcode before a small and a large operand, cut short at every length.
EveryOpcode ==
  {<<b>> : b \in Byte} \cup {<<b, \h80>> : b \in Byte}
    \cup {<<b, \h12, x>> : b \in Byte, x \in {0, \hFF}}
    \cup {<<b, \h12, x, y>> : b \in Byte, x \in {0, \h34}, y \in {0, \hFE}}

\* REP and SEP as whole pieces, wide and narrow immediates of both registers,
\* bytes that are REP but stand inside an operand, and undecoded long jumps.
Fragments == {<<\hC2>>, <<\hE2>>, <<\h10>>, <<\h20>>, <<\h30>>, <<\hA9>>, <<\hA2>>, <<\h5C>>}

Widths == {<<w, \h20>> : w \in {\hC2, \hE2}} \cup {<<w, \h10>> : w \in {\hC2, \hE2}}
            \cup {<<w, \h30>> : w \in {\hC2, \hE2}}

\* Every string over the fragments' bytes, alone and behind a change of width.
Strings == {FlattenSeq(s) : s \in BoundedSeq(Fragments, 3)}

Bodies == {<<\hA9, \h12, \hC2, \h20>>, <<\hA2, \h12, \hEA, \hA9, \h34, \h56>>, <<\h89, \hE2, \h30>>}

MCCodes ==
  EveryOpcode \cup Strings \cup {w \o s : w \in Widths, s \in Strings}
    \cup {w \o v \o b : w, v \in Widths, b \in Bodies}

MCOrigins == {\h1000, \hFFFE}

==============================================================================
