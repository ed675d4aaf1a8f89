------------------------------ MODULE MCCp1610 -------------------------------
(***************************************************************************)
(* disassemble_cp1610 over every opcode word.                              *)
(***************************************************************************)
EXTENDS Cp1610, SequencesExt

\* Every decle as an opcode with two words to read, once behind an SDBD.
EveryDecle ==
  {<<w, \h1FF, 0>> : w \in 0..\h3FF} \cup {<<1, w, \h12, \h34>> : w \in \h280..\h3FF}

\* Every shape of jump, and branches whose magnitude wraps.
Operands ==
  {<<4, d, \h2A5>> : d \in 0..\h3FF} \cup {<<w, \hFFFF, 0>> : w \in \h200..\h23F}
    \cup {<<w, 0, 4>> : w \in \h200..\h23F}

\* The prefix, an immediate of one or two decles, a direct and an indirect
\* load, a jump, a word that is no instruction and words that are no decles.
Alphabet == {1, \h2BC, \h280, \h28B, 4, \h35, \h62BC, \h8208}

\* Longer runs, in which a prefix lies well behind the immediate.
PrefixRuns == BoundedSeq({1, \h2BC, \h35}, 6)

MCWords == EveryDecle \cup Operands \cup BoundedSeq(Alphabet, 4) \cup PrefixRuns

\* An odd byte at the end, of any of the short buffers.
OddBytes == {Append(BytesOf(s), \hC5) : s \in BoundedSeq(Alphabet, 2)}

MCCodes == {BytesOf(s) : s \in MCWords} \cup OddBytes

\* Images as the standard ROM format holds them: every word a decle.
MCDecles == {BytesOf(s) : s \in BoundedSeq({1, \h2BC, \h1FF, \h280}, 4)}

MCOrigins == {\h5000, \hFFFE}

\* Far from either end of the address space.
MCMiddle == {\h5000}

==============================================================================
