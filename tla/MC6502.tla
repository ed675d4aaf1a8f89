------------------------------- MODULE MC6502 --------------------------------
(***************************************************************************)
(* disassemble_6502 and decode_one_6502 over the whole of the table.       *)
(***************************************************************************)
EXTENDS Disasm6502, Mos6502Table, SequencesExt

MCTable == Printed(SET)

\* Every opcode byte, the undefined ones too, before operands at the ends of
\* the ranges, and the same cut short.
Operands == {\h00, \h7F, \h80, \hFE}

EveryOpcode ==
  {<<b, x, y>> : b \in Byte, x \in Operands, y \in {\h00, \hFF}}
    \cup {<<b, x>> : b \in Byte, x \in {\h80}} \cup {<<b>> : b \in Byte}

\* A one-byte, a two-byte and a three-byte instruction, a branch back and an
\* undefined opcode, in every order.
Alphabet == {\h0A, \hA9, \h4C, \hD0, \hFF}

Exemplars == {Exemplar(f) : f \in MCTable}

MCCodes == Exemplars \cup EveryOpcode \cup BoundedSeq(Alphabet, 5)

\* From the second origin on, lines and operands wrap past the top of memory.
MCOrigins == {\h0801, \hFFFE}

\* What CallbackAgrees rests on holds of the table and these buffers.
ASSUME ThreeBytesSuffice == RowsAreShort /\ OneRowPerByte /\ MemoryHoldsBuffers

==============================================================================
