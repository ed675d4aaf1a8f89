-------------------------------- MODULE MCZ80 --------------------------------
(***************************************************************************)
(* disassemble_z80 with z80n, so that both sets are consulted, over the    *)
(* whole of the tables.                                                    *)
(***************************************************************************)
EXTENDS ByteDisasm, Z80Table, SequencesExt

MCTable == Sets(TRUE)

\* The prefix bytes, a branch, an opcode that is also a DD CB suffix, and the
\* bytes at the ends of the signed range.
Alphabet == {\h18, \h46, \h80, \hCB, \hDD, \hED, \hFF}

Exemplars == {Exemplar(f) : f \in MCTable}

Truncated == {Front(c) : c \in {e \in Exemplars : Len(e) > 1}}

\* Every second byte after every prefix byte, with two bytes to read behind it.
Pairs == {<<p, b, \hFE, \h46>> : p \in {\hCB, \hDD, \hED, \hFD}, b \in Byte}

MCCodes == Exemplars \cup Truncated \cup Pairs \cup BoundedSeq(Alphabet, 4)

\* The sweep over the second origin runs off the end of the address space.
MCOrigins == {\h4000, \hFFFE}

==============================================================================
