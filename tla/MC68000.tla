------------------------------- MODULE MC68000 -------------------------------
(***************************************************************************)
(* disassemble_68000 on words of every form, with extension words behind   *)
(* them that are small, negative and cut short.                            *)
(***************************************************************************)
EXTENDS Disasm68000, SequencesExt

\* One register for each mode, and each mode without one.
EaFields ==
  {8 * m + 3 : m \in 0..6} \cup {8 * 7 + r : r \in {0, 1, 2, 3, 4, 5}}

\* Every pattern of the ten bits above the field.
Words68000 == {64 * top + field : top \in 0..1023, field \in EaFields}

Bytes2(word) == <<word \div 256, word % 256>>

Small == <<\h00, \h12, \h34, \h56, \h10, \h04, \h00, \h02>>
Negative == <<\hBF, \hFE, \hFF, \h00, \h80, \h00, \hA0, \h00>>

\* Branches and words whose effective address has extension words.
Extended68000 == {w \in Words68000 : w \div 4096 \in {5, 6} \/ w % 64 >= 40}

\* Words that have no extension words, whatever they are.
Short68000 == {w \in Words68000 : w \div 4096 >= 7 /\ w % 64 < 40}

EveryWord ==
  {Append(Bytes2(w), 0) : w \in Short68000} \cup {Bytes2(w) \o Small : w \in Words68000 \ Short68000}
    \cup {Bytes2(w) \o Negative : w \in Extended68000}

\* Every exemplar, complete and without its last byte.
Exemplified ==
  {e.bytes : e \in exemplars} \cup {SubSeq(e.bytes, 1, Len(e.bytes) - 1) : e \in exemplars}

MCCodes == EveryWord \cup Exemplified

MCOrigins == {AddressSpace - 2}

==============================================================================
