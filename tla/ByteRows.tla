------------------------------- MODULE ByteRows -------------------------------
(***************************************************************************)
(* The rows of the tables whose opcodes are fixed bytes, for the CPUs      *)
(* listed in `ByteCpus`.  A row's name is what its text says but for the   *)
(* numbers: its mnemonic and the pieces of its mode label.  Its slots say  *)
(* how each operand lies in the bytes and how it is shown.                 *)
(***************************************************************************)
EXTENDS Texts

Row(name, opcode, slots) == [rank |-> 0, name |-> name, opcode |-> opcode, slots |-> slots]

\* Rows that differ in one piece of the name, their opcodes `step` apart; an
\* empty piece leaves one out.
Across(before, pieces, after, base, step, slots) ==
  {Row(before \o <<pieces[i]>> \o after, <<base + (i - 1) * step>>, slots) :
     i \in {j \in DOMAIN pieces : pieces[j] # ""}}

Consecutive(mnemonics, base, slots) == Across(<<>>, mnemonics, <<>>, base, 1, slots)

\* The numbers of registers, bits and ports in mode labels.
Numbers == <<"0", "1", "2", "3", "4", "5", "6", "7",
             "8", "9", "10", "11", "12", "13", "14", "15">>

UpTo7 == SubSeq(Numbers, 1, 8)

==============================================================================
