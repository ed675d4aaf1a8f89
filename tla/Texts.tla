-------------------------------- MODULE Texts --------------------------------
(***************************************************************************)
(* What the decoders of the CPUs in `Disassemblers` give and take: the     *)
(* text of a line without its layout, and the reading of an instruction.   *)
(***************************************************************************)
EXTENDS Words, Sequences

\* An operand: how it is written, and the numbers in it.
Operand(syntax, numbers) == [syntax |-> syntax, numbers |-> numbers]

Text(name, operands) == [name |-> name, operands |-> operands]

(***************************************************************************)
(* What one row of a table makes of the bytes its opcode stands at.  Rows  *)
(* of a lower rank are tried first.  A row that cannot read its operands   *)
(* ends the search all the same: the bytes become data.                    *)
(***************************************************************************)
Reading(rank, length, text) == [rank |-> rank, length |-> length, text |-> text]

Refusal(rank) == Reading(rank, 0, Text("", <<>>))

\* u16::from_le_bytes, u16::from_be_bytes and to_le_bytes, to_be_bytes.
LittleWord(c, q) == WordOf(c[q + 1], c[q + 2])
BigWord(c, q) == WordOf(c[q + 2], c[q + 1])
LittleBytes(v) == <<LoByte(v), HiByte(v)>>
BigBytes(v) == <<HiByte(v), LoByte(v)>>

\* The distance from `next` to a target, around the end of memory.
Distance(target, next) == AsI16(Wrap16(target - next))

==============================================================================
