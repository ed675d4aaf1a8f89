----------------------------- MODULE Disasm6502 ------------------------------
(***************************************************************************)
(* The two ways isa-disasm decodes the 6502: disassemble_6502 over a flat  *)
(* buffer, which is ByteDisasm over the rows below, and decode_one_6502,   *)
(* which a machine's debugger calls with an address and a way to read its  *)
(* memory.  The second is the first applied to the next three bytes.       *)
(***************************************************************************)
EXTENDS ByteDisasm

CONSTANTS
  Fill        \* what the machine's memory holds outside the buffer

ASSUME FillIsByte == Fill \in Byte

(***************************************************************************)
(* render_6502: the operand syntax of each mode.  Two digits say zero page *)
(* and four say a word, but the accumulator prints like no operand at all  *)
(* and a branch target like an absolute address.                           *)
(***************************************************************************)
Syntax(mode) ==
  CASE mode \in {"implied", "accumulator"} -> "none"
    [] mode \in {"absolute", "relative"} -> "word"
    [] OTHER -> mode

\* The rows of a set of 6502 forms as disassemble_6502 prints them.
Printed(forms) ==
  InstructionSet(0, "Little",
    {[name |-> <<f.mnemonic, Syntax(f.mode)>>, opcode |-> f.opcode,
      operands |-> f.operands, suffix |-> f.suffix] : f \in forms})

------------------------------------------------------------------------------
\* The memory of a machine with the buffer loaded at its origin.
Read(addr) ==
  LET p == Wrap16(addr - origin)
  IN  IF p < Len(code) THEN code[p + 1] ELSE Fill

\* Mutant: two bytes are fetched.
LookaheadShort == 2

\* The longest 6502 instruction.
Lookahead == 3

(***************************************************************************)
(* What the three bytes are enough for: no row is longer, no byte begins   *)
(* two, and the memory the debugger reads holds the whole buffer.          *)
(***************************************************************************)
RowsAreShort == \A f \in Table : FormLen(f) <= 3

OneRowPerByte == \A f, g \in Table : f.opcode[1] = g.opcode[1] => f = g

MemoryHoldsBuffers == \A c \in Codes : Len(c) <= 65536

Fetched(addr) == [k \in 1..Lookahead |-> Read(Wrap16(addr + (k - 1)))]

\* The first line disassemble_6502 gives for buffer c loaded at addr.
FirstLine(c, addr) ==
  IF Readings(c, 0) = {}
  THEN {[text |-> Datum(c, 0), len |-> 1]}
  ELSE {[text |-> Instruction(f, c, 0, addr), len |-> FormLen(f)] : f \in FirstReadings(c, 0)}

decode_one_6502(addr) == FirstLine(Fetched(addr), addr)

(***************************************************************************)
(* The debugger sees what the listing says: asked for the instruction at   *)
(* any line's address, decode_one_6502 gives that line's text and length,  *)
(* also where its bytes wrap past the top of memory.  The one exception is *)
(* a data line at the end of the buffer: where the buffer breaks off       *)
(* inside an instruction the memory goes on.                               *)
(***************************************************************************)
CallbackAgrees ==
  \A k \in DOMAIN out :
    (out[k].text.kind = "instruction" \/ out[k].at + Lookahead <= Len(code)) =>
       decode_one_6502(out[k].addr) = {[text |-> out[k].text, len |-> Len(out[k].bytes)]}

==============================================================================
