----------------------------- MODULE Disasm6809 ------------------------------
(***************************************************************************)
(* decode_6809: the rows whose opcode stands at an offset, and the text    *)
(* that one of them gives with the bytes behind it, size forces included;  *)
(* indexed_cost and stack_effects of the timing tables, which look at the  *)
(* same postbytes; and lwasm, which reads the texts back.                  *)
(***************************************************************************)
EXTENDS Mos6809Table, Texts

------------------------------------------------------------------------------
(* decode_6809 *)

StartingWith == [b \in Byte |-> {row \in SET6809 \ Undocumented6809 : row.opcode[1] = b}]

\* The rows whose opcode stands at offset p.
Claims(c, p) ==
  {row \in StartingWith[c[p + 1]] :
     /\ p + Len(row.opcode) <= Len(c)
     /\ row.opcode = SubSeq(c, p + 1, p + Len(row.opcode))}

\* Mutant: offsets from the program counter have two bytes.
IndexedExtensionLong(post) ==
  IF post < 128 THEN 0
  ELSE IF post % 16 = 8 THEN 1
  ELSE IF post % 16 \in {9, 12, 13, 15} THEN 2
  ELSE 0

\* Bytes behind the postbyte, by its mode.
IndexedExtension(post) ==
  IF post < 128 THEN 0
  ELSE IF post % 16 \in {8, 12} THEN 1
  ELSE IF post % 16 \in {9, 13, 15} THEN 2
  ELSE 0

Indirect(post) == HasBit(post, 16)

\* The postbytes that are an addressing mode.
IndexedDefined(post) ==
  \/ post < 128
  \/ post % 16 \in {1, 3, 4, 5, 6, 8, 9, 11, 12, 13}
  \/ post % 16 \in {0, 2} /\ ~Indirect(post)
  \/ post = \h9F

TransferRegisters == {0, 1, 2, 3, 4, 5, 8, 9, 10, 11}

\* How many bytes follow the opcode.
OperandLen(row, c, q) ==
  CASE row.shape = "inherent" -> 0
    [] row.shape \in {"imm16", "extended", "long"} -> 2
    [] row.shape = "indexed" -> 1 + (IF q < Len(c) THEN IndexedExtension(c[q + 1]) ELSE 0)
    [] OTHER -> 1

LengthOf(row, c, p) ==
  Len(row.opcode) + OperandLen(row, c, p + Len(row.opcode))

\* The bytes are all there and mean something; otherwise the `?` of the code
\* gives up the whole search.
Readable(row, c, p) ==
  LET q == p + Len(row.opcode)
  IN  /\ p + LengthOf(row, c, p) <= Len(c)
      /\ row.shape = "indexed" => IndexedDefined(c[q + 1])
      /\ row.shape = "transfer" => {c[q + 1] \div 16, c[q + 1] % 16} \subseteq TransferRegisters

\* An operand: its syntax, the size forced on it, whether it is in brackets,
\* and the numbers printed in it.
Shown(syntax, force, indirect, numbers) ==
  [syntax |-> syntax, force |-> force, indirect |-> indirect, numbers |-> numbers]

\* An offset that would fit a shorter form has its size forced.
OffsetForce(post, n) ==
  IF post % 16 = 8 THEN (IF ~Indirect(post) /\ n \in -16..15 THEN "<" ELSE "")
  ELSE IF n <= 127 THEN ">" ELSE ""

AutoSyntax == <<",r+", ",r++", ",-r", ",--r", ",r", "b,r", "a,r", "", "", "", "", "d,r">>

\* What stands behind the postbyte at offset q.
OffsetBehind(c, q) ==
  IF IndexedExtension(c[q + 1]) = 1 THEN AsI8(c[q + 2])
  ELSE IF IndexedExtension(c[q + 1]) = 2 THEN BigWord(c, q + 1) ELSE 0

\* decode_indexed_6809: q is the offset of the postbyte, next the address
\* behind the instruction.  Register bits of pc-relative modes are not read.
Indexed(c, q, next) ==
  LET post == c[q + 1]
      r == (post \div 32) % 4
      mode == post % 16
      offset == OffsetBehind(c, q)
  IN  CASE post < 128 ->
             Shown("n,r", "", FALSE, <<(IF post % 32 >= 16 THEN (post % 32) - 32 ELSE post % 32), r>>)
        [] post >= 128 /\ mode \in {8, 9} ->
             Shown("n,r", OffsetForce(post, offset), Indirect(post), <<offset, r>>)
        [] post >= 128 /\ mode \in {12, 13} ->
             Shown("n,pcr", IF mode = 12 THEN "<" ELSE "", Indirect(post), <<Wrap16(next + offset)>>)
        [] post >= 128 /\ mode = 15 -> Shown("address", "", TRUE, <<offset>>)
        [] OTHER -> Shown(AutoSyntax[mode + 1], "", Indirect(post), <<r>>)

ExtendedForce(v) == IF v < 256 THEN ">" ELSE ""

OperandText(row, c, q, next) ==
  LET plain(syntax, v) == Shown(syntax, "", FALSE, <<v>>)
  IN  CASE row.shape = "inherent" -> Shown("", "", FALSE, <<>>)
        [] row.shape = "short"    -> plain("target", Wrap16(next + AsI8(c[q + 1])))
        [] row.shape = "long"     -> plain("long target", Wrap16(next + BigWord(c, q)))
        [] row.shape = "imm8"     -> plain("#n", c[q + 1])
        [] row.shape = "imm16"    -> plain("#nn", BigWord(c, q))
        [] row.shape = "direct"   -> plain("address", c[q + 1])
        [] row.shape = "extended" ->
             LET v == BigWord(c, q) IN Shown("address", ExtendedForce(v), FALSE, <<v>>)
        [] row.shape = "indexed"  -> Indexed(c, q, next)
        [] row.shape = "transfer" -> Shown("r,r", "", FALSE, <<c[q + 1] \div 16, c[q + 1] % 16>>)
        [] row.shape = "stack"    -> plain("list", c[q + 1])

\* What a row makes of the bytes at p.  Any order of the rows will do.
ReadingOf(row, c, p, addr) ==
  LET next == Wrap16(addr + LengthOf(row, c, p))
  IN  IF ~Readable(row, c, p) THEN Refusal(0)
      ELSE Reading(0, LengthOf(row, c, p),
                   Text(row.mnemonic, <<OperandText(row, c, p + Len(row.opcode), next)>>))

Readings(c, p, addr) == {ReadingOf(row, c, p, addr) : row \in Claims(c, p)}

------------------------------------------------------------------------------
(* isa::mos6809::timing *)

\* indexed_cost: how many bytes it says follow a postbyte, if it is documented.
indexed_cost(post) ==
  LET low == post % 32
  IN  CASE post < 128 -> {0}
        [] post >= 128 /\ low \in {0, 1, 2, 3, 4, 5, 6, \h0B, \h11, \h13, \h14, \h15, \h16, \h1B} -> {0}
        [] post >= 128 /\ low \in {\h08, \h0C, \h18, \h1C} -> {1}
        [] post >= 128 /\ low \in {\h09, \h0D, \h19, \h1D} -> {2}
        [] post = \h9F -> {2}
        [] OTHER -> {}

\* A bit of a byte, and how many of the four from bit n up are set.
BitOf(v, n) == (v \div <<1, 2, 4, 8, 16, 32, 64, 128>>[n + 1]) % 2

OnesFrom(v, n) == BitOf(v, n) + BitOf(v, n + 1) + BitOf(v, n + 2) + BitOf(v, n + 3)

\* stack_effects: how many bytes a register mask moves.
transferred_bytes(mask) == OnesFrom(mask, 0) + 2 * OnesFrom(mask, 4)

\* stack_regs: the registers a mask names, and what each is wide.
stack_regs(u_stack) == <<"cc", "a", "b", "dp", "x", "y", IF u_stack THEN "s" ELSE "u", "pc">>

WidthOf(register) == IF register \in {"cc", "a", "b", "dp"} THEN 1 ELSE 2

\* render_stack_6809: the bytes of the registers in the list.
ListedBytes(row, mask) ==
  LET names == stack_regs(row.mnemonic \in {"pshu", "pulu"})
      listed(n) == IF BitOf(mask, n) = 1 THEN WidthOf(names[n + 1]) ELSE 0
  IN  listed(0) + listed(1) + listed(2) + listed(3) + listed(4) + listed(5) + listed(6) + listed(7)

------------------------------------------------------------------------------
(* lwasm.  It is not in this repository.  It takes the shortest form that  *)
(* holds an operand unless `<` or `>` says which, and a list names at      *)
(* least one register.                                                     *)

\* The postbyte of a mode and what stands behind it.
Postbyte(o, r, mode) == 128 + 32 * r + (IF o.indirect THEN 16 ELSE 0) + mode

\* The ways to lay an indexed operand down; next is where the opcode ends.
IndexedBytes(o, next) ==
  LET n == o.numbers[1]
      at(syntax) == CHOOSE i \in DOMAIN AutoSyntax : AutoSyntax[i] = syntax
  IN  CASE o.syntax = "n,r" /\ o.force = "" /\ ~o.indirect /\ n \in -16..15 ->
             {<<32 * o.numbers[2] + (n % 32)>>}
        [] o.syntax = "n,r" /\ (o.force = "<" \/ (o.force = "" /\ n \in -128..127))
             /\ ~(o.force = "" /\ ~o.indirect /\ n \in -16..15) ->
             {<<Postbyte(o, o.numbers[2], 8), LoByte(n)>>}
        [] o.syntax = "n,r" /\ (o.force = ">" \/ (o.force = "" /\ n > 127)) ->
             {<<Postbyte(o, o.numbers[2], 9)>> \o BigBytes(n)}
        [] o.syntax = "n,pcr" /\ o.force = "<" /\ Distance(n, Wrap16(next + 2)) \in -128..127 ->
             {<<Postbyte(o, 0, 12), LoByte(Distance(n, Wrap16(next + 2)))>>}
        [] o.syntax = "n,pcr" /\ o.force = "" ->
             {<<Postbyte(o, 0, 13)>> \o BigBytes(Wrap16(n - (next + 3)))}
        [] o.syntax = "address" /\ o.indirect -> {<<\h9F>> \o BigBytes(n)}
        [] o.syntax \in {AutoSyntax[i] : i \in DOMAIN AutoSyntax} \ {""} ->
             {<<Postbyte(o, o.numbers[1], at(o.syntax) - 1)>>}
        [] OTHER -> {}

Named == [m \in {row.mnemonic : row \in SET6809} |-> {row \in SET6809 : row.mnemonic = m}]

\* An address without a force is a direct one where it can be.
TakesAddress(row, o, rows) ==
  LET direct == \E other \in rows : other.shape = "direct"
  IN  /\ o.syntax = "address" /\ ~o.indirect
      /\ row.shape = (IF o.force # ">" /\ o.numbers[1] < 256 /\ direct THEN "direct" ELSE "extended")

\* What row may lay down for an operand, opcode excluded.
OperandBytes(row, o, addr) ==
  LET n == o.numbers[1]
      next == addr + Len(row.opcode)
  IN  CASE row.shape = "inherent" /\ o.syntax = "" -> {<<>>}
        [] row.shape = "imm8" /\ o.syntax = "#n" -> {<<n>>}
        [] row.shape = "imm16" /\ o.syntax = "#nn" -> {BigBytes(n)}
        [] row.shape = "short" /\ o.syntax = "target" ->
             LET d == Distance(n, Wrap16(next + 1)) IN IF d \in -128..127 THEN {<<LoByte(d)>>} ELSE {}
        [] row.shape = "long" /\ o.syntax = "long target" -> {BigBytes(Wrap16(n - (next + 2)))}
        [] row.shape = "transfer" /\ o.syntax = "r,r" -> {<<16 * n + o.numbers[2]>>}
        [] row.shape = "stack" /\ o.syntax = "list" -> IF n = 0 THEN {} ELSE {<<n>>}
        [] row.shape = "direct" /\ o.syntax = "address" -> {<<n>>}
        [] row.shape = "extended" /\ o.syntax = "address" -> {BigBytes(n)}
        [] row.shape = "indexed" -> IndexedBytes(o, next)
        [] OTHER -> {}

Assembled(text, addr) ==
  LET rows == Named[text.name]
      o == text.operands[1]
      taking == {row \in rows : row.shape \in {"direct", "extended"} => TakesAddress(row, o, rows)}
  IN  UNION {{row.opcode \o bytes : bytes \in OperandBytes(row, o, addr)} : row \in taking}

\* Lines whose text leaves something out: the register bits of a pc-relative
\* postbyte, and a list of no registers, which no list says.
Unsaid(bytes) ==
  \E row \in Claims(bytes, 0) :
    /\ Len(bytes) > Len(row.opcode)
    /\ LET post == bytes[Len(row.opcode) + 1]
       IN  \/ row.shape = "stack" /\ post = 0
           \/ row.shape = "indexed" /\ post \in 160..255 /\ post % 16 \in {12, 13}

Exemplars == {Exemplar6809(row) : row \in SET6809 \ Undocumented6809}

==============================================================================
