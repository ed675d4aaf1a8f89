------------------------------- MODULE ByteCpus -------------------------------
(***************************************************************************)
(* The decode_* functions of ten CPUs whose tables are rows of fixed       *)
(* opcodes: all find the row whose opcode stands at the cursor, read its   *)
(* slots behind it, and show what they read.  They differ in the slots,    *)
(* and the tables say which.                                               *)
(***************************************************************************)
EXTENDS Texts, SequencesExt

Huc6280 == INSTANCE Huc6280Table
Sm83 == INSTANCE Sm83Table
Intel == INSTANCE IntelTables
Early == INSTANCE EarlyByteTables
S2650 == INSTANCE S2650Table
Tms7000 == INSTANCE Tms7000Table

\* decode_sm83 looks for opcodes of two bytes first.
ByLength(rows) == {[row EXCEPT !.rank = 2 - Len(row.opcode)] : row \in rows}

Tables ==
  [huc6280 |-> Huc6280!Rows, sm83 |-> ByLength(Sm83!Rows), i8080 |-> Intel!I8080Rows, m6800 |-> Early!M6800Rows,
   cdp1802 |-> Early!Cdp1802Rows, i8048 |-> Intel!I8048Rows, scmp |-> Early!ScmpRows, f8 |-> Early!F8Rows,
   s2650 |-> S2650!Rows, tms7000 |-> Tms7000!Rows]

CPUS == DOMAIN Tables

StartingWith ==
  [chip \in CPUS |-> [b \in Byte |-> {row \in Tables[chip] : row.opcode[1] = b}]]

\* Mutant: an opcode that ends the buffer is not looked up.
ClaimsShort(chip, c, p) ==
  {row \in StartingWith[chip][c[p + 1]] :
     /\ p + Len(row.opcode) < Len(c)
     /\ row.opcode = SubSeq(c, p + 1, p + Len(row.opcode))}

Claims(chip, c, p) ==
  {row \in StartingWith[chip][c[p + 1]] :
     /\ p + Len(row.opcode) <= Len(c)
     /\ row.opcode = SubSeq(c, p + 1, p + Len(row.opcode))}

------------------------------------------------------------------------------
(* Reading a slot and showing it *)

Wide == {"word", "WORD", "abs", "abs15", "memref"}

\* How many bytes the first n slots of a row take.
Before(row, n) == n + Cardinality({s \in 1..n : row.slots[s] \in Wide})

RowLen(row) == Len(row.opcode) + Before(row, Len(row.slots))

\* The value at offset q.  These are high byte first but for two.
Value(slot, c, q) ==
  IF slot \in {"word", "abs"} THEN LittleWord(c, q)
  ELSE IF slot \in Wide THEN BigWord(c, q)
  ELSE c[q + 1]

\* An address of the page that addr is on.
OnPage(addr, low) == addr - (addr % 256) + low

\* A displacement of seven bits.
AsI7(v) == IF v >= 64 THEN v - 128 ELSE v

\* An address that would fit the zero page is forced not to.
AbsForced(v) == IF v < 256 THEN "a:n" ELSE "n"

\* An address, and one that is only where the address lies.
Starred(v, bit) == IF HasBit(v, bit) THEN "*n" ELSE "n"

\* The same with register 3 added, which may be counted up or down before.
Indexing(bit) == IF bit = 1 THEN <<"*n r3+", "*n r3-", "*n r3">> ELSE <<"n r3+", "n r3-", "n r3">>

\* The index control of a memory reference; only register 3 is looked at.
IndexControl(row, v) == IF row.name[2] = "r3" THEN (v \div 8192) % 4 ELSE 0

\* v as it is shown; next is the address behind the instruction.
Shown(row, slot, v, addr, next) ==
  LET number(n) == Operand("n", <<n>>)
  IN  CASE slot \in {"byte", "word", "WORD"} -> number(v)
        [] slot = "disp"   -> number(AsI8(v))
        [] slot = "e-disp" -> IF v = 128 THEN Operand("e", <<>>) ELSE number(AsI8(v))
        [] slot = "rel"    -> number(Wrap16(next + AsI8(v)))
        [] slot = "offset" -> number(Wrap16(addr + 1 + AsI8(v)))
        [] slot = "page"   -> number(OnPage(addr, v))
        [] slot = "low11"  -> number(256 * (row.opcode[1] \div 32) + v)
        [] slot = "zp"     -> number(v)
        [] slot = "abs"    -> Operand(AbsForced(v), <<v>>)
        [] slot = "rel7"   -> Operand(Starred(v, 128), <<Wrap16(addr + 2 + AsI7(v % 128))>>)
        [] slot = "abs15"  -> Operand(Starred(v, 32768), <<v % 32768>>)
        [] slot = "memref" ->
             IF IndexControl(row, v) # 0
             THEN Operand(Indexing(v \div 32768)[IndexControl(row, v)], <<v % 8192>>)
             ELSE Operand(Starred(v, 32768), <<v % 32768>>)

\* An indexed memory reference is register 0's.
NameOf(row, c, p) ==
  IF row.slots = <<"memref">> /\ IndexControl(row, Value("memref", c, p + 1)) # 0
  THEN <<row.name[1], "r0">>
  ELSE row.name

NextAddr(row, addr) == Wrap16(addr + RowLen(row))

OperandOf(row, s, c, p, addr) ==
  LET slot == row.slots[s]
      q == p + Len(row.opcode) + Before(row, s - 1)
  IN  Shown(row, slot, Value(slot, c, q), addr, NextAddr(row, addr))

TextOf(row, c, p, addr) ==
  Text(NameOf(row, c, p), [s \in DOMAIN row.slots |-> OperandOf(row, s, c, p, addr)])

ReadingOf(row, c, p, addr) ==
  IF p + RowLen(row) > Len(c) THEN Reading(row.rank, 0, Text(<<>>, <<>>))
  ELSE Reading(row.rank, RowLen(row), TextOf(row, c, p, addr))

Readings(chip, c, p, addr) == {ReadingOf(row, c, p, addr) : row \in Claims(chip, c, p)}

\* Memory references of the 2650 that are shown with an address wider than
\* it is, the bits of the index control with it.
Unsaid(chip, bytes) ==
  \E row \in Claims(chip, bytes, 0) :
    row.slots = <<"memref">> /\ row.name[2] # "r3" /\ (bytes[2] \div 32) % 4 # 0

------------------------------------------------------------------------------
(* The assemblers: asl, ca65 and rgbasm.  They are not in this repository. *)

\* What an operand lays down in a slot, from the end of the instruction.
Laid(row, slot, operand, addr, next) ==
  LET n == operand.numbers[1]
      plain == operand.syntax = "n"
      star == operand.syntax = "*n"
      signed(d) == IF plain /\ d \in -128..127 THEN {<<LoByte(d)>>} ELSE {}
      starred(word, bit) == word + (IF star THEN bit ELSE 0)
      d7 == Distance(n, Wrap16(addr + 2))
  IN  CASE slot = "byte" -> IF plain /\ n \in Byte THEN {<<n>>} ELSE {}
        [] slot = "word" -> IF plain THEN {LittleBytes(n)} ELSE {}
        [] slot = "WORD" -> IF plain THEN {BigBytes(n)} ELSE {}
        [] slot = "disp" -> signed(n)
        [] slot = "e-disp" -> IF operand.syntax = "e" THEN {<<128>>} ELSE signed(n)
        [] slot = "rel" -> signed(Distance(n, next))
        [] slot = "offset" -> signed(Distance(n, Wrap16(addr + 1)))
        [] slot = "page" -> {<<LoByte(n)>>}
        [] slot = "low11" -> IF n \div 256 = row.opcode[1] \div 32 THEN {<<LoByte(n)>>} ELSE {}
        [] slot = "zp" -> IF plain /\ n < 256 THEN {<<n>>} ELSE {}
        [] slot = "abs" -> IF n >= 256 \/ operand.syntax = "a:n" THEN {LittleBytes(n)} ELSE {}
        [] slot = "rel7" ->
             IF (plain \/ star) /\ d7 \in -64..63 THEN {<<starred(d7 % 128, 128)>>} ELSE {}
        [] slot = "abs15" -> IF (plain \/ star) /\ n < 32768 THEN {BigBytes(starred(n, 32768))} ELSE {}
        [] slot = "memref" -> IF (plain \/ star) /\ n < 8192 THEN {BigBytes(starred(n, 32768))} ELSE {}

\* An operand indexed by register 3 takes that register's opcode.
Indexed(row, operand) ==
  {<<row.opcode[1] + 3>> \o BigBytes(operand.numbers[1] + 8192 * w[1] + 32768 * w[2]) :
     w \in {x \in (1..3) \X (0..1) : row.name[2] = "r0" /\ operand.syntax = Indexing(x[2])[x[1]]}}

Named ==
  [chip \in CPUS |->
     [n \in {row.name : row \in Tables[chip]} |-> {row \in Tables[chip] : row.name = n}]]

\* What follows the opcode, slot by slot; no row has more than three.
LaidAt(row, s, operands, addr) ==
  IF s > Len(row.slots) THEN {<<>>} ELSE Laid(row, row.slots[s], operands[s], addr, NextAddr(row, addr))

Followed(fronts, backs) == {x \o y : x \in fronts, y \in backs}

Encoded(row, operands, addr) ==
  LET laid(s) == LaidAt(row, s, operands, addr)
  IN  Followed(Followed(Followed({row.opcode}, laid(1)), laid(2)), laid(3))

Assembled(chip, text, addr) ==
  UNION {Encoded(row, text.operands, addr)
           \cup (IF row.slots = <<"memref">> THEN Indexed(row, text.operands[1]) ELSE {}) :
           row \in Named[chip][text.name]}

\* Form::exemplar: the number that stands in each slot.
CanonicalOf(slot) ==
  CASE slot \in {"rel", "offset", "rel7"} -> <<2>>
    [] slot = "disp" -> <<5>>
    [] slot \in Wide -> <<\h34, \h12>>
    [] OTHER -> <<\h12>>

Exemplars ==
  [chip \in CPUS |->
     {row.opcode \o FlattenSeq([s \in DOMAIN row.slots |-> CanonicalOf(row.slots[s])]) : row \in Tables[chip]}]

==============================================================================
