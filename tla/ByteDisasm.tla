----------------------------- MODULE ByteDisasm ------------------------------
(***************************************************************************)
(* Disassembly of the CPUs whose opcodes are fixed bytes, as isa-disasm    *)
(* does it for the Z80 (disassemble_z80) and the 6502 (disassemble_6502):  *)
(* a sweep that asks `decode_one` for the instruction at the cursor and    *)
(* lists one byte as data where there is none.                             *)
(*                                                                         *)
(* `Forms` are the rows of the instruction sets consulted.  A row carries  *)
(* the endianness of its set and its rank in the order decode_one walks    *)
(* the sets; rows of one rank may be walked in any order, and Unambiguous  *)
(* says the order among them is never what decides.                        *)
(***************************************************************************)
EXTENDS Forms

CONSTANTS
  Codes,      \* the buffers disassembled
  Origins,    \* the addresses they are loaded at
  Table       \* the rows of the consulted instruction sets

ASSUME CodesAreBytes == Codes \subseteq Seq(Byte)
ASSUME OriginsAreWords == Origins \subseteq Word16

\* The opcode lengths decode_one tries, the longer first.
OpcodeLens == {1, 2}

(***************************************************************************)
(* The rows are well formed: as many bytes are read for an operand as the  *)
(* form declares for it.  read_operands advances by the KIND of a signed   *)
(* or big-endian operand and by `bytes` of the others, and reads nothing   *)
(* of an operand wider than two bytes; it is only right where both agree.  *)
(***************************************************************************)
ReadsAsDeclared(op) ==
  /\ op.kind \in OperandKind
  /\ op.bytes \in 1..2
  /\ Signed(op) => op.bytes = 1
  /\ op.kind = "ImmediateBe" => op.bytes = 2

ASSUME TableIsWellFormed ==
  \A f \in Table :
    /\ f.rank \in Nat
    /\ f.endianness \in Endianness
    /\ f.opcode \in Seq(Byte) /\ Len(f.opcode) \in OpcodeLens
    /\ f.suffix \in Seq(Byte)
    /\ Len(f.operands) \in 0..MaxSlots
    /\ f.operands \in Seq([kind : OperandKind, bytes : 1..2])
    /\ \A s \in DOMAIN f.operands : ReadsAsDeclared(f.operands[s])

Names == {f.name : f \in Table}

\* The rows lay down the same bytes for the same values.
SameEncoding(f, g) ==
  /\ f.endianness = g.endianness
  /\ f.opcode = g.opcode
  /\ f.operands = g.operands
  /\ f.suffix = g.suffix

\* A text belongs to one encoding: no two rows of one name differ in theirs.
ASSUME NamesTellEncodings ==
  \A f, g \in Table : f.name = g.name => SameEncoding(f, g)

(***************************************************************************)
(* "No prefix byte is itself a one-byte opcode", as decode_one's comment   *)
(* has it; rows that share an opcode are equally long behind it, and those *)
(* that share their suffix too are one encoding.                           *)
(***************************************************************************)
ASSUME OpcodesTellEncodings ==
  \A f, g \in Table : f.opcode[1] = g.opcode[1] =>
    /\ Len(f.opcode) = Len(g.opcode)
    /\ f.opcode = g.opcode =>
         /\ OperandLen(f) = OperandLen(g) /\ Len(f.suffix) = Len(g.suffix)
         /\ f.suffix = g.suffix => SameEncoding(f, g)

VARIABLES code, origin, pos, out

vars == <<code, origin, pos, out>>

------------------------------------------------------------------------------
(* decode_one *)

(* Mutants of the definitions below are named for the slip they make. *)

\* The trailing opcode of DD CB d op is not compared.
MatchesAnySuffix(f, c, p) ==
  LET n == Len(f.opcode)
  IN  /\ n \in OpcodeLens
      /\ p + FormLen(f) <= Len(c)
      /\ SubSeq(c, p + 1, p + n) = f.opcode

\* An instruction that ends where the buffer ends is taken for truncated.
MatchesShortOfTheEnd(f, c, p) ==
  LET n == Len(f.opcode)
      suffix_at == p + n + OperandLen(f)
      end == suffix_at + Len(f.suffix)
  IN  /\ n \in OpcodeLens
      /\ end < Len(c)
      /\ SubSeq(c, p + 1, p + n) = f.opcode
      /\ SubSeq(c, suffix_at + 1, end) = f.suffix

\* The bytes at offset p of buffer c are an instance of form f.
Matches(f, c, p) ==
  LET n == Len(f.opcode)
      suffix_at == p + n + OperandLen(f)
      end == suffix_at + Len(f.suffix)
  IN  /\ n \in OpcodeLens
      /\ end <= Len(c)
      /\ SubSeq(c, p + 1, p + n) = f.opcode
      /\ SubSeq(c, suffix_at + 1, end) = f.suffix

\* The rows by their first opcode byte, which is how far a mismatch goes.
StartingWith == [b \in Byte |-> {f \in Table : f.opcode[1] = b}]

Readings(c, p) == {f \in StartingWith[c[p + 1]] : Matches(f, c, p)}

Before(f, g) ==
  \/ Len(f.opcode) > Len(g.opcode)
  \/ Len(f.opcode) = Len(g.opcode) /\ f.rank < g.rank

FirstReadings(c, p) ==
  LET found == Readings(c, p)
  IN  {f \in found : \A g \in found : ~Before(g, f)}

\* Offsets are read as unsigned bytes.
OperandValueUnsigned(op, endianness, c, q) ==
  IF op.bytes = 1 THEN c[q + 1]
  ELSE IF HighByteFirst(op, endianness) THEN WordOf(c[q + 2], c[q + 1])
  ELSE WordOf(c[q + 1], c[q + 2])

\* read_operands, one slot: the value held in the bytes from offset q.
OperandValue(op, endianness, c, q) ==
  IF Signed(op) THEN AsI8(c[q + 1])
  ELSE IF op.bytes = 1 THEN c[q + 1]
  ELSE IF HighByteFirst(op, endianness) THEN WordOf(c[q + 2], c[q + 1])
  ELSE WordOf(c[q + 1], c[q + 2])

\* Where slot s of a form at offset p starts.
SlotAt(f, p, s) == p + Len(f.opcode) + Offset(f, s)

ReadOperands(f, c, p) ==
  [s \in DOMAIN f.operands |->
     OperandValue(f.operands[s], f.endianness, c, SlotAt(f, p, s))]

(***************************************************************************)
(* Rendering.  The text of a line is the name of the row and the numbers   *)
(* printed in it, left to right: a branch prints the address it leads to,  *)
(* every other operand its value.                                          *)
(***************************************************************************)
RenderOperands(f, values, addr) ==
  [s \in DOMAIN f.operands |->
     IF f.operands[s].kind = "RelativePc"
     THEN Wrap16(Wrap16(addr + FormLen(f)) + values[s])
     ELSE values[s]]

Instruction(f, c, p, addr) ==
  [kind |-> "instruction", name |-> f.name,
   shown |-> RenderOperands(f, ReadOperands(f, c, p), addr)]

Datum(c, p) == [kind |-> "data", shown |-> <<c[p + 1]>>]

------------------------------------------------------------------------------
(* disassemble_z80, disassemble_6502 *)

\* The address does not wrap.
PushUnwrapped(n, text) ==
  /\ out' = Append(out, [at    |-> pos,
                         addr  |-> origin + pos,
                         bytes |-> SubSeq(code, pos + 1, pos + n),
                         text  |-> text])
  /\ pos' = pos + n
  /\ UNCHANGED <<code, origin>>

\* The cursor moves by one byte whatever was listed.
PushOneByte(n, text) ==
  /\ out' = Append(out, [at    |-> pos,
                         addr  |-> Wrap16(origin + pos),
                         bytes |-> SubSeq(code, pos + 1, pos + n),
                         text  |-> text])
  /\ pos' = pos + 1
  /\ UNCHANGED <<code, origin>>

Push(n, text) ==
  /\ out' = Append(out, [at    |-> pos,
                         addr  |-> Wrap16(origin + pos),
                         bytes |-> SubSeq(code, pos + 1, pos + n),
                         text  |-> text])
  /\ pos' = pos + n
  /\ UNCHANGED <<code, origin>>

Init ==
  /\ code \in Codes
  /\ origin \in Origins
  /\ pos = 0
  /\ out = <<>>

\* decode_one found a form: list it and step over it.
EmitInstruction ==
  /\ pos < Len(code)
  /\ \E f \in FirstReadings(code, pos) :
       Push(FormLen(f), Instruction(f, code, pos, Wrap16(origin + pos)))

\* Not a known opcode here: list the byte as data and move on.
EmitData ==
  /\ pos < Len(code)
  /\ Readings(code, pos) = {}
  /\ Push(1, Datum(code, pos))

\* The loop has ended and the listing is returned.
Return ==
  /\ pos >= Len(code)
  /\ UNCHANGED vars

Next == EmitInstruction \/ EmitData \/ Return

Spec == Init /\ [][Next]_vars

\* A call runs until it returns: nothing in the loop waits.
FairSpec == Spec /\ WF_vars(Next)

------------------------------------------------------------------------------
(* The assembler that reads the listing back.  It is not in this           *)
(* repository; it takes a row with the name the line carries and lays the  *)
(* numbers down by that row.  A branch is given as a target address and    *)
(* stored as the distance from the instruction's end.                      *)

Distance(target, next) == AsI16(Wrap16(target - next))

Parsed(f, line) ==
  [s \in DOMAIN f.operands |->
     IF f.operands[s].kind = "RelativePc"
     THEN Distance(line.text.shown[s], Wrap16(line.addr + FormLen(f)))
     ELSE line.text.shown[s]]

Named == [n \in Names |-> {f \in Table : f.name = n}]

\* A number the assembler accepts for a slot; anything else is out of range.
Fits(op, v) ==
  IF Signed(op) THEN v \in -128..127
  ELSE IF op.bytes = 1 THEN v \in Byte
  ELSE v \in Word16

\* What a line may assemble to.
Assembled(line) ==
  IF line.text.kind = "data" THEN {line.text.shown}
  ELSE {Encode(f, Parsed(f, line)) :
          f \in {g \in Named[line.text.name] :
                   \A s \in DOMAIN g.operands : Fits(g.operands[s], Parsed(g, line)[s])}}

------------------------------------------------------------------------------
(* Properties *)

Text ==
  [kind : {"data"}, shown : Seq(Byte)]
    \cup [kind : {"instruction"}, name : Names, shown : Seq(Int)]

TypeOK ==
  /\ code \in Seq(Byte)
  /\ origin \in Word16
  /\ pos \in 0..Len(code)
  /\ out \in Seq([at : Nat, addr : Word16, bytes : Seq(Byte), text : Text])

(***************************************************************************)
(* "Round-trip is byte-exact, even for flat binaries that interleave data" *)
(* (the crate's own promise): whatever the buffer holds, the text of every *)
(* line says which bytes it was listed for.  Read at the line's address it *)
(* assembles to those bytes, and no other row the text could be taken for  *)
(* gives other bytes.                                                      *)
(***************************************************************************)
RoundTrip == \A k \in DOMAIN out : Assembled(out[k]) = {out[k].bytes}

(***************************************************************************)
(* decode_one takes the first row that matches.  Its comment says nothing  *)
(* hangs on that order: no prefix byte is itself a one-byte opcode.  At    *)
(* every instruction the sweep meets, all rows that match the bytes there, *)
(* of both opcode lengths and of every set consulted, lay down the same    *)
(* encoding.                                                               *)
(***************************************************************************)
Unambiguous ==
  pos < Len(code) =>
    \A f, g \in Readings(code, pos) : SameEncoding(f, g)

(***************************************************************************)
(* Every row the tables declare can come back from its own bytes: a buffer *)
(* that begins with a row's exemplar is listed with the whole exemplar as  *)
(* its first line and under a name that assembles to it, not as data and   *)
(* not cut into other instructions.                                        *)
(***************************************************************************)
ExemplarsDecode ==
  out # <<>> =>
    \A f \in StartingWith[code[1]] :
      (FormLen(f) <= Len(code) /\ SubSeq(code, 1, FormLen(f)) = Exemplar(f)) =>
         /\ out[1].text.kind = "instruction"
         /\ \E g \in StartingWith[code[1]] :
              g.name = out[1].text.name /\ SameEncoding(f, g)

\* The lines without their text.
Pieces ==
  [k \in DOMAIN out |->
     [at |-> out[k].at, addr |-> out[k].addr, bytes |-> out[k].bytes]]

Listing == INSTANCE Sweep
             WITH Codes <- Seq(Byte), Origins <- Word16, Unit <- 1, Memory <- 65536,
                  out <- Pieces

(***************************************************************************)
(* The disassembler keeps the promise of Sweep: every iteration consumes   *)
(* at least one byte that is there and lists exactly the bytes consumed,   *)
(* and the sweep reaches the end of the buffer.                            *)
(***************************************************************************)
ImplementsSweep == Listing!FairSpec

==============================================================================
