-------------------------------- MODULE Forms --------------------------------
(***************************************************************************)
(* The encoding half of the isa crate (isa/src/lib.rs): a `Form` says      *)
(* which bytes an instruction is, in order: fixed opcode bytes, operand    *)
(* bytes, fixed suffix bytes.  `name` is what the row prints as, but for   *)
(* the numbers: its mnemonic and its mode.  Cycles, flags and the one-line *)
(* summary are documentation and are left out.                             *)
(***************************************************************************)
EXTENDS Words, Sequences

OperandKind == {"Immediate", "ImmediateBe", "Address", "RelativePc", "Displacement"}

Endianness == {"Little", "Big"}

Operand(kind, bytes) == [kind |-> kind, bytes |-> bytes]

\* Kinds that hold a signed offset.
Signed(op) == op.kind \in {"RelativePc", "Displacement"}

(***************************************************************************)
(* The rows of one instruction set.  A row carries what decode_one takes   *)
(* from the set it finds it in: the endianness, and the rank of the set in *)
(* the order the sets are walked.                                          *)
(***************************************************************************)
InstructionSet(rank, endianness, forms) ==
  {[rank |-> rank, endianness |-> endianness, name |-> f.name, opcode |-> f.opcode,
    operands |-> f.operands, suffix |-> f.suffix] : f \in forms}

(***************************************************************************)
(* Operand slots.  No form of the tables has more than three (the block    *)
(* transfers of the HuC6280), so the sums over the slots are written out.  *)
(***************************************************************************)
MaxSlots == 3

Width(f, s) == IF s \in DOMAIN f.operands THEN f.operands[s].bytes ELSE 0

OperandLen(f) == Width(f, 1) + Width(f, 2) + Width(f, 3)

\* The bytes of the slots before slot s.
Offset(f, s) == (IF s > 1 THEN Width(f, 1) ELSE 0)
                + (IF s > 2 THEN Width(f, 2) ELSE 0)

\* Form::len
FormLen(f) == Len(f.opcode) + OperandLen(f) + Len(f.suffix)

\* Whether a 16-bit value of this slot is laid down high byte first.
HighByteFirst(op, endianness) ==
  op.kind = "ImmediateBe" \/ (op.bytes = 2 /\ ~Signed(op) /\ endianness = "Big")

(***************************************************************************)
(* What an assembler lays down for a form: the opcode, each operand over   *)
(* its width, the suffix.  `Form::exemplar` is the instance of it with a   *)
(* canonical value in every slot.                                          *)
(***************************************************************************)
OperandBytes(op, endianness, v) ==
  IF op.bytes = 1 THEN <<LoByte(v)>>
  ELSE IF HighByteFirst(op, endianness) THEN <<HiByte(v), LoByte(v)>>
  ELSE <<LoByte(v), HiByte(v)>>

Laid(f, values, s) ==
  IF s \in DOMAIN f.operands
  THEN OperandBytes(f.operands[s], f.endianness, values[s])
  ELSE <<>>

Encode(f, values) ==
  f.opcode \o Laid(f, values, 1) \o Laid(f, values, 2) \o Laid(f, values, 3)
           \o f.suffix

(***************************************************************************)
(* `Form::exemplar`, over the widths the byte-opcode tables use.  It lays  *)
(* words down low byte first whatever the set's endianness; only the       *)
(* big-endian immediate is high byte first.                                *)
(***************************************************************************)
CanonicalBytes(op) ==
  CASE op.kind = "RelativePc"   -> SubSeq(<<2, 0, 0>>, 1, op.bytes)
    [] op.kind = "Displacement" -> <<5>>
    [] op.kind = "ImmediateBe"  -> <<\h12, \h34>>
    [] OTHER -> CASE op.bytes = 1 -> <<\h12>>
                  [] op.bytes = 2 -> <<\h34, \h12>>
                  [] op.bytes = 3 -> <<\h56, \h34, \h12>>
                  [] OTHER        -> <<>>

Exemplar(f) ==
  LET slot(s) == IF s \in DOMAIN f.operands THEN CanonicalBytes(f.operands[s]) ELSE <<>>
  IN  f.opcode \o slot(1) \o slot(2) \o slot(3) \o f.suffix

==============================================================================
