----------------------------- MODULE Disasm65816 -----------------------------
(***************************************************************************)
(* disassemble_65816.  The width of an accumulator or index immediate is   *)
(* not in the byte stream: the sweep tracks it from the REP and SEP it     *)
(* passes, and puts a width directive into the listing whenever it changes,*)
(* so that the assembler that reads the listing back keeps the same widths.*)
(*                                                                         *)
(* The two parties never talk: the listing is all the assembler sees.  The *)
(* assembler (ca65) is not in this repository and is modelled from what    *)
(* the listing relies on: .a8/.a16/.i8/.i16 set the widths, REP and SEP do *)
(* not, an address takes the smallest mode that holds it unless a:/f: says *)
(* otherwise, and it starts with 8-bit widths as the sweep does.           *)
(***************************************************************************)
EXTENDS Forms, FiniteSets

CONSTANTS
  Codes,      \* the buffers disassembled
  Origins,    \* the addresses they are loaded at
  Table       \* the forms of the 6502 set and of the 65816 extension

ASSUME CodesAreBytes == Codes \subseteq Seq(Byte)
ASSUME OriginsAreWords == Origins \subseteq Word16
ASSUME TableIsFinite == IsFiniteSet(Table)
ASSUME TableIsWellFormed ==
  \A f \in Table :
    /\ f.opcode \in [1..1 -> Byte]
    /\ f.suffix = <<>>
    /\ Len(f.operands) \in 0..MaxSlots
    /\ f.operands \in Seq([kind : OperandKind, bytes : 1..3])

VARIABLES
  code, origin, pos, out,
  a, i        \* the immediate widths in force, in bytes

vars == <<code, origin, pos, out, a, i>>

------------------------------------------------------------------------------
(* decode_65816 *)

\* The forms of every row with this opcode byte.
Candidates == [b \in Byte |-> {f \in Table : f.opcode[1] = b}]

IndexMnemonics == {"LDX", "LDY", "CPX", "CPY"}

\* The candidates are taken for an immediate pair unless there is just one.
WantedMode(cands, a_width, i_width) ==
  LET want == IF \E f \in cands : f.mnemonic \in IndexMnemonics THEN i_width ELSE a_width
  IN  IF want = 2 THEN "immediate16" ELSE "immediate"

Selected(b, a_width, i_width) ==
  LET cands == Candidates[b]
  IN  IF Cardinality(cands) = 1 THEN cands
      ELSE {f \in cands : f.mode = WantedMode(cands, a_width, i_width)}

\* The form decoded at offset p: none where its operands run past the buffer.
Decoded(c, p, a_width, i_width) ==
  {f \in Selected(c[p + 1], a_width, i_width) : p + FormLen(f) <= Len(c)}

\* The little-endian value of n bytes at offset q.
LittleEndian(c, q, n) ==
  c[q + 1] + (IF n > 1 THEN 256 * c[q + 2] ELSE 0) + (IF n > 2 THEN 65536 * c[q + 3] ELSE 0)

OperandValue(op, c, q) ==
  LET v == LittleEndian(c, q, op.bytes)
  IN  IF op.kind # "RelativePc" THEN v
      ELSE IF op.bytes = 1 THEN AsI8(v) ELSE AsI16(v)

Values(f, c, p) ==
  [s \in DOMAIN f.operands |-> OperandValue(f.operands[s], c, p + 1 + Offset(f, s))]

------------------------------------------------------------------------------
(* render_816 *)

\* What a mode looks like in ca65 syntax: modes that differ only in the size
\* of their address look alike.
Shape(mode) ==
  CASE mode \in {"immediate", "immediate16"} -> "#"
    [] mode \in {"zeropage", "absolute", "long", "signature", "relative", "relative16"} -> "addr"
    [] mode \in {"zeropage,x", "absolute,x", "long,x"} -> "addr,x"
    [] mode \in {"zeropage,y", "absolute,y"} -> "addr,y"
    [] mode \in {"indirect", "(indirect)"} -> "(addr)"
    [] mode \in {"(indirect,x)", "(absolute,x)"} -> "(addr,x)"
    [] mode \in {"[indirect]", "[absolute]"} -> "[addr]"
    [] OTHER -> mode

IsBranch(f) == f.mode \in {"relative", "relative16"}

ZeroPageModes == {"zeropage", "zeropage,x", "zeropage,y"}
AbsoluteModes == {"absolute", "absolute,x", "absolute,y"}
LongModes == {"long", "long,x"}

\* Mutant: only long addresses are pinned.
PrefixLongOnly(mode, v) == IF mode \in LongModes /\ v < 65536 THEN 3 ELSE 0

\* The size pinned by an a: or f: prefix, 0 where there is none.
SizePrefix(mode, v) ==
  CASE mode \in AbsoluteModes /\ v < 256 -> 2
    [] mode \in LongModes /\ v < 65536 -> 3
    [] OTHER -> 0

Target(addr, len, v) == Wrap16(Wrap16(addr + len) + Wrap16(v))

Shown(f, values, addr) ==
  CASE IsBranch(f) -> <<Target(addr, FormLen(f), values[1])>>
    [] f.mode = "block-move" -> <<values[2], values[1]>>
    [] OTHER -> values

Instruction(f, values, addr) ==
  [kind |-> "instruction", mnemonic |-> f.mnemonic, shape |-> Shape(f.mode),
   force |-> IF values = <<>> THEN 0 ELSE SizePrefix(f.mode, values[1]),
   shown |-> Shown(f, values, addr)]

Datum(b) == [kind |-> "data", shown |-> <<b>>]

\* directive_816
Directive(register, width) == [kind |-> "directive", register |-> register, width |-> width]

------------------------------------------------------------------------------
(* What the tables must be for the listing to be read back. *)

\* The modes that look alike and differ in the size of their address.
Size(mode) ==
  CASE mode \in ZeroPageModes -> 1
    [] mode \in AbsoluteModes -> 2
    [] mode \in LongModes -> 3
    [] OTHER -> 0

\* Two branches aside, a slot holds an unsigned value; only the block moves
\* have two slots.
ASSUME SlotsFitModes ==
  \A f \in Table :
    /\ IsBranch(f) <=> \E s \in DOMAIN f.operands : f.operands[s].kind = "RelativePc"
    /\ IsBranch(f) => Len(f.operands) = 1 /\ f.operands[1].bytes \in {1, 2}
    /\ IF f.mode = "block-move"
       THEN Len(f.operands) = 2 /\ f.operands[1].bytes = 1 /\ f.operands[2].bytes = 1
       ELSE Len(f.operands) <= 1
    /\ Size(f.mode) # 0 => OperandLen(f) = Size(f.mode)

\* An immediate shares its opcode only with its twin of the other width.
ASSUME ImmediatesArePaired ==
  \A f \in Table :
    Shape(f.mode) = "#" =>
      /\ OperandLen(f) = IF f.mode = "immediate" THEN 1 ELSE 2
      /\ \A g \in Table : g.opcode = f.opcode => g.mnemonic = f.mnemonic

\* Two forms that look alike are the twins of an immediate, or differ in the
\* size of their address.
ASSUME TextsTellFormsApart ==
  \A f, g \in Table :
    f # g /\ f.mnemonic = g.mnemonic /\ Shape(f.mode) = Shape(g.mode) =>
      /\ OperandLen(f) # OperandLen(g)
      /\ IF Shape(f.mode) = "#" THEN f.opcode = g.opcode ELSE Size(f.mode) # 0

ASSUME RepAndSepAreImmediate ==
  \A f \in Table : f.mnemonic \in {"REP", "SEP"} => f.mode = "immediate"

------------------------------------------------------------------------------
(* disassemble_65816 *)

\* Mutant: the address does not wrap.
LineUnwrapped(bytes, text) ==
  [at |-> pos, addr |-> origin + pos, bytes |-> bytes, text |-> text]

Line(bytes, text) ==
  [at |-> pos, addr |-> Wrap16(origin + pos), bytes |-> bytes, text |-> text]

\* Mutant: the status bit is not looked at.
WidthAfterAnyBit(f, values, bit, width) ==
  IF f.mnemonic = "REP" THEN 2 ELSE IF f.mnemonic = "SEP" THEN 1 ELSE width

\* What REP or SEP makes of a width governed by the given status bit.
WidthAfter(f, values, bit, width) ==
  IF f.mnemonic \in {"REP", "SEP"} /\ HasBit(values[1], bit)
  THEN IF f.mnemonic = "REP" THEN 2 ELSE 1
  ELSE width

\* Mutant: the index directive is forgotten.
ChangedAccumulatorOnly(register, old, new) ==
  IF new = old \/ register = "i" THEN <<>> ELSE <<Line(<<>>, Directive(register, new))>>

\* Mutant: every instruction announces the widths.
ChangedAlways(register, old, new) == <<Line(<<>>, Directive(register, new))>>

\* A directive line, but only for a width that changes.
Changed(register, old, new) ==
  IF new = old THEN <<>> ELSE <<Line(<<>>, Directive(register, new))>>

Init ==
  /\ code \in Codes
  /\ origin \in Origins
  /\ pos = 0
  /\ out = <<>>
  /\ a = 1
  /\ i = 1

EmitInstruction ==
  /\ pos < Len(code)
  /\ \E f \in Decoded(code, pos, a, i) :
       LET values == Values(f, code, pos)
           bytes == SubSeq(code, pos + 1, pos + FormLen(f))
       IN  /\ a' = WidthAfter(f, values, \h20, a)
           /\ i' = WidthAfter(f, values, \h10, i)
           /\ out' = Append(out, Line(bytes, Instruction(f, values, Wrap16(origin + pos))))
                       \o Changed("a", a, a') \o Changed("i", i, i')
           /\ pos' = pos + FormLen(f)
  /\ UNCHANGED <<code, origin>>

\* Mutant: the cursor stays on the byte listed.
EmitDataStuck ==
  /\ pos < Len(code)
  /\ Candidates[code[pos + 1]] # {}
  /\ Decoded(code, pos, a, i) = {}
  /\ out' = Append(out, Line(<<code[pos + 1]>>, Datum(code[pos + 1])))
  /\ UNCHANGED <<code, origin, pos, a, i>>

EmitData ==
  /\ pos < Len(code)
  /\ Candidates[code[pos + 1]] # {}     \* cands[0] panics on an empty list
  /\ Decoded(code, pos, a, i) = {}
  /\ out' = Append(out, Line(<<code[pos + 1]>>, Datum(code[pos + 1])))
  /\ pos' = pos + 1
  /\ UNCHANGED <<code, origin, a, i>>

Return ==
  /\ pos >= Len(code)
  /\ UNCHANGED vars

Next == EmitInstruction \/ EmitData \/ Return

Spec == Init /\ [][Next]_vars

FairSpec == Spec /\ WF_vars(Next)

------------------------------------------------------------------------------
(* The assembler *)

\* How far a branch at addr goes to reach the target it prints.
Reach(f, text, addr) == AsI16(Wrap16(text.shown[1] - (addr + FormLen(f))))

\* The first value that n bytes cannot hold.
Bound(n) == CASE n = 1 -> 256 [] n = 2 -> 65536 [] n = 3 -> 256 * 65536 [] OTHER -> 0

\* The numbers of the text go into the slots of f.
InRange(f, text, addr) ==
  IF IsBranch(f) THEN Width(f, 1) = 2 \/ Reach(f, text, addr) \in -128..127
  ELSE \A s \in DOMAIN text.shown : text.shown[s] < Bound(Width(f, s))

(***************************************************************************)
(* The forms an instruction text can be read as, under the given widths:   *)
(* an immediate that comes in two sizes has the width in force, a pinned   *)
(* address the pinned size, any other the smallest size that holds it.     *)
(***************************************************************************)
Readings(text, addr, widths) ==
  LET named == {f \in Table : f.mnemonic = text.mnemonic /\ Shape(f.mode) = text.shape}
      width == IF text.mnemonic \in IndexMnemonics THEN widths.i ELSE widths.a
      sized(f) ==
        IF text.shape = "#" THEN Cardinality(named) = 1 \/ OperandLen(f) = width
        ELSE text.force = 0 \/ OperandLen(f) = text.force
      fitting == {f \in named : sized(f) /\ InRange(f, text, addr)}
  IN  {f \in fitting : \A g \in fitting : OperandLen(f) <= OperandLen(g)}

ThreeBytes(v) == <<v % 256, (v \div 256) % 256, (v \div 65536) % 256>>

SmallEndBytes(v, n) == SubSeq(ThreeBytes(v), 1, n)

Laid816(f, text, addr) ==
  f.opcode \o
    (CASE IsBranch(f) -> SmallEndBytes(Wrap16(Reach(f, text, addr)), Width(f, 1))
       [] f.mode = "block-move" -> <<text.shown[2], text.shown[1]>>
       [] f.operands = <<>> -> <<>>
       [] OTHER -> SmallEndBytes(text.shown[1], Width(f, 1)))

\* Reading one line: `ok` says the text has exactly one meaning.
ReadLine(asm, line) ==
  CASE line.text.kind = "directive" -> [asm EXCEPT ![line.text.register] = line.text.width]
    [] line.text.kind = "data" -> [asm EXCEPT !.image = @ \o line.text.shown]
    [] OTHER ->
         LET read == Readings(line.text, line.addr, asm)
         IN  IF Cardinality(read) = 1
             THEN [asm EXCEPT !.image = @ \o Laid816(CHOOSE f \in read : TRUE, line.text, line.addr)]
             ELSE [asm EXCEPT !.ok = FALSE]

\* The assembler before the first line.
Fresh == [a |-> 1, i |-> 1, ok |-> TRUE, image |-> <<>>]

\* The assembler after reading the lines in order.
Assembled(lines) ==
  LET after[k \in 0..Len(lines)] ==
        IF k = 0 THEN Fresh ELSE ReadLine(after[k - 1], lines[k])
  IN  after[Len(lines)]

Assembly == Assembled(out)

------------------------------------------------------------------------------
(* Properties *)

\* The lines whose numbers are in K, in order.
Chosen(lines, K) ==
  LET upTo[k \in 0..Len(lines)] ==
        IF k = 0 THEN <<>>
        ELSE IF k \in K THEN Append(upTo[k - 1], lines[k]) ELSE upTo[k - 1]
  IN  upTo[Len(lines)]


Mnemonics == {f.mnemonic : f \in Table}
Shapes == {Shape(f.mode) : f \in Table}

\* The texts a line can have, and the lines a listing can have.
Text ==
  [kind : {"directive"}, register : {"a", "i"}, width : {1, 2}]
    \cup [kind : {"data"}, shown : Seq(Byte)]
    \cup [kind : {"instruction"}, mnemonic : Mnemonics, shape : Shapes, force : {0, 2, 3},
          shown : Seq(Nat)]

Listed == [at : Nat, addr : Word16, bytes : Seq(Byte), text : Text]

TypeOK ==
  /\ code \in Seq(Byte)
  /\ origin \in Word16
  /\ pos \in 0..Len(code)
  /\ a \in {1, 2}
  /\ i \in {1, 2}
  /\ out \in Seq({line \in Listed : line.at <= pos})

(***************************************************************************)
(* "so the listing re-assembles byte-exact": an assembler that reads the   *)
(* lines listed so far has produced exactly the bytes swept so far, having *)
(* met no line that could be read in two ways.                             *)
(***************************************************************************)
RoundTrip816 == Assembly.ok /\ Assembly.image = SubSeq(code, 1, pos)

(***************************************************************************)
(* The widths the sweep decodes with are the widths the directives have    *)
(* told the assembler: were they to drift apart, every later immediate     *)
(* would be cut at the wrong place.                                        *)
(***************************************************************************)
WidthsAgree == Assembly.a = a /\ Assembly.i = i

(***************************************************************************)
(* Where the code's comment says the widths come from: each is what the    *)
(* last REP or SEP in the listing that names its status bit made it, and   *)
(* 8-bit before the first.  Immediates of LDA and LDX, data, and operand   *)
(* bytes that look like REP never change it.                               *)
(***************************************************************************)
Settings(bit) ==
  Chosen(out, {k \in DOMAIN out :
                 /\ out[k].text.kind = "instruction"
                 /\ out[k].text.mnemonic \in {"REP", "SEP"}
                 /\ HasBit(out[k].text.shown[1], bit)})

LastSetting(bit) ==
  LET set == Settings(bit)
  IN  IF set = <<>> THEN 1 ELSE IF set[Len(set)].text.mnemonic = "REP" THEN 2 ELSE 1

WidthsFollowStatus == a = LastSetting(\h20) /\ i = LastSetting(\h10)

(***************************************************************************)
(* Only changes are announced: the directives for one register alternate   *)
(* between wide and narrow, starting with wide.                            *)
(***************************************************************************)
Announced(register) ==
  Chosen(out, {k \in DOMAIN out :
                 out[k].text.kind = "directive" /\ out[k].text.register = register})

DirectivesAlternate ==
  \A register \in {"a", "i"} :
    LET told == Announced(register)
    IN  \A k \in DOMAIN told : told[k].text.width = (IF k % 2 = 1 THEN 2 ELSE 1)

(***************************************************************************)
(* The candidates of an opcode are indexed without a check (cands[0]), so  *)
(* every byte the cursor can come to must be the opcode of some form.      *)
(***************************************************************************)
NoPanic == pos < Len(code) => Candidates[code[pos + 1]] # {}

(***************************************************************************)
(* "Opcodes are single bytes; the only ambiguity is the width-variable     *)
(* immediate, resolved by a_width/i_width": a byte is listed as data only  *)
(* where the buffer ends inside the operands of a form with that opcode.   *)
(***************************************************************************)
DataOnlyAtTheEnd ==
  \A k \in DOMAIN out :
    out[k].text.kind = "data" =>
      \E f \in Candidates[out[k].bytes[1]] : out[k].at + FormLen(f) > Len(code)

\* The lines that carry bytes, without their text.
Pieces ==
  LET carrying == Chosen(out, {k \in DOMAIN out : out[k].bytes # <<>>})
  IN  [k \in DOMAIN carrying |->
         [at |-> carrying[k].at, addr |-> carrying[k].addr, bytes |-> carrying[k].bytes]]

Listing == INSTANCE Sweep
             WITH Codes <- Seq(Byte), Origins <- Word16, Unit <- 1, Memory <- 65536,
                  out <- Pieces

(***************************************************************************)
(* The directives apart, the sweep keeps the promise of Sweep.             *)
(***************************************************************************)
ImplementsSweep == Listing!FairSpec

==============================================================================
