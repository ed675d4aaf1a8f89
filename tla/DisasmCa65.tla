------------------------------ MODULE DisasmCa65 -----------------------------
(***************************************************************************)
(* disassemble_ca65: one sweep for all of ca65's 6502-family CPUs, given   *)
(* by their instruction sets, an extension before the set it extends.      *)
(* `decode_longest` finds the instruction: opcodes have up to four bytes,  *)
(* the prefixes of the 45GS02 being part of them, the longest opcode wins, *)
(* then the earlier set, then the row that reads more bytes.               *)
(***************************************************************************)
EXTENDS Forms, FiniteSets

CONSTANTS
  Cpus,       \* the CPUs the function is called for
  Codes,      \* the buffers disassembled for each of them
  Origins,    \* the addresses they are loaded at
  Rows        \* the rows of each CPU's instruction sets

ASSUME CodesAreBytes == \A c \in Cpus : Codes[c] \subseteq Seq(Byte)
ASSUME OriginsAreWords == Origins \subseteq Word16
ASSUME RowsAreWellFormed ==
  \A c \in Cpus : \A f \in Rows[c] :
    /\ f.rank \in Nat
    /\ f.opcode \in Seq(Byte) /\ Len(f.opcode) \in 1..4
    /\ f.operands \in Seq([kind : OperandKind, bytes : 1..2]) /\ Len(f.operands) \in 0..2
    /\ f.suffix = <<>>

\* Mutant: the sets are tried together.
BeforeByLength(f, g) == Len(f.opcode) > Len(g.opcode)

\* The order in which opcode lengths and sets are tried.
Before(f, g) ==
  \/ Len(f.opcode) > Len(g.opcode)
  \/ Len(f.opcode) = Len(g.opcode) /\ f.rank < g.rank

(***************************************************************************)
(* A row that begins with another's opcode and is tried before it reads at *)
(* least as many bytes.                                                    *)
(***************************************************************************)
ASSUME FirstReadsMost ==
  \A c \in Cpus : \A f, g \in Rows[c] :
    (Before(f, g) /\ SubSeq(f.opcode, 1, Len(g.opcode)) = g.opcode) => FormLen(g) <= FormLen(f)

(***************************************************************************)
(* Rows of one set that share an opcode and a length are one row, once     *)
(* they have ca65's names.                                                 *)
(***************************************************************************)
ASSUME TwinsAreOne ==
  \A c \in Cpus : \A f, g \in Rows[c] :
    (f.opcode = g.opcode /\ f.rank = g.rank /\ FormLen(f) = FormLen(g)) => f = g

\* The names ca65 gives: three undocumented instructions, the no-operations
\* with an operand, and the unconditional branches of the 65CE02.
Undocumented ==
  [ASR |-> "ALR", SBX |-> "AXS", LXA |-> "LAX", DOP |-> "NOP", TOP |-> "NOP"]

Unconditional == [BRU |-> "BRA", LBRU |-> "LBRA"]

ca65_spelling(undocumented, mnemonic) ==
  IF undocumented /\ mnemonic \in DOMAIN Undocumented THEN Undocumented[mnemonic]
  ELSE IF mnemonic \in DOMAIN Unconditional THEN Unconditional[mnemonic]
  ELSE mnemonic

\* The rows of a set, its instructions named for ca65.
Spelled(rank, undocumented, forms) ==
  InstructionSet(rank, "Little",
    {[name |-> [mnemonic |-> ca65_spelling(undocumented, f.mnemonic), mode |-> f.mode],
      opcode |-> f.opcode, operands |-> f.operands, suffix |-> f.suffix] : f \in forms})

VARIABLES
  cpu,        \* the CPU of this call: its `base` and `extension`
  code, origin, pos, out

vars == <<cpu, code, origin, pos, out>>

------------------------------------------------------------------------------
(* decode_longest *)

\* The rows of a CPU by their first byte.
StartingWith ==
  [c \in Cpus |->
     LET rows == Rows[c]
     IN  [b \in Byte |-> {f \in rows : f.opcode[1] = b}]]

Stands(opcode, c, p) ==
  /\ p + Len(opcode) <= Len(c)
  /\ SubSeq(c, p + 1, p + Len(opcode)) = opcode

\* The rows whose opcode stands at offset p, whether or not their operands do.
Starting(c, p) == {f \in StartingWith[cpu][c[p + 1]] : Stands(f.opcode, c, p)}

Complete(f, c, p) == p + FormLen(f) <= Len(c)

\* The rows of the first length and set that have the opcode: these decide.
Deciding(c, p) ==
  LET starting == Starting(c, p)
  IN  {f \in starting : \A g \in starting : ~Before(g, f)}

\* Mutant: a row that is cut off is passed over.
DecodeCompleteOnly(c, p) ==
  LET found == {f \in Deciding(c, p) : Complete(f, c, p)}
  IN  {f \in found : \A g \in found : FormLen(g) <= FormLen(f)}

\* Nothing if one of them is cut off, else the one that reads the most bytes.
decode_longest(c, p) ==
  LET deciding == Deciding(c, p)
  IN  {f \in deciding : \A g \in deciding : Complete(g, c, p) /\ FormLen(g) <= FormLen(f)}

\* Where slot s of a form at offset p starts, and the value it holds.
OperandValue(f, c, p, s) ==
  LET q == p + Len(f.opcode) + Offset(f, s)
      op == f.operands[s]
      v == IF op.bytes = 1 THEN c[q + 1] ELSE WordOf(c[q + 1], c[q + 2])
  IN  IF op.kind # "RelativePc" THEN v
      ELSE IF op.bytes = 1 THEN AsI8(v) ELSE AsI16(v)

------------------------------------------------------------------------------
(* render_ca65 *)

\* What a mode looks like: modes that differ only in the size of their
\* address look alike, and the accumulator is named only by one-byte opcodes.
Shape(f) ==
  LET mode == f.name.mode
  IN  CASE mode = "implied" \/ (mode = "accumulator" /\ FormLen(f) > 1) -> "none"
        [] mode \in {"immediate", "immediate16"} -> "#"
        [] mode \in {"zeropage", "absolute", "relative", "relative16", "special-page"} -> "addr"
        [] mode \in {"zeropage,x", "absolute,x"} -> "addr,x"
        [] mode \in {"zeropage,y", "absolute,y"} -> "addr,y"
        [] mode \in {"indirect", "(indirect)"} -> "(addr)"
        [] mode \in {"(indirect,x)", "(absolute,x)"} -> "(addr,x)"
        [] OTHER -> mode

AbsoluteModes == {"absolute", "absolute,x", "absolute,y"}

\* Mutant: indexed addresses are not pinned.
PinBareOnly(mode, v) == IF mode = "absolute" /\ v < 256 THEN 2 ELSE 0

\* The size pinned by an a: prefix, 0 where there is none.
PinnedSize(mode, v) == IF mode \in AbsoluteModes /\ v < 256 THEN 2 ELSE 0

\* Where a branch counts from: its end, but a long branch its opcode plus two.
BranchBase(f, addr) == Wrap16(addr + (IF f.name.mode = "relative16" THEN 2 ELSE FormLen(f)))

\* Where the page of the M740's one-byte calls starts.
SpecialPage == \hFF00

\* What is printed for slot s: of a branch, the address it leads to.
Number(f, c, p, addr, s) ==
  IF f.operands[s].kind = "RelativePc"
  THEN Wrap16(BranchBase(f, addr) + OperandValue(f, c, p, s))
  ELSE OperandValue(f, c, p, s)

Shown(f, c, p, addr) ==
  CASE f.name.mode = "immediate,zeropage" ->
         <<OperandValue(f, c, p, 2), OperandValue(f, c, p, 1)>>
    [] f.name.mode = "special-page" -> <<SpecialPage + OperandValue(f, c, p, 1)>>
    [] OTHER -> [s \in DOMAIN f.operands |-> Number(f, c, p, addr, s)]

Instruction(f, c, p, addr) ==
  [kind |-> "instruction", mnemonic |-> f.name.mnemonic, shape |-> Shape(f),
   force |-> IF f.operands = <<>> THEN 0 ELSE PinnedSize(f.name.mode, OperandValue(f, c, p, 1)),
   shown |-> Shown(f, c, p, addr)]

Datum(c, p) == [kind |-> "data", shown |-> <<c[p + 1]>>]

------------------------------------------------------------------------------
(* disassemble_ca65 *)

\* Mutant: the address does not wrap.
PushUnwrapped(n, text) ==
  /\ out' = Append(out, [at    |-> pos,
                         addr  |-> origin + pos,
                         bytes |-> SubSeq(code, pos + 1, pos + n),
                         text  |-> text])
  /\ pos' = pos + n
  /\ UNCHANGED <<cpu, code, origin>>

\* Mutant: the address is not counted from the origin.
PushAtOffset(n, text) ==
  /\ out' = Append(out, [at    |-> pos,
                         addr  |-> Wrap16(pos),
                         bytes |-> SubSeq(code, pos + 1, pos + n),
                         text  |-> text])
  /\ pos' = pos + n
  /\ UNCHANGED <<cpu, code, origin>>

Push(n, text) ==
  /\ out' = Append(out, [at    |-> pos,
                         addr  |-> Wrap16(origin + pos),
                         bytes |-> SubSeq(code, pos + 1, pos + n),
                         text  |-> text])
  /\ pos' = pos + n
  /\ UNCHANGED <<cpu, code, origin>>

Init ==
  /\ cpu \in Cpus
  /\ code \in Codes[cpu]
  /\ origin \in Origins
  /\ pos = 0
  /\ out = <<>>

EmitInstruction ==
  /\ pos < Len(code)
  /\ \E f \in decode_longest(code, pos) :
       Push(FormLen(f), Instruction(f, code, pos, Wrap16(origin + pos)))

EmitData ==
  /\ pos < Len(code)
  /\ decode_longest(code, pos) = {}
  /\ Push(1, Datum(code, pos))

Return ==
  /\ pos >= Len(code)
  /\ UNCHANGED vars

Next == EmitInstruction \/ EmitData \/ Return

Spec == Init /\ [][Next]_vars

FairSpec == Spec /\ WF_vars(Next)

------------------------------------------------------------------------------
(* The assembler.  It is not in this repository; it reads mnemonic and     *)
(* syntax, and takes the smallest form that holds the numbers unless a:    *)
(* pins the size.  A spelling without its operand, which the processor     *)
(* would read anyway, is not one of its forms.                             *)

Readable ==
  [c \in Cpus |->
     {f \in Rows[c] : \A g \in StartingWith[c][f.opcode[1]] :
                        g.opcode = f.opcode => FormLen(g) <= FormLen(f)}]

Named ==
  [c \in Cpus |->
     LET readable == Readable[c]
     IN  [m \in {f.name.mnemonic : f \in readable} |->
            {f \in readable : f.name.mnemonic = m}]]

\* The value that goes into a slot of f for a number.
ValueOf(f, op, number, addr) ==
  IF op.kind = "RelativePc" THEN AsI16(Wrap16(number - BranchBase(f, addr))) ELSE number

\* The values that go into the slots of f for the numbers of a text.
Parsed(f, text, addr) ==
  CASE f.name.mode = "immediate,zeropage" -> <<text.shown[2], text.shown[1]>>
    [] f.name.mode = "special-page" -> <<text.shown[1] - SpecialPage>>
    [] OTHER -> [s \in DOMAIN f.operands |-> ValueOf(f, f.operands[s], text.shown[s], addr)]

\* Whether a slot holds a value.
Holds(op, v) ==
  IF op.kind = "RelativePc"
  THEN IF op.bytes = 1 THEN v \in -128..127 ELSE AsI16(Wrap16(v)) = v
  ELSE IF op.bytes = 1 THEN v \in Byte ELSE v \in Word16

Fits(f, values) == \A s \in DOMAIN f.operands : Holds(f.operands[s], values[s])

\* Two rows of one encoding.
SameEncoding(f, g) ==
  /\ f.name.mode = g.name.mode
  /\ f.endianness = g.endianness /\ f.opcode = g.opcode
  /\ f.operands = g.operands /\ f.suffix = g.suffix

\* A row with one operand, a number of so many bytes.
OneNumber(f, bytes) ==
  /\ DOMAIN f.operands = {1}
  /\ f.operands[1].bytes = bytes /\ f.operands[1].kind # "RelativePc"
  /\ f.name.mode # "immediate,zeropage"

(***************************************************************************)
(* Where g is the shorter form of a spelling that f has too: f's size is   *)
(* pinned, or the two are the M740's jumps of which the text does not say  *)
(* which was meant.                                                        *)
(***************************************************************************)
Shortens(c, g, f) ==
  /\ OneNumber(f, 2) /\ f.name.mode # "special-page"
  /\ OneNumber(g, 1)
  /\ IF g.name.mode = "special-page"
     THEN c = "m740" /\ f.name.mnemonic = "JSR" /\ Shape(f) = "addr"
     ELSE \/ f.name.mode \in AbsoluteModes
          \/ c = "m740" /\ f.name.mnemonic = "JMP" /\ Shape(f) = "(addr)"

(***************************************************************************)
(* What the numbers of a mode are, and what tells the forms of a spelling  *)
(* apart: they are one encoding, or their sizes are in the right order, or *)
(* the longer is pinned.                                                   *)
(***************************************************************************)
ASSUME ModesFitOperands ==
  \A c \in Cpus : \A f \in Rows[c] :
    /\ f.name.mode \in AbsoluteModes => OperandLen(f) = 2
    /\ f.name.mode = "immediate,zeropage" =>
         /\ DOMAIN f.operands = {1, 2}
         /\ \A s \in {1, 2} : f.operands[s].kind # "RelativePc"
    /\ f.name.mode = "special-page" => OneNumber(f, 1)
    /\ \A s \in DOMAIN f.operands : ~HighByteFirst(f.operands[s], f.endianness)

ASSUME SpellingsTellForms ==
  \A c \in Cpus : \A f \in Readable[c] : \A g \in Named[c][f.name.mnemonic] :
    Shape(f) = Shape(g) =>
      SameEncoding(f, g) \/ OperandLen(f) < OperandLen(g) \/ Shortens(c, g, f)

(***************************************************************************)
(* The three kinds of M740 instruction that ca65 V2.19 encodes otherwise   *)
(* than the manual and the table (isa/src/m740.rs:11-24).  How, the        *)
(* repository does not say, so no encoding is given for them here.         *)
(***************************************************************************)
Disputed(c, mnemonic, shape) ==
  /\ c = "m740"
  /\ \/ mnemonic \in {"DEC", "INC"} /\ shape = "accumulator"
     \/ shape \in {"immediate,zeropage", "accumulator,relative"}

\* What a line may assemble to, so far as the encodings are known.
Assembled(line) ==
  IF line.text.kind = "data" THEN {line.text.shown}
  ELSE LET fitting ==
             {f \in Named[cpu][line.text.mnemonic] :
                /\ Shape(f) = line.text.shape
                /\ ~Disputed(cpu, f.name.mnemonic, Shape(f))
                /\ line.text.force = 0 \/ OperandLen(f) = line.text.force
                /\ Fits(f, Parsed(f, line.text, line.addr))}
       IN  {Encode(f, Parsed(f, line.text, line.addr)) :
              f \in {g \in fitting : \A h \in fitting : OperandLen(g) <= OperandLen(h)}}

------------------------------------------------------------------------------
(* Properties *)

TypeOK ==
  /\ cpu \in Cpus
  /\ code \in Seq(Byte)
  /\ origin \in Word16
  /\ pos \in 0..Len(code)
  /\ \E m \in 0..pos : out = [k \in 1..m |-> out[k]]
  /\ \A k \in DOMAIN out : /\ out[k].at \in 0..pos
                           /\ out[k].addr \in Word16
                           /\ out[k].bytes \in Seq(Byte)

\* A line whose instruction ca65 is said to encode in a way of its own.
Unsettled(line) ==
  /\ line.text.kind = "instruction"
  /\ Disputed(cpu, line.text.mnemonic, line.text.shape)

(***************************************************************************)
(* "Round-trip is byte-exact": every line assembles, and to its own bytes  *)
(* only; nothing is said of the lines ca65 is known to disagree about.     *)
(***************************************************************************)
ByteExact == \A k \in DOMAIN out : Unsettled(out[k]) \/ Assembled(out[k]) = {out[k].bytes}

(***************************************************************************)
(* A jump of the M740 whose address fits a shorter form: nothing in its    *)
(* text says which was meant.                                              *)
(***************************************************************************)
Unpinned(line) ==
  /\ cpu = "m740"
  /\ line.text.kind = "instruction"
  /\ \/ line.text.mnemonic = "JMP" /\ line.text.shape = "(addr)" /\ line.text.shown[1] < 256
     \/ line.text.mnemonic = "JSR" /\ line.text.shape = "addr" /\ line.text.shown[1] >= SpecialPage

(***************************************************************************)
(* The same of every line but those jumps and the three kinds of M740      *)
(* instruction that ca65 encodes otherwise: for each CPU, its prefixed     *)
(* forms, long branches and respelled instructions included, the text      *)
(* stands for one encoding and the smallest form is the one that was met.  *)
(***************************************************************************)
RoundTrip ==
  \A k \in DOMAIN out :
    Unpinned(out[k]) \/ Unsettled(out[k]) \/ Assembled(out[k]) = {out[k].bytes}

(***************************************************************************)
(* Where two rows read equally many bytes (NOP and DOP, LBRA and LBRU),    *)
(* decode_longest keeps the first it meets; whichever it is, the line      *)
(* reads the same.                                                         *)
(***************************************************************************)
OneText ==
  pos < Len(code) =>
    LET addr == Wrap16(origin + pos)
    IN  \A f, g \in decode_longest(code, pos) :
          Instruction(f, code, pos, addr) = Instruction(g, code, pos, addr)

(***************************************************************************)
(* "A longer opcode wins a shorter one", and "an opcode whose operands run *)
(* past the end is not decoded at all": no instruction of the CPU whose    *)
(* opcode stands where a line starts is longer than the line, so none was  *)
(* taken apart; and a byte is listed as data only if no opcode stands      *)
(* there, or one whose operands are cut off by the end of the buffer.      *)
(***************************************************************************)
Longest ==
  \A k \in DOMAIN out :
    LET starting == Starting(code, out[k].at)
    IN  IF out[k].text.kind = "instruction"
        THEN \A f \in starting : FormLen(f) <= Len(out[k].bytes)
        ELSE starting = {} \/ \E f \in starting : ~Complete(f, code, out[k].at)

\* The lines without their text.
Pieces ==
  [k \in DOMAIN out |->
     [at |-> out[k].at, addr |-> out[k].addr, bytes |-> out[k].bytes]]

Listing == INSTANCE Sweep
             WITH Codes <- Seq(Byte), Origins <- Word16, Unit <- 1, Memory <- 65536,
                  out <- Pieces

(***************************************************************************)
(* The sweep keeps the promise of Sweep, for every CPU.                    *)
(***************************************************************************)
ImplementsSweep == Listing!FairSpec

==============================================================================
