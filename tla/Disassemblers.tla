---------------------------- MODULE Disassemblers ----------------------------
(***************************************************************************)
(* The disassemble_* functions of the CPUs that have a module of operators *)
(* each: one sweep, as isa-disasm writes it out for every one of them, and *)
(* the decoder of the CPU called at the cursor.                            *)
(***************************************************************************)
EXTENDS Texts

CONSTANTS
  Codes,      \* for each CPU, the buffers its function is called with
  Origins,    \* the load addresses
  Fill        \* what a machine's memory holds outside the buffer

ASSUME CodesAreBytes == \A cpu \in DOMAIN Codes : Codes[cpu] \subseteq Seq(Byte)
ASSUME OriginsAreWords == Origins \subseteq Word16
ASSUME FillIsByte == Fill \in Byte

Mos6809 == INSTANCE Disasm6809
Pdp11 == INSTANCE Pdp11
Tms9900 == INSTANCE Tms9900
Z8000 == INSTANCE Z8000
Bytes == INSTANCE ByteCpus

\* The CPUs disassemble_z8000_impl serves.
Z8000s == {"z8001", "z8002"}

ASSUME CpusAreKnown == DOMAIN Codes \subseteq {"6809", "pdp11", "tms9900"} \cup Z8000s \cup Bytes!CPUS

\* One opcode begins with another.
Begins(opcode, other) ==
  Len(opcode) <= Len(other) /\ opcode = SubSeq(other, 1, Len(opcode))

\* Two opcodes with so many low bits for fields have a word in common.
Meet(base, bits, other, others) == base < other + 2^others /\ other < base + 2^bits

\* The fields a decoder of the Z8000 refuses when they are zero.
NeverZero == {"pointer", "port pointer", "indexed", "flags"}

\* No words of two rows of the Z8000 are the same and legal for both: a bit
\* fixed in both differs, or a field that may not be zero is zero in the other,
\* or a count has a sign for each.
Z8000Apart(row, other) ==
  \/ \E w \in DOMAIN row.words \cap DOMAIN other.words :
       \E i \in Z8000!Fixed(row, w) \cap Z8000!Fixed(other, w) :
         Z8000!BitAt(row.words[w], i) # Z8000!BitAt(other.words[w], i)
  \/ \E s \in DOMAIN row.slots :
       /\ row.slots[s].kind \in NeverZero
       /\ row.slots[s].word = 1 /\ row.slots[s].shift \in {0, 4} /\ row.slots[s].width = 4
       /\ \A i \in row.slots[s].shift .. row.slots[s].shift + 3 :
            i \in Z8000!Fixed(other, 1) /\ Z8000!BitAt(other.words[1], i) = 0
  \/ /\ Len(row.words) = Len(other.words)
     /\ \E s \in DOMAIN row.slots, t \in DOMAIN other.slots :
          /\ row.slots[s].kind = "left" /\ other.slots[t].kind = "right"
          /\ row.slots[s].size = other.slots[t].size

(***************************************************************************)
(* Facts about the tables.  They speak of no constant, so a run that       *)
(* evaluates them settles them.                                            *)
(***************************************************************************)
ASSUME RowsOf6809 ==
  /\ \A row \in Mos6809!SET6809 :
       /\ row.opcode \in Seq(Byte) /\ Len(row.opcode) \in 1..2
       /\ row.shape \in {"inherent", "imm8", "imm16", "direct", "extended", "indexed", "short", "long",
                        "transfer", "stack"}
  /\ \A row, other \in Mos6809!SET6809 :
       Begins(row.opcode, other.opcode) => Len(row.opcode) = Len(other.opcode) /\ row.shape = other.shape
ASSUME RowsOfPdp11 ==
  /\ \A row \in Pdp11!INSTRUCTIONS :
       /\ row.base \in Nat
       /\ row.class \in DOMAIN Pdp11!FieldBits /\ Pdp11!FieldBits[row.class] \in 0..12
  /\ \A row, other \in Pdp11!INSTRUCTIONS :
       Meet(row.base, Pdp11!FieldBits[row.class], other.base, Pdp11!FieldBits[other.class])
         => /\ row.class = other.class /\ Pdp11!Fields(row) = Pdp11!Fields(other)
            /\ row.mnemonic \in {"JMP", "WRTLCK"} <=> other.mnemonic \in {"JMP", "WRTLCK"}
ASSUME RowsOfTms9900 ==
  /\ \A row \in Tms9900!INSTRUCTIONS :
       /\ row.base \in Nat
       /\ row.class \in DOMAIN Tms9900!FieldBits /\ Tms9900!FieldBits[row.class] \in 0..12
  /\ \A row, other \in Tms9900!INSTRUCTIONS :
       Meet(row.base, Tms9900!FieldBits[row.class], other.base, Tms9900!FieldBits[other.class])
         => row.class = other.class
ASSUME RowsOfZ8000 ==
  \A seg \in BOOLEAN :
    /\ \A row \in Z8000!Rows[seg] : Z8000!Length(row, seg) \in Nat /\ 1 \in DOMAIN row.words
    /\ \A b \in Byte : \A row, other \in Z8000!StartingWith[seg][b] :
         row # other => Z8000Apart(row, other) \/ Z8000Apart(other, row)
ASSUME RowsOfByteCpus ==
  \A chip \in Bytes!CPUS :
    /\ \A row \in Bytes!Tables[chip] :
         row.opcode \in Seq(Byte) /\ row.opcode # <<>> /\ row.slots \in Seq(STRING)
    /\ \A row, other \in Bytes!Tables[chip] :
         Begins(row.opcode, other.opcode) \/ Begins(other.opcode, row.opcode) =>
           /\ row.rank = other.rank => Bytes!RowLen(row) = Bytes!RowLen(other)
           /\ row.rank <= other.rank => row.rank = other.rank \/ row.slots = <<>>

\* The slots of one byte.
Narrow == {"byte", "disp", "e-disp", "rel", "offset", "page", "low11", "zp", "rel7"}

\* A slot of both rows takes no operand the other takes: ca65 goes by the size of
\* an address, and the 8048 has three of its bits in the opcode.
SlotApart(row, other, s) ==
  \/ row.slots[s] = "zp" /\ other.slots[s] = "abs"
  \/ row.slots[s] = "abs" /\ other.slots[s] = "zp"
  \/ /\ row.slots[s] = "low11" /\ other.slots[s] = "low11"
     /\ row.opcode[1] \div 32 # other.opcode[1] \div 32

ASSUME SlotsOfByteCpus ==
  \A chip \in Bytes!CPUS : \A row \in Bytes!Tables[chip] :
    /\ Len(row.slots) <= 3
    /\ \A s \in DOMAIN row.slots :
         /\ row.slots[s] \in Bytes!Wide \cup Narrow
         /\ row.slots[s] = "memref" =>
              /\ chip = "s2650" /\ row.slots = <<"memref">> /\ Len(row.opcode) = 1
              /\ row.name[2] = "r3" =>
                   \E other \in Bytes!Tables[chip] :
                     /\ other.name = <<row.name[1], "r0">> /\ other.slots = <<"memref">>
                     /\ other.opcode = <<row.opcode[1] - 3>>

ASSUME NamesOfByteCpus ==
  \A chip \in Bytes!CPUS : \A row, other \in Bytes!Tables[chip] :
    row.name = other.name =>
      \/ row = other
      \/ Len(row.slots) = Len(other.slots) /\ \E s \in DOMAIN row.slots : SlotApart(row, other, s)

\* The buffer of a 6809 fits its memory, from which decode_one_6809 reads it.
ASSUME MemoryHoldsBuffers == \A cpu \in DOMAIN Codes : cpu = "6809" => \A c \in Codes[cpu] : Len(c) <= 65536

VARIABLES cpu, code, origin, pos, out

vars == <<cpu, code, origin, pos, out>>

------------------------------------------------------------------------------
(* The decoders, and the assembler of each CPU *)

Readings(c, p, addr) ==
  CASE cpu = "6809"    -> Mos6809!Readings(c, p, addr)
    [] cpu = "pdp11"   -> Pdp11!Readings(c, p, addr)
    [] cpu = "tms9900" -> Tms9900!Readings(c, p, addr)
    [] cpu \in Z8000s  -> Z8000!Readings(c, p, addr, cpu = "z8001")
    [] OTHER           -> Bytes!Readings(cpu, c, p, addr)

Assembled(text, addr) ==
  CASE cpu = "6809"    -> Mos6809!Assembled(text, addr)
    [] cpu = "pdp11"   -> Pdp11!Assembled(text, addr)
    [] cpu = "tms9900" -> Tms9900!Assembled(text, addr)
    [] cpu \in Z8000s  -> Z8000!Assembled(text, addr, cpu = "z8001")
    [] OTHER           -> Bytes!Assembled(cpu, text, addr)

\* The bytes of an exemplar of every row.
Exemplars ==
  CASE cpu = "6809"    -> Mos6809!Exemplars
    [] cpu = "pdp11"   -> Pdp11!Exemplars
    [] cpu = "tms9900" -> Tms9900!Exemplars
    [] cpu \in Z8000s  -> Z8000!Exemplars[cpu = "z8001"]
    [] OTHER           -> Bytes!Exemplars[cpu]

\* Instructions whose text does not say all their bits.
Unsaid(bytes) ==
  \/ cpu = "6809" /\ Mos6809!Unsaid(bytes)
  \/ cpu = "s2650" /\ Bytes!Unsaid(cpu, bytes)
  \/ cpu \in Z8000s /\ Z8000!Unsaid(bytes)

\* Instructions whose text the assembler does not take for what they are.
Lost(text, bytes) == cpu \in Z8000s /\ Z8000!Lost(text, Len(bytes))

\* How many bytes an instruction has at least, and a datum.
Unit == IF cpu \in {"pdp11", "tms9900"} \cup Z8000s THEN 2 ELSE 1

\* The readings of the rows that are tried first.
First(readings) == {r \in readings : \A s \in readings : r.rank <= s.rank}

------------------------------------------------------------------------------
(* disassemble_* *)

\* Mutant: addresses go on past the top of memory.
AddrAtUnwrapped(p) == origin + p

AddrAt(p) == Wrap16(origin + p)

LineAt(n, kind, text) ==
  [at |-> pos, addr |-> AddrAt(pos), bytes |-> SubSeq(code, pos + 1, pos + n),
   kind |-> kind, text |-> text]

Push(n, kind, text) ==
  /\ out' = Append(out, LineAt(n, kind, text))
  /\ pos' = pos + n
  /\ UNCHANGED <<cpu, code, origin>>

Init ==
  /\ cpu \in DOMAIN Codes
  /\ code \in Codes[cpu]
  /\ origin \in Origins
  /\ pos = 0
  /\ out = <<>>

\* What the decoder is asked for at the cursor.
Found == First(Readings(code, pos, AddrAt(pos)))

EmitInstruction ==
  /\ pos + Unit <= Len(code)
  /\ \E r \in {r \in Found : r.length > 0} : Push(r.length, "instruction", r.text)

\* A byte, or a word of a CPU that goes by words.
EmitData ==
  /\ pos + Unit <= Len(code)
  /\ \A r \in Found : r.length = 0
  /\ Push(Unit, "data",
       CASE cpu = "pdp11"   -> Text("word", <<LittleWord(code, pos)>>)
         [] cpu \in {"tms9900"} \cup Z8000s -> Text("word", <<BigWord(code, pos)>>)
         [] OTHER           -> Text("byte", <<code[pos + 1]>>))

\* Mutant: the odd byte is skipped.
EmitByteSkipped ==
  /\ pos < Len(code) /\ pos + Unit > Len(code)
  /\ pos' = Len(code)
  /\ UNCHANGED <<cpu, code, origin, out>>

\* The odd byte at the end of a buffer of words.
EmitByte ==
  /\ pos < Len(code) /\ pos + Unit > Len(code)
  /\ Push(1, "data", Text("byte", <<code[pos + 1]>>))

Return ==
  /\ pos = Len(code)
  /\ UNCHANGED vars

Next == EmitInstruction \/ EmitData \/ EmitByte \/ Return

Spec == Init /\ [][Next]_vars

FairSpec == Spec /\ WF_vars(Next)

------------------------------------------------------------------------------
\* The texts of the CPUs have no type in common; there are at most as many
\* lines as bytes.
TypeOK ==
  /\ cpu \in DOMAIN Codes
  /\ code \in Codes[cpu]
  /\ origin \in Origins
  /\ pos \in 0..Len(code)
  /\ \E n \in 0..pos : out = [k \in 1..n |-> out[k]]
  /\ \A k \in DOMAIN out :
       /\ out[k].at \in Nat /\ out[k].addr \in Word16 /\ out[k].bytes \in Seq(Byte)
       /\ out[k].kind \in {"instruction", "data"}

\* What the CPU's assembler makes of a line.
Reassembled(line) ==
  IF line.kind = "instruction" THEN Assembled(line.text, line.addr)
  ELSE {CASE line.text.name = "byte" -> line.text.operands
          [] cpu = "pdp11" -> LittleBytes(line.text.operands[1])
          [] OTHER         -> BigBytes(line.text.operands[1])}

(***************************************************************************)
(* Disassembly is undone by the assembler: each line reassembles, at the   *)
(* address it stands at, to just the bytes it was listed for.  A line that *)
(* cannot say all its bits keeps at least its length.  The exceptions are  *)
(* listed, and just those do not come back.                                *)
(***************************************************************************)
RoundTrip ==
  \A k \in DOMAIN out :
    IF out[k].kind = "instruction" /\ Unsaid(out[k].bytes)
    THEN \A bytes \in Reassembled(out[k]) : Len(bytes) = Len(out[k].bytes)
    ELSE Reassembled(out[k]) = {out[k].bytes}
           <=> ~(out[k].kind = "instruction" /\ Lost(out[k].text, out[k].bytes))

(***************************************************************************)
(* "Round-trip is byte-exact, even for flat binaries that interleave data" *)
(* (isa-disasm/src/lib.rs:22): every line comes back as its bytes.         *)
(***************************************************************************)
ByteExact == \A k \in DOMAIN out : Reassembled(out[k]) = {out[k].bytes}

(***************************************************************************)
(* Only the rank of a row matters, not its place in the table: rows of the *)
(* same rank that claim the bytes at the cursor take as many of them, and  *)
(* one that gives the search up hides none that would read them.  Of the   *)
(* Z8000's decoders not even the order matters: no two read the same       *)
(* bytes, and none has two readings.                                       *)
(***************************************************************************)
OneReading ==
  pos + Unit <= Len(code) =>
    LET readings == Readings(code, pos, AddrAt(pos))
    IN  \A r \in First(readings), s \in readings :
          /\ s.rank = r.rank \/ r.length = 0 => s.length = r.length
          /\ cpu \in Z8000s => s = r

(***************************************************************************)
(* No row is dead: the exemplar of each decodes as one instruction, for    *)
(* all the rows that share its opcode.                                     *)
(***************************************************************************)
ExemplarsDecode ==
  (pos > 0 /\ code \in Exemplars) =>
    pos = Len(code) /\ Len(out) = 1 /\ out[1].kind = "instruction"

------------------------------------------------------------------------------
(* The 6809 has a second entry point, and a timing table. *)

\* The memory of a machine with the buffer loaded at its origin.
Read(addr) ==
  LET p == Wrap16(addr - origin)
  IN  IF p < Len(code) THEN code[p + 1] ELSE Fill

\* Mutant: four bytes are fetched.
LookaheadShort == 4

\* The longest 6809 instruction.
Lookahead == 5

\* decode_one_6809: the first line for the bytes at addr.
decode_one_6809(addr) ==
  LET buf == [k \in 1..Lookahead |-> Read(Wrap16(addr + (k - 1)))]
      found == {r \in Readings(buf, 0, addr) : r.length > 0}
  IN  IF found = {} THEN {[text |-> Text("byte", <<buf[1]>>), len |-> 1]}
      ELSE {[text |-> r.text, len |-> r.length] : r \in found}

(***************************************************************************)
(* The debugger sees what the listing says: asked for the instruction at   *)
(* any line's address, decode_one_6809 gives that line's length and text.  *)
(* A data line where the buffer breaks off inside an instruction is the    *)
(* exception: the memory goes on.                                          *)
(***************************************************************************)
CallbackAgrees ==
  cpu = "6809" =>
    \A k \in DOMAIN out :
      (out[k].kind = "instruction" \/ out[k].at + Lookahead <= Len(code)) =>
        [text |-> out[k].text, len |-> Len(out[k].bytes)] \in decode_one_6809(out[k].addr)

(***************************************************************************)
(* The timing tables and the decoder, written apart, agree on what follows *)
(* a 6809 opcode: an indexed instruction has as many bytes as indexed_cost *)
(* counts, a postbyte it has no cost for is never listed as one, and a     *)
(* push or pull moves the bytes of the registers in its list.              *)
(***************************************************************************)
TimingAgrees ==
  cpu = "6809" =>
    \A k \in DOMAIN out : out[k].kind = "instruction" =>
      \A row \in Mos6809!Claims(out[k].bytes, 0) :
        LET post == out[k].bytes[Len(row.opcode) + 1]
        IN  /\ row.shape = "indexed" =>
                 Mos6809!indexed_cost(post) = {Len(out[k].bytes) - Len(row.opcode) - 1}
            /\ row.shape = "stack" =>
                 Mos6809!transferred_bytes(post) = Mos6809!ListedBytes(row, post)

------------------------------------------------------------------------------
Pieces ==
  [k \in DOMAIN out |->
     [at |-> out[k].at, addr |-> out[k].addr, bytes |-> out[k].bytes]]

Listing == INSTANCE Sweep
             WITH Codes <- Seq(Byte), Origins <- Word16, Unit <- 1, Memory <- 65536, out <- Pieces

(***************************************************************************)
(* Every CPU's loop keeps the promise of Sweep: all bytes are listed once, *)
(* in order, an odd one at the end too, and the call returns.              *)
(***************************************************************************)
ImplementsSweep == Listing!FairSpec

==============================================================================
