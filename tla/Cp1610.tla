-------------------------------- MODULE Cp1610 --------------------------------
(***************************************************************************)
(* disassemble_cp1610.  The CP1610 packs its operands into 10-bit decles,  *)
(* each stored as a big-endian 16-bit word, and addresses words.  SDBD     *)
(* changes how long the immediate of the NEXT instruction is: the sweep    *)
(* carries a flag from one iteration to the next, and the assembler that   *)
(* reads the listing (asl) has to see the same prefix in the text.         *)
(***************************************************************************)
EXTENDS Words, Sequences

CONSTANTS
  Codes,      \* the buffers disassembled
  Origins     \* the word addresses they are loaded at

ASSUME CodesAreBytes == Codes \subseteq Seq(Byte)
ASSUME OriginsAreWords == Origins \subseteq Word16

VARIABLES
  code, origin, pos, out,
  after_sdbd  \* the word before the cursor was an SDBD

vars == <<code, origin, pos, out, after_sdbd>>

------------------------------------------------------------------------------
(* isa/src/cp1610.rs *)

INSTRUCTIONS ==
  [Implied   |-> [HLT |-> 0, SDBD |-> 1, EIS |-> 2, DIS |-> 3, TCI |-> 5, CLRC |-> 6,
                  SETC |-> 7, NOP |-> \h34, SIN |-> \h36],
   GetStatus |-> [GSWD |-> \h30],
   RegUnary  |-> [INCR |-> \h08, DECR |-> \h10, COMR |-> \h18, NEGR |-> \h20,
                  ADCR |-> \h28, RSWD |-> \h38],
   Shift     |-> [SWAP |-> \h40, SLL |-> \h48, RLC |-> \h50, SLLC |-> \h58, SLR |-> \h60,
                  SAR |-> \h68, RRC |-> \h70, SARC |-> \h78],
   RegReg    |-> [MOVR |-> \h80, ADDR |-> \hC0, SUBR |-> \h100, CMPR |-> \h140,
                  ANDR |-> \h180, XORR |-> \h1C0]]

\* Mutant: the register field of GSWD is three bits wide.
FieldsWideGetStatus(class) ==
  CASE class = "Implied" -> 1 [] class = "RegReg" -> 64 [] OTHER -> 8

\* The values the operand fields of a class can take: its mask keeps the rest.
Fields(class) ==
  CASE class = "Implied" -> 1 [] class = "GetStatus" -> 4 [] class = "RegReg" -> 64
    [] OTHER -> 8

ORDER == <<"Implied", "GetStatus", "RegUnary", "Shift", "RegReg">>

(***************************************************************************)
(* The instructions that claim a word, with the place of their class in    *)
(* the order decode tries them.                                            *)
(***************************************************************************)
Claimants(word) ==
  UNION {{[rank |-> k, mnemonic |-> mn] :
            mn \in {m \in DOMAIN INSTRUCTIONS[ORDER[k]] :
                      INSTRUCTIONS[ORDER[k]][m] = word - (word % Fields(ORDER[k]))}} :
         k \in DOMAIN ORDER}

decode(word) ==
  LET found == IF word > \h3FF THEN {} ELSE Claimants(word)
  IN  {i \in found : \A j \in found : i.rank <= j.rank}

BRANCH_CONDS ==
  <<"b", "bc", "bov", "bpl", "beq", "blt", "ble", "busc",
    "nopp", "bnc", "bnov", "bmi", "bneq", "bge", "bgt", "besc">>

MEM_FAMILIES ==
  [MVO |-> \h240, MVI |-> \h280, ADD |-> \h2C0, SUB |-> \h300, CMP |-> \h340,
   AND |-> \h380, XOR |-> \h3C0]

------------------------------------------------------------------------------
(* decode_cp1610.  Each operator gives the decoding of one region of the   *)
(* opcode space: a text and a length in words, or nothing.                 *)

\* (word >> n) & mask, for unit = 2^n and size = mask + 1.
Bits(word, unit, size) == (word \div unit) % size

\* from_be_bytes, of the k-th word from offset p on.
WordAt(c, p, k) == WordOf(c[p + 2 * k + 2], c[p + 2 * k + 1])

Present(c, p, n) == p + 2 * n <= Len(c)

Instruction(n, mnemonic, form, shown) ==
  {[words |-> n,
    text |-> [kind |-> "instruction", mnemonic |-> mnemonic, form |-> form, shown |-> shown]]}

\* Mutant: a backward branch is not biased by one.
BranchTargetUnbiased(word, pc, mag) ==
  Wrap16(IF HasBit(word, \h20) THEN pc - mag ELSE pc + mag)

BranchTarget(word, pc, mag) ==
  Wrap16(IF HasBit(word, \h20) THEN pc - mag - 1 ELSE pc + mag)

Branch(c, p, addr) ==
  LET word == WordAt(c, p, 0)
      mag == WordAt(c, p, 1)
      target == BranchTarget(word, Wrap16(addr + 2), mag)
      cond == word % 16
  IN  IF ~Present(c, p, 2) THEN {}
      ELSE IF HasBit(word, \h10) THEN Instruction(2, "bext", "branch", <<target, cond>>)
      ELSE IF cond # 8 THEN Instruction(2, BRANCH_CONDS[cond + 1], "branch", <<target>>)
      ELSE IF word = \h208 /\ mag = 0 THEN Instruction(2, "nopp", "nopp", <<>>)
      ELSE {}

\* The instruction of a family, by the addressing mode.
OfFamily(fam, c, p, sdbd) ==
  LET word == WordAt(c, p, 0)
      mode == Bits(word, 8, 8)
      reg == word % 8
      double == 256 * (WordAt(c, p, 2) % 256) + (WordAt(c, p, 1) % 256)
  IN  CASE mode = 0 ->
             IF Present(c, p, 2)
             THEN Instruction(2, fam, "direct", <<WordAt(c, p, 1), reg>>) ELSE {}
        [] mode \in 1..6 -> Instruction(1, fam, "indirect", <<mode, reg>>)
        [] mode = 7 /\ fam = "MVO" -> {}
        [] mode = 7 /\ fam # "MVO" /\ sdbd ->
             IF Present(c, p, 3) THEN Instruction(3, fam, "immediate", <<double, reg>>) ELSE {}
        [] OTHER ->
             IF Present(c, p, 2)
             THEN Instruction(2, fam, "immediate", <<WordAt(c, p, 1), reg>>) ELSE {}

MemoryReference(c, p, sdbd) ==
  LET block == 64 * Bits(WordAt(c, p, 0), 64, 16)
  IN  UNION {OfFamily(fam, c, p, sdbd) :
               fam \in {m \in DOMAIN MEM_FAMILIES : MEM_FAMILIES[m] = block}}

\* The address of a jump, from its second and third decle.
JumpTarget(d2, d3) == 1024 * Bits(d2, 4, 64) + (d3 % 1024)

Jump(c, p) ==
  LET d2 == WordAt(c, p, 1)
      target == JumpTarget(d2, WordAt(c, p, 2))
      rr == Bits(d2, 256, 4)
      ii == d2 % 4
  IN  IF ~Present(c, p, 3) \/ ii > 2 THEN {}
      ELSE IF rr = 3 THEN Instruction(3, <<"j", "je", "jd">>[ii + 1], "jump", <<target>>)
      ELSE Instruction(3, <<"jsr", "jsre", "jsrd">>[ii + 1], "jump", <<target, rr + 4>>)

\* The operands an instruction of a class shows.
Shown(class, word) ==
  CASE class = "Implied" -> <<>>
    [] class = "GetStatus" -> <<word % 4>>
    [] class = "RegUnary" -> <<word % 8>>
    [] class = "RegReg" -> <<Bits(word, 8, 8), word % 8>>
    [] class = "Shift" -> <<word % 4, Bits(word, 4, 2) + 1>>

Plain(word) ==
  UNION {Instruction(1, i.mnemonic, "", Shown(ORDER[i.rank], word)) : i \in decode(word)}

\* The regions in the order they are tested; the first that applies decides.
decode_cp1610(c, p, addr, sdbd) ==
  LET word == WordAt(c, p, 0)
  IN  IF Bits(word, 64, 16) = 8 THEN Branch(c, p, addr)
      ELSE IF word >= \h240 THEN MemoryReference(c, p, sdbd)
      ELSE IF word = 4 THEN Jump(c, p)
      ELSE Plain(word)

------------------------------------------------------------------------------
(* disassemble_cp1610 *)

\* Mutant: bytes are counted as addresses.
AddrInBytes == Wrap16(origin + pos)

\* Mutant: the address does not wrap.
AddrUnwrapped == origin + pos \div 2

\* Two bytes to an address.
Addr == Wrap16(origin + pos \div 2)

Push(n, text) ==
  /\ out' = Append(out, [at    |-> pos,
                         addr  |-> Addr,
                         bytes |-> SubSeq(code, pos + 1, pos + n),
                         text  |-> text])
  /\ pos' = pos + n
  /\ UNCHANGED <<code, origin>>

\* Mutant: the prefix stays in force until the end.
SetPrefixForGood(word) == after_sdbd' = (after_sdbd \/ word = 1)

SetPrefix(word) == after_sdbd' = (word = 1)

Decoded == decode_cp1610(code, pos, Addr, after_sdbd)

Init ==
  /\ code \in Codes
  /\ origin \in Origins
  /\ pos = 0
  /\ out = <<>>
  /\ after_sdbd = FALSE

\* An odd byte at the end.
EmitByte ==
  /\ pos < Len(code)
  /\ ~Present(code, pos, 1)
  /\ Push(1, [kind |-> "byte", shown |-> <<code[pos + 1]>>])
  /\ UNCHANGED after_sdbd

EmitInstruction ==
  /\ Present(code, pos, 1)
  /\ \E d \in Decoded : Push(2 * d.words, d.text)
  /\ SetPrefix(WordAt(code, pos, 0))

EmitWord ==
  /\ Present(code, pos, 1)
  /\ Decoded = {}
  /\ Push(2, [kind |-> "word", shown |-> <<WordAt(code, pos, 0)>>])
  /\ SetPrefix(WordAt(code, pos, 0))

Return ==
  /\ pos >= Len(code)
  /\ UNCHANGED vars

Next == EmitByte \/ EmitInstruction \/ EmitWord \/ Return

Spec == Init /\ [][Next]_vars

FairSpec == Spec /\ WF_vars(Next)

------------------------------------------------------------------------------
(* The assembler.  It is not in this repository; it takes a branch's       *)
(* target and works out direction and magnitude, and lays the immediate of *)
(* an instruction that follows SDBD down as two decles, low byte first.    *)

BranchWords(cond, target, addr) ==
  LET distance == target - Wrap16(addr + 2)
  IN  IF distance >= 0 THEN <<\h200 + cond, distance>> ELSE <<\h220 + cond, -distance - 1>>

CondOf(mnemonic) == (CHOOSE k \in DOMAIN BRANCH_CONDS : BRANCH_CONDS[k] = mnemonic) - 1

MemoryWords(text, prefixed) ==
  LET opcode(mode) == MEM_FAMILIES[text.mnemonic] + 8 * mode + text.shown[2]
      value == text.shown[1]
  IN  CASE text.form = "direct" -> <<opcode(0), value>>
        [] text.form = "indirect" -> <<opcode(value)>>
        [] text.form = "immediate" /\ prefixed -> <<opcode(7), LoByte(value), HiByte(value)>>
        [] OTHER -> <<opcode(7), value>>

JumpWords(text) ==
  LET plain == <<"j", "je", "jd">>
      call == <<"jsr", "jsre", "jsrd">>
      ii == CHOOSE k \in 0..2 : text.mnemonic \in {plain[k + 1], call[k + 1]}
      rr == IF Len(text.shown) = 1 THEN 3 ELSE text.shown[2] - 4
      target == text.shown[1]
  IN  <<4, rr * 256 + (target \div 1024) * 4 + ii, target % 1024>>

PlainWord(text) ==
  LET class == CHOOSE c \in DOMAIN INSTRUCTIONS : text.mnemonic \in DOMAIN INSTRUCTIONS[c]
      base == INSTRUCTIONS[class][text.mnemonic]
  IN  CASE class = "Implied" -> base
        [] class = "RegReg" -> base + 8 * text.shown[1] + text.shown[2]
        [] class = "Shift" -> base + 4 * (text.shown[2] - 1) + text.shown[1]
        [] OTHER -> base + text.shown[1]

InstructionWords(text, addr, prefixed) ==
  CASE text.form = "branch" ->
         IF text.mnemonic = "bext" THEN BranchWords(\h10 + text.shown[2], text.shown[1], addr)
         ELSE BranchWords(CondOf(text.mnemonic), text.shown[1], addr)
    [] text.form \in {"direct", "indirect", "immediate"} -> MemoryWords(text, prefixed)
    [] text.form = "jump" -> JumpWords(text)
    [] text.form = "nopp" -> <<\h208, 0>>
    [] OTHER -> <<PlainWord(text)>>

\* The bytes of a sequence of words.
BytesOf(words) ==
  [j \in 1..(2 * Len(words)) |->
     LET word == words[(j + 1) \div 2]
     IN  IF j % 2 = 1 THEN HiByte(word) ELSE LoByte(word)]

\* What a line assembles to, behind an SDBD or not.
LineBytes(line, prefixed) ==
  CASE line.text.kind = "byte" -> line.text.shown
    [] line.text.kind = "word" -> BytesOf(line.text.shown)
    [] line.text.kind = "instruction" ->
         BytesOf(InstructionWords(line.text, line.addr, prefixed))

IsSDBD(text) == text.kind = "instruction" /\ text.mnemonic = "SDBD"

\* Whether line k stands behind an SDBD: the assembler sees only the line above.
Prefixed(k) == k > 1 /\ IsSDBD(out[k - 1].text)

Assembled(k) == LineBytes(out[k], Prefixed(k))

------------------------------------------------------------------------------
(* Properties *)

Mnemonics ==
  {BRANCH_CONDS[k] : k \in DOMAIN BRANCH_CONDS} \cup {"bext", "j", "je", "jd", "jsr", "jsre", "jsrd"}
    \cup DOMAIN MEM_FAMILIES \cup UNION {DOMAIN INSTRUCTIONS[class] : class \in DOMAIN INSTRUCTIONS}

Forms == {"", "branch", "direct", "indirect", "immediate", "jump", "nopp"}

Text ==
  [kind : {"byte", "word"}, shown : Seq(Nat)]
    \cup [kind : {"instruction"}, mnemonic : Mnemonics, form : Forms, shown : Seq(Nat)]

Line == [at : Nat, addr : Word16, bytes : Seq(Byte), text : Text]

TypeOK ==
  /\ code \in Seq(Byte)
  /\ origin \in Word16
  /\ pos \in 0..Len(code)
  /\ after_sdbd \in BOOLEAN
  /\ out \in Seq(Line)
  /\ \A k \in DOMAIN out : out[k].at <= pos

\* A branch of that magnitude does not run off either end of the address space.
InReach(word, pc, mag) ==
  (IF HasBit(word, \h20) THEN pc - mag - 1 ELSE pc + mag) \in Word16

(***************************************************************************)
(* What the instruction of a line leaves room for: opcodes and the decles  *)
(* of a jump have ten bits, the halves of a double-byte immediate eight,   *)
(* other operands are whole words; and a branch leads there without        *)
(* running off either end of the address space.                            *)
(***************************************************************************)
HasRoom(line) ==
  LET word(j) == WordAt(line.bytes, 0, j)
      double == line.text.form = "immediate" /\ Len(line.bytes) = 6
  IN  line.text.kind = "instruction" =>
        /\ word(0) < 1024
        /\ line.text.form = "jump" => word(1) < 1024 /\ word(2) < 1024
        /\ double => word(1) < 256 /\ word(2) < 256
        /\ line.text.form = "branch" => InReach(word(0), Wrap16(line.addr + 2), word(1))

(***************************************************************************)
(* A line whose words only use the bits its instruction has room for       *)
(* assembles to exactly its bytes, an immediate after SDBD included: the   *)
(* assembler, which sees the prefix only as the line above, takes as many  *)
(* words for it as the sweep did.  Data always comes back.                 *)
(***************************************************************************)
RoundTrip == \A k \in DOMAIN out : HasRoom(out[k]) => Assembled(k) = out[k].bytes

(***************************************************************************)
(* "Round-trip is byte-exact, even for flat binaries that interleave data":*)
(* the same of every line, whatever its words.                             *)
(***************************************************************************)
ByteExact == \A k \in DOMAIN out : Assembled(k) = out[k].bytes

(***************************************************************************)
(* decode tries the classes from the widest mask to the narrowest "so a    *)
(* more-specific opcode is matched before a broader one sharing the        *)
(* region": at no word the cursor comes to is there anything to decide, at *)
(* most one instruction of one class claims it.                            *)
(***************************************************************************)
OneClaimant ==
  Present(code, pos, 1) =>
    \A i, j \in Claimants(WordAt(code, pos, 0) % 1024) : i = j

\* The lines without their text.
Pieces ==
  [k \in DOMAIN out |->
     [at |-> out[k].at, addr |-> out[k].addr, bytes |-> out[k].bytes]]

Listing == INSTANCE Sweep
             WITH Codes <- Seq(Byte), Origins <- Word16, Unit <- 2, Memory <- 65536,
                  out <- Pieces

(***************************************************************************)
(* The disassembler keeps the promise of Sweep, counting addresses in      *)
(* words of two bytes.                                                     *)
(***************************************************************************)
ImplementsSweep == Listing!FairSpec

==============================================================================
