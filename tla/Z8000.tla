-------------------------------- MODULE Z8000 --------------------------------
(***************************************************************************)
(* disassemble_z8000 and disassemble_z8001 (`seg`: with segments): the     *)
(* chain of thirteen decoders, and asl, which reads the texts back.        *)
(***************************************************************************)
EXTENDS Z8000Table, Texts, FiniteSetsExt

------------------------------------------------------------------------------
(* Reading a row's slots *)

\* Rows by the first byte of their opcode word, whose low half may be a field.
StartingWith ==
  [seg \in BOOLEAN |->
     [b \in Byte |->
        {row \in Rows[seg] :
           LET top == row.words[1] \div 256
           IN  top = IF \E s \in DOMAIN row.slots : row.slots[s].word = 1 /\ row.slots[s].shift + row.slots[s].width > 8
                     THEN b - (b % 16) ELSE b}]]

\* z8000_addr: one word, or two with the segment in the first.
AddressBytes(seg) == IF seg THEN 4 ELSE 2

\* Bytes a slot takes behind the words with fields.
Extension(slot, seg) ==
  CASE slot.kind \in {"address", "indexed"} -> AddressBytes(seg)
    [] slot.kind = "immediate"              -> IF slot.size = "Long" THEN 4 ELSE 2
    [] slot.kind \in {"left", "right", "port", "ldr"} -> 2
    [] OTHER                                -> 0

\* The slots that are operands.
Operands(row) == {s \in DOMAIN row.slots : row.slots[s].kind # "unread"}

Length(row, seg) ==
  2 * Len(row.words) + MapThenSumSet(LAMBDA s : Extension(row.slots[s], seg), DOMAIN row.slots)

Field(c, p, slot) == (BigWord(c, p + 2 * (slot.word - 1)) \div 2^slot.shift) % 2^slot.width

\* The bits of a row's word that no field covers.
Fixed(row, w) ==
  {i \in 0..15 : \A s \in DOMAIN row.slots :
     row.slots[s].word = w => i \notin row.slots[s].shift .. row.slots[s].shift + row.slots[s].width - 1}

BitAt(word, i) == (word \div 2^i) % 2

\* Mutant: the second word is not compared.
MatchesFirstWord(row, c, p) ==
  \A i \in Fixed(row, 1) : BitAt(BigWord(c, p), i) = BitAt(row.words[1], i)

\* Whether the words are the row's but for the fields in them.
Matches(row, c, p) ==
  \A w \in DOMAIN row.words : \A i \in Fixed(row, w) :
    BitAt(BigWord(c, p + 2 * (w - 1)), i) = BitAt(row.words[w], i)

\* reg_aligned
Aligned(n, size) == CASE size = "Long" -> n % 2 = 0 [] size = "Quad" -> n % 4 = 0 [] OTHER -> TRUE

\* A pointer into memory; a pointer to a port has no segment.
IsPair(slot, seg) == seg /\ slot.kind \in {"pointer", "block pointer"}

shift_max(size) == CASE size = "Byte" -> 8 [] size = "Long" -> 32 [] OTHER -> 16

\* The count of a byte shift is in the low byte of its word, the high one is
\* zero.
ShiftCount(word, size) == IF size = "Byte" THEN AsI8(LoByte(word)) ELSE AsI16(word)

ShiftCountLegal(word, size) ==
  /\ size = "Byte" => HiByte(word) = 0
  /\ ShiftCount(word, size) \in -shift_max(size)..shift_max(size)

\* word_ctrl_name
ControlRegisters(seg) == IF seg THEN 2..7 ELSE {2, 3, 5, 7}

\* What a decoder asks of a field's value n, and of the word at q behind.
Legal(slot, n, c, q, seg) ==
  CASE slot.kind = "register"         -> Aligned(n, slot.size)
    [] slot.kind = "pointer"          -> n # 0 /\ (IsPair(slot, seg) => n % 2 = 0)
    [] slot.kind = "block pointer"    -> IsPair(slot, seg) => n % 2 = 0
    [] slot.kind \in {"port pointer", "flags"} -> n # 0
    [] slot.kind = "bit"              -> n <= IF slot.size = "Byte" THEN 7 ELSE 15
    [] slot.kind = "interrupts"       -> n # 3
    [] slot.kind = "control register" -> n \in ControlRegisters(seg)
    [] slot.kind = "indexed"          -> n # 0 /\ (seg => c[q + 1] >= 128 /\ c[q + 2] = 0)
    [] slot.kind = "address"          -> seg => c[q + 1] >= 128 /\ c[q + 2] = 0
    [] slot.kind = "immediate"        -> slot.size = "Byte" => c[q + 1] = c[q + 2]
    [] slot.kind = "left"             ->
         ShiftCountLegal(BigWord(c, q), slot.size) /\ ShiftCount(BigWord(c, q), slot.size) >= 0
    [] slot.kind = "right"            ->
         ShiftCountLegal(BigWord(c, q), slot.size) /\ ShiftCount(BigWord(c, q), slot.size) < 0
    [] OTHER                          -> TRUE

------------------------------------------------------------------------------
(* Texts.  A condition that always holds is not printed; it is the number  *)
(* 8 here all the same, as no text has it otherwise.                       *)

\* Where the next instruction is.
Following(addr) == Wrap16(addr + 2)

\* The numbers of an address.
Located(c, q, seg) == IF seg THEN <<c[q + 1] - 128, BigWord(c, q + 2)>> ELSE <<BigWord(c, q)>>

Shown(slot, n, c, q, addr, seg) ==
  CASE slot.kind \in {"register", "any register"} -> Operand(slot.size, <<n>>)
    [] slot.kind \in {"pointer", "block pointer", "port pointer", "block port"} ->
         Operand(IF IsPair(slot, seg) THEN "@pair" ELSE "@", <<n>>)
    [] slot.kind \in {"number", "bit"} -> Operand("#", <<n>>)
    [] slot.kind = "count"             -> Operand("#", <<n + 1>>)
    [] slot.kind = "left"              -> Operand("#", <<ShiftCount(BigWord(c, q), slot.size)>>)
    [] slot.kind = "right"             -> Operand("#", <<-ShiftCount(BigWord(c, q), slot.size)>>)
    [] slot.kind = "immediate"         ->
         Operand("#", CASE slot.size = "Byte" -> <<c[q + 1]>>
                        [] slot.size = "Long" -> <<BigWord(c, q), BigWord(c, q + 2)>>
                        [] OTHER              -> <<BigWord(c, q)>>)
    [] slot.kind = "address"           -> Operand("address", Located(c, q, seg))
    [] slot.kind = "indexed"           -> Operand("indexed", Append(Located(c, q, seg), n))
    [] slot.kind = "port"              -> Operand("address", <<BigWord(c, q)>>)
    [] slot.kind = "jr"                -> Operand("address", <<Wrap16(Following(addr) + 2 * AsI8(n))>>)
    [] slot.kind = "djnz"              -> Operand("address", <<Wrap16(Following(addr) - 2 * n)>>)
    [] slot.kind = "calr"              ->
         Operand("address", <<Wrap16(Following(addr) - 2 * (IF n >= 2048 THEN n - 4096 ELSE n))>>)
    [] slot.kind = "ldr"               -> Operand("address", <<Wrap16(addr + 4 + BigWord(c, q))>>)
    [] OTHER                           -> Operand(slot.kind, <<n>>)

\* The rows whose decoder reads the bytes at p.  One that can not leaves them
\* to those behind it.
Claims(c, p, seg) ==
  {row \in StartingWith[seg][c[p + 1]] :
     /\ p + Length(row, seg) <= Len(c)
     /\ Matches(row, c, p)
     /\ \A s \in DOMAIN row.slots :
          Legal(row.slots[s], Field(c, p, row.slots[s]), c, p + 2 * Len(row.words), seg)}

ReadingOf(row, c, p, addr, seg) ==
  LET behind == p + 2 * Len(row.words)
  IN  Reading(row.rank, Length(row, seg),
              Text(row.name, [s \in Operands(row) |->
                                Shown(row.slots[s], Field(c, p, row.slots[s]), c, behind, addr, seg)]))

Readings(c, p, addr, seg) == {ReadingOf(row, c, p, addr, seg) : row \in Claims(c, p, seg)}

------------------------------------------------------------------------------
(* An example of every row, in every mode *)

lowest_register(size) == CASE size = "Long" -> 2 [] size = "Quad" -> 0 [] OTHER -> 1

\* A field's value: the registers 4 and 6, the count in 8, and EQ where the
\* tables have an exemplar of their own, and the lowest register elsewhere.
Example(row, slot, seg) ==
  CASE slot.kind \in {"count", "jr", "unread"} \/ slot.width = 0 -> 0
    [] slot.kind \in {"register", "any register"} /\ row.rank \in {2, 4, 5, 6, 7, 12, 13} ->
         lowest_register(slot.size)
    [] slot.kind \in {"pointer", "indexed"} /\ row.rank # 3 -> IF IsPair(slot, seg) THEN 2 ELSE 1
    [] row.rank \in {8, 9} /\ slot.word = 2 /\ slot.shift = 8 -> 8
    [] row.rank \in {8, 9} /\ slot.word = 2 /\ slot.shift = 4 -> 6
    [] row.rank = 3 /\ slot.shift = 0 -> 6
    [] row.name \in {"rldb", "rrdb"} /\ slot.shift = 4 -> 6
    [] slot.kind = "cc" -> 6
    [] slot.kind \in {"djnz", "calr", "interrupts"} -> 1
    [] slot.kind = "control register" -> 2
    [] slot.kind = "flags" -> 8
    [] slot.kind = "bit" -> 3
    [] slot.kind = "number" -> 5
    [] OTHER -> 4

ExampleBehind(slot, seg) ==
  CASE slot.kind \in {"address", "indexed"} /\ seg -> <<\h80, 0, 0, 0>>
    [] slot.kind = "left"  -> <<0, 1>>
    [] slot.kind = "right" -> IF slot.size = "Byte" THEN <<0, \hFF>> ELSE <<\hFF, \hFF>>
    [] slot.kind = "port"  -> <<0, \h34>>
    [] slot.kind = "ldr"   -> <<\hFF, \hFC>>
    [] OTHER               -> [k \in 1..Extension(slot, seg) |-> 0]

\* The words of a row with these values in its fields, and the bytes behind.
\* At most one slot of a row has any.
Laid(row, value, behind) ==
  LET word(w) ==
        BigBytes(row.words[w] + MapThenSumSet(LAMBDA s : value[s] * 2^row.slots[s].shift,
                                              {s \in DOMAIN row.slots : row.slots[s].word = w}))
      last == {s \in DOMAIN row.slots : behind[s] # <<>>}
  IN  word(1) \o (IF Len(row.words) = 2 THEN word(2) ELSE <<>>)
              \o (IF last = {} THEN <<>> ELSE behind[CHOOSE s \in last : TRUE])

Exemplars ==
  [seg \in BOOLEAN |->
     {Laid(row, [s \in DOMAIN row.slots |-> Example(row, row.slots[s], seg)],
                [s \in DOMAIN row.slots |-> ExampleBehind(row.slots[s], seg)]) : row \in Rows[seg]}]

------------------------------------------------------------------------------
(* asl.  It is not in this repository.  It has the short form for a byte   *)
(* loaded at once, takes register 0 for no pointer and odd registers for   *)
(* no pairs, and a pointer of a translation may not be register 1.         *)

Named ==
  [seg \in BOOLEAN |->
     LET rows == {row \in Rows[seg] : ~(row.name = "ldb" /\ row.slots[2].kind = "immediate")}
     IN  [name \in {row.name : row \in rows} |-> {row \in rows : row.name = name}]]

TRANSLATES == {"trib", "trirb", "trdb", "trdrb", "trtib", "trtirb", "trtdb", "trtdrb"}

\* The values of a field that say an operand: one, or none where the slot
\* does not take it.
Said(row, slot, operand, addr, seg) ==
  LET n == operand.numbers[1]
      if(cond, value) == IF cond THEN {value} ELSE {}
      syntax == operand.syntax
      back == AsI16(Wrap16(Following(addr) - n))
      forth == Distance(n, Following(addr))
      one == Len(operand.numbers) = 1
  IN  CASE slot.kind \in {"register", "any register"} -> if(syntax = slot.size /\ Aligned(n, slot.size), n)
        [] slot.kind \in {"pointer", "block pointer", "port pointer", "block port"} ->
             if(/\ syntax = IF IsPair(slot, seg) THEN "@pair" ELSE "@"
                /\ n # 0 /\ (IsPair(slot, seg) => n % 2 = 0) /\ ~(row.name \in TRANSLATES /\ n = 1), n)
        [] slot.kind = "number"           -> if(syntax = "#" /\ one /\ n < 2^slot.width, n)
        [] slot.kind = "bit"              -> if(syntax = "#" /\ one /\ n <= IF slot.size = "Byte" THEN 7 ELSE 15, n)
        [] slot.kind = "count"            -> if(syntax = "#" /\ one /\ n \in 1..2^slot.width, n - 1)
        [] slot.kind \in {"left", "right"} -> if(syntax = "#" /\ one /\ n <= shift_max(slot.size), 0)
        [] slot.kind = "immediate"        ->
             if(syntax = "#" /\ one = (slot.size # "Long") /\ (slot.size = "Byte" => n < 256), 0)
        [] slot.kind = "address"          -> if(syntax = "address" /\ one = ~seg, 0)
        [] slot.kind = "indexed"          -> if(syntax = "indexed", operand.numbers[Len(operand.numbers)])
        [] slot.kind \in {"port", "ldr"}  -> if(syntax = "address" /\ one, 0)
        [] slot.kind = "jr"               ->
             if(syntax = "address" /\ forth % 2 = 0 /\ forth \in -256..254, LoByte(forth \div 2))
        [] slot.kind = "djnz"             -> if(syntax = "address" /\ back % 2 = 0 /\ back \in 0..254, back \div 2)
        [] slot.kind = "calr"             ->
             if(syntax = "address" /\ back % 2 = 0 /\ back \in -4096..4094, (back \div 2) % 4096)
        [] OTHER                          -> if(syntax = slot.kind, n)

\* The bytes behind the words with fields that say an operand.
SaidBehind(slot, operand, addr, seg) ==
  LET n == operand.numbers[1]
      located == IF seg THEN <<n + 128, 0>> \o BigBytes(operand.numbers[2]) ELSE BigBytes(n)
  IN  CASE slot.kind \in {"address", "indexed"} -> located
        [] slot.kind = "port"      -> BigBytes(n)
        [] slot.kind = "ldr"       -> BigBytes(Wrap16(n - (addr + 4)))
        [] slot.kind = "left"      -> BigBytes(n)
        [] slot.kind = "right"     -> IF slot.size = "Byte" THEN <<0, LoByte(-n)>> ELSE BigBytes(Wrap16(-n))
        [] slot.kind = "immediate" ->
             (CASE slot.size = "Byte" -> <<n, n>>
                [] slot.size = "Long" -> BigBytes(n) \o BigBytes(operand.numbers[2])
                [] OTHER              -> BigBytes(n))
        [] OTHER                   -> <<>>

Assembled(text, addr, seg) ==
  LET said(row, s) == Said(row, row.slots[s], text.operands[s], addr, seg)
      rows == {row \in Named[seg][text.name] :
                 /\ Operands(row) = DOMAIN text.operands
                 /\ \A s \in Operands(row) : said(row, s) # {}}
      value(row, s) == IF s \in Operands(row) THEN CHOOSE v \in said(row, s) : TRUE ELSE 0
      behind(row, s) ==
        IF s \in Operands(row) THEN SaidBehind(row.slots[s], text.operands[s], addr, seg) ELSE <<>>
  IN  {Laid(row, [s \in DOMAIN row.slots |-> value(row, s)], [s \in DOMAIN row.slots |-> behind(row, s)]) :
         row \in rows}

\* The upper half of a relative load's second byte is in no text.
Unsaid(bytes) == bytes[1] \in {\h30, \h31, \h32, \h33, \h35, \h37} /\ bytes[2] >= 16

\* The texts asl does not take back for what they were read from: a byte
\* loaded by the long form, a relative load of an odd pair, register 0 for a
\* pointer of a block, register 1 for one of a translation.
Lost(text, length) ==
  \/ text.name = "ldb" /\ length = 4 /\ text.operands[2].syntax = "#"
  \/ text.name = "ldrl" /\ \E s \in {1, 2} : text.operands[s].syntax = "Long" /\ text.operands[s].numbers[1] % 2 = 1
  \/ \E s \in DOMAIN text.operands :
       /\ text.operands[s].syntax \in {"@", "@pair"}
       /\ text.operands[s].numbers[1] \in IF text.name \in TRANSLATES THEN {0, 1} ELSE {0}

==============================================================================
