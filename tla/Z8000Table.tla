----------------------------- MODULE Z8000Table ------------------------------
(***************************************************************************)
(* The tables of isa/src/z8000.rs, one for each family of instructions,    *)
(* and what the decoder of each family makes of the bits: a row has the    *)
(* fixed bits of its opcode word (and of the second, where that has fields *)
(* too) and the slots its operands are in, in the order they are written;  *)
(* a slot behind them that is unread is no operand.                        *)
(* A row of the source that takes several addressing modes is several rows *)
(* here.                                                                   *)
(***************************************************************************)
EXTENDS Words, Sequences

------------------------------------------------------------------------------
(* Slots: a field of the first or second word, or words of their own       *)

Slot(kind, size, word, shift, width) ==
  [kind |-> kind, size |-> size, word |-> word, shift |-> shift, width |-> width]

Nibble(kind, size, shift) == Slot(kind, size, 1, shift, 4)
Second(kind, size, shift) == Slot(kind, size, 2, shift, 4)
Behind(kind, size) == Slot(kind, size, 1, 0, 0)

\* z8000_reg.  Pairs have even numbers and quadruples multiples of four.
Register(size, shift) == Nibble("register", size, shift)

\* @Rn, a pair where the CPU has segments; 0 is no pointer.
Pointer(shift) == Nibble("pointer", "Word", shift)

Condition(shift) == Nibble("cc", "Word", shift)

Number(shift, width) == Slot("number", "Word", 1, shift, width)

\* mode_of: the source field zero is another mode than a register there.
Addressed(mode, size, shift) ==
  CASE mode = "R"  -> Register(size, shift)
    [] mode = "IR" -> Pointer(shift)
    [] mode = "X"  -> Nibble("indexed", "Word", shift)
    [] mode = "DA" -> Behind("address", "Word")
    [] mode = "IM" -> Behind("immediate", size)

Group(mode) == CASE mode = "R" -> \h80 [] mode \in {"DA", "X"} -> \h40 [] OTHER -> 0

MEM == {"IR", "DA", "X"}
ALL == MEM \cup {"R", "IM"}

------------------------------------------------------------------------------
(* Rows.  `rank` is the place of the family's decoder among the thirteen.  *)

Row(rank, name, words, slots) == [rank |-> rank, name |-> name, words |-> words, slots |-> slots]

\* The first word of an instruction with an addressing mode.
first_word(mode, base6, low) == 256 * (Group(mode) + base6) + low

Ctl ==
  {Row(1, "jp", <<first_word(m, \h1E, 0)>>, <<Condition(0), Addressed(m, "Word", 4)>>) : m \in MEM}
    \cup {Row(1, "call", <<first_word(m, \h1F, 0)>>, <<Addressed(m, "Word", 4)>>) : m \in MEM}
    \cup {Row(1, "jr", <<\hE000>>, <<Condition(8), Slot("jr", "Word", 1, 0, 8)>>),
          Row(1, "djnz", <<\hF080>>, <<Register("Word", 8), Slot("djnz", "Word", 1, 0, 7)>>),
          Row(1, "dbjnz", <<\hF000>>, <<Register("Byte", 8), Slot("djnz", "Word", 1, 0, 7)>>),
          Row(1, "calr", <<\hD000>>, <<Slot("calr", "Word", 1, 0, 12)>>),
          Row(1, "ret", <<\h9E00>>, <<Condition(0)>>)}

MonoRows(name, base6, size, low, count) ==
  {Row(2, name, <<first_word(m, base6, low)>>, <<Addressed(m, size, 4)>> \o count) : m \in MEM \cup {"R"}}

Mono ==
  LET words == <<"com", "neg", "test", "tset", "clr">>
      bytes == <<"comb", "negb", "testb", "tsetb", "clrb">>
      count == <<Nibble("count", "Word", 0)>>
  IN  UNION {MonoRows(words[i], \h0D, "Word", 2 * (i - 1), <<>>)
               \cup MonoRows(bytes[i], \h0C, "Byte", 2 * (i - 1), <<>>) : i \in 1..5}
        \cup MonoRows("inc", \h29, "Word", 0, count) \cup MonoRows("incb", \h28, "Byte", 0, count)
        \cup MonoRows("dec", \h2B, "Word", 0, count) \cup MonoRows("decb", \h2A, "Byte", 0, count)

\* The stack pointer's field is the high one, the value's the low one.
Stack ==
  LET push(name, base6, size) ==
        {Row(3, name, <<first_word(m, base6, 0)>>, <<Pointer(4), Addressed(m, size, 0)>>) : m \in MEM \cup {"R"}}
      pop(name, base6, size) ==
        {Row(3, name, <<first_word(m, base6, 0)>>, <<Addressed(m, size, 0), Pointer(4)>>) : m \in MEM \cup {"R"}}
  IN  push("push", \h13, "Word") \cup push("pushl", \h11, "Long")
        \cup pop("pop", \h17, "Word") \cup pop("popl", \h15, "Long")
        \cup {Row(3, "push", <<\h0D09>>, <<Pointer(4), Behind("immediate", "Word")>>)}

\* The sign of the count word says which way a shift goes.
Shifts ==
  LET shifts(left, right, word, size) ==
        {Row(4, left, <<word>>, <<Register(size, 4), Behind("left", size)>>),
         Row(4, right, <<word>>, <<Register(size, 4), Behind("right", size)>>)}
      rotates(names, word, size) ==
        {Row(4, names[i], <<word + 4 * (i - 1)>>,
             <<Register(size, 4), Slot("count", "Word", 1, 1, 1)>>) : i \in 1..4}
  IN  shifts("sla", "sra", \hB309, "Word") \cup shifts("sll", "srl", \hB301, "Word")
        \cup shifts("slal", "sral", \hB30D, "Long") \cup shifts("slll", "srll", \hB305, "Long")
        \cup shifts("slab", "srab", \hB209, "Byte") \cup shifts("sllb", "srlb", \hB201, "Byte")
        \cup rotates(<<"rl", "rr", "rlc", "rrc">>, \hB300, "Word")
        \cup rotates(<<"rlb", "rrb", "rlcb", "rrcb">>, \hB200, "Byte")

Extends ==
  {Row(5, "extsb", <<\hB100>>, <<Register("Word", 4)>>),
   Row(5, "exts", <<\hB10A>>, <<Register("Long", 4)>>),
   Row(5, "extsl", <<\hB107>>, <<Register("Quad", 4)>>)}

\* Where an immediate would be, the bit is in a register and the operand in
\* the second word.
Bits ==
  LET bits(name, base6, size) ==
        {Row(6, name, <<first_word(m, base6, 0)>>, <<Addressed(m, size, 4), Nibble("bit", size, 0)>>) :
           m \in MEM \cup {"R"}}
          \cup {Row(6, name, <<first_word("IM", base6, 0), 0>>, <<Second("register", size, 8), Register("Word", 0)>>)}
  IN  bits("bit", \h27, "Word") \cup bits("bitb", \h26, "Byte") \cup bits("set", \h25, "Word")
        \cup bits("setb", \h24, "Byte") \cup bits("res", \h23, "Word") \cup bits("resb", \h22, "Byte")

MulDiv ==
  LET rows(name, base6, dest, src) ==
        {Row(7, name, <<first_word(m, base6, 0)>>, <<Register(dest, 0), Addressed(m, src, 4)>>) : m \in ALL}
  IN  rows("mult", \h19, "Long", "Word") \cup rows("multl", \h18, "Quad", "Long")
        \cup rows("div", \h1B, "Long", "Word") \cup rows("divl", \h1A, "Quad", "Long")

------------------------------------------------------------------------------
(* Two words: pointers in both, the count in the second                    *)

Count == Second("register", "Word", 8)

\* A block's pointers are not looked at for zero.
First == Nibble("block pointer", "Word", 4)
Other == Second("block pointer", "Word", 4)

\* Going up, with repetition, down, with repetition: the low bits of the first
\* word say the direction, those of the second whether it repeats.
Block ==
  LET loads(names, top) ==
        {Row(8, names[i], <<top + <<1, 1, 9, 9>>[i], <<8, 0, 8, 0>>[i]>>, <<Other, First, Count>>) : i \in 1..4}
      compares(names, top, size) ==
        {Row(8, names[i], <<top + 4 * (i - 1), 0>>,
             <<Second("register", size, 4), First, Count, Second("cc", "Word", 0)>>) : i \in 1..4}
      strings(names, top) ==
        {Row(8, names[i], <<top + 2 + 4 * (i - 1), 0>>,
             <<Other, First, Count, Second("cc", "Word", 0)>>) : i \in 1..4}
      translates(names, low, again) ==
        {Row(8, names[i], <<\hB800 + low + 4 * (i - 1), IF i % 2 = 0 THEN again ELSE 0>>,
             <<First, Other, Count>>) : i \in 1..4}
  IN  UNION {loads(<<"ldi", "ldir", "ldd", "lddr">>, \hBB00),
             loads(<<"ldib", "ldirb", "lddb", "lddrb">>, \hBA00),
             compares(<<"cpi", "cpir", "cpd", "cpdr">>, \hBB00, "Word"),
             compares(<<"cpib", "cpirb", "cpdb", "cpdrb">>, \hBA00, "Byte"),
             strings(<<"cpsi", "cpsir", "cpsd", "cpsdr">>, \hBB00),
             strings(<<"cpsib", "cpsirb", "cpsdb", "cpsdrb">>, \hBA00),
             translates(<<"trib", "trirb", "trdb", "trdrb">>, 0, 0),
             translates(<<"trtib", "trtirb", "trtdb", "trtdrb">>, 2, \h0E)}

SimpleIo ==
  LET port == Behind("port", "Word")
      direct(names, top, size) ==
        {Row(9, names[i], <<top + 3 + i>>,
             IF i <= 2 THEN <<Register(size, 4), port>> ELSE <<port, Register(size, 4)>>) : i \in 1..4}
      at == Nibble("port pointer", "Word", 4)
  IN  direct(<<"in", "sin", "out", "sout">>, \h3B00, "Word")
        \cup direct(<<"inb", "sinb", "outb", "soutb">>, \h3A00, "Byte")
        \cup {Row(9, "in", <<\h3D00>>, <<Register("Word", 0), at>>),
              Row(9, "inb", <<\h3C00>>, <<Register("Byte", 0), at>>),
              Row(9, "out", <<\h3F00>>, <<at, Register("Word", 0)>>),
              Row(9, "outb", <<\h3E00>>, <<at, Register("Byte", 0)>>)}

\* One pointer is into memory and may be a pair, the other is a port: the
\* destination of an output, the source of an input.
BlockIo ==
  LET rows(names, word) ==
        {Row(9, names[i], <<word + <<0, 0, 8, 8>>[i], <<8, 0, 8, 0>>[i]>>,
             IF HasBit(word, 2) THEN <<Second("block port", "Word", 4), First, Count>>
             ELSE <<Other, Nibble("block port", "Word", 4), Count>>) : i \in 1..4}
  IN  UNION {rows(<<"ini", "inir", "ind", "indr">>, \h3B00), rows(<<"inib", "inirb", "indb", "indrb">>, \h3A00),
             rows(<<"outi", "otir", "outd", "otdr">>, \h3B02), rows(<<"outib", "otirb", "outdb", "otdrb">>, \h3A02),
             rows(<<"sini", "sinir", "sind", "sindr">>, \h3B01),
             rows(<<"sinib", "sinirb", "sindb", "sindrb">>, \h3A01),
             rows(<<"souti", "sotir", "soutd", "sotdr">>, \h3B03),
             rows(<<"soutib", "sotirb", "soutdb", "sotdrb">>, \h3A03)}

------------------------------------------------------------------------------
Controls ==
  LET fixed(names, words) == {Row(10, names[i], <<words[i]>>, <<>>) : i \in DOMAIN names}
      flags(name, word) == Row(10, name, <<word>>, <<Nibble("flags", "Word", 4)>>)
      interrupts(name, word) == Row(10, name, <<word>>, <<Slot("interrupts", "Word", 1, 0, 2)>>)
      control == Slot("control register", "Word", 1, 0, 3)
  IN  fixed(<<"nop", "halt", "iret", "mset", "mres", "mbit">>,
            <<\h8D07, \h7A00, \h7B00, \h7B08, \h7B09, \h7B0A>>)
        \cup {Row(10, "mreq", <<\h7B0D>>, <<Register("Word", 4)>>),
              flags("setflg", \h8D01), flags("resflg", \h8D03), flags("comflg", \h8D05),
              interrupts("ei", \h7C04), interrupts("di", \h7C00),
              Row(10, "ldctl", <<\h7D00>>, <<Register("Word", 4), control>>),
              Row(10, "ldctl", <<\h7D08>>, <<control, Register("Word", 4)>>),
              Row(10, "ldctlb", <<\h8C01>>, <<Register("Byte", 4), Behind("flag byte", "Byte")>>),
              Row(10, "ldctlb", <<\h8C09>>, <<Behind("flag byte", "Byte"), Register("Byte", 4)>>),
              Row(10, "sc", <<\h7F00>>, <<Number(0, 8)>>)}
        \cup {Row(10, "ldps", <<first_word(m, \h39, 0)>>, <<Addressed(m, "Word", 4)>>) : m \in MEM}

\* Nothing looks whether the pair of a relative load is one, nor at the upper
\* half of its second byte.
Misc ==
  LET unread == Nibble("unread", "Word", 4)
      relative(name, top, register) ==
        {Row(11, name, <<256 * top>>, <<register, Behind("ldr", "Word"), unread>>),
         Row(11, name, <<256 * (top + 2)>>, <<Behind("ldr", "Word"), register, unread>>)}
  IN  {Row(11, "tcc", <<\hAF00>>, <<Condition(0), Register("Word", 4)>>),
       Row(11, "tccb", <<\hAE00>>, <<Condition(0), Register("Byte", 4)>>),
       Row(11, "ldk", <<\hBD00>>, <<Register("Word", 4), Number(0, 4)>>),
       Row(11, "rldb", <<\hBE00>>, <<Register("Byte", 0), Register("Byte", 4)>>),
       Row(11, "rrdb", <<\hBC00>>, <<Register("Byte", 0), Register("Byte", 4)>>)}
        \cup relative("ldr", \h31, Register("Word", 0)) \cup relative("ldrb", \h30, Register("Byte", 0))
        \cup relative("ldrl", \h35, Nibble("any register", "Long", 0))

LdbShort == {Row(12, "ldb", <<\hC000>>, <<Register("Byte", 8), Number(0, 8)>>)}

\* lda loads an address, which is a pair where the CPU has segments.
INSTRUCTIONS(seg) ==
  LET load(name, base6, size, modes, dest) ==
        {Row(13, name, <<first_word(m, base6, 0)>>, <<Register(dest, 0), Addressed(m, size, 4)>>) : m \in modes}
      store(name, base6, size) ==
        {Row(13, name, <<first_word(m, base6, 0)>>, <<Addressed(m, size, 4), Register(size, 0)>>) : m \in MEM}
      loads(names, bases, size, modes) ==
        UNION {load(names[i], bases[i], size, modes, size) : i \in DOMAIN names}
  IN  UNION {loads(<<"add", "sub", "or", "and", "xor", "cp", "ld">>, <<1, 3, 5, 7, 9, 11, \h21>>, "Word", ALL),
             loads(<<"addb", "subb", "orb", "andb", "xorb", "cpb", "ldb">>, <<0, 2, 4, 6, 8, 10, \h20>>, "Byte", ALL),
             loads(<<"cpl", "subl", "ldl", "addl">>, <<\h10, \h12, \h14, \h16>>, "Long", ALL),
             loads(<<"adc", "sbc">>, <<\h35, \h37>>, "Word", {"R"}),
             loads(<<"adcb", "sbcb">>, <<\h34, \h36>>, "Byte", {"R"}),
             loads(<<"ex">>, <<\h2D>>, "Word", ALL \ {"IM"}), loads(<<"exb">>, <<\h2C>>, "Byte", ALL \ {"IM"}),
             load("lda", \h36, "Word", {"DA", "X"}, IF seg THEN "Long" ELSE "Word"),
             store("ld", \h2F, "Word"), store("ldb", \h2E, "Byte"), store("ldl", \h1D, "Long")}

Rows ==
  [seg \in BOOLEAN |->
     UNION {Ctl, Mono, Stack, Shifts, Extends, Bits, MulDiv, Block, SimpleIo, BlockIo, Controls, Misc,
            LdbShort, INSTRUCTIONS(seg)}]

==============================================================================
