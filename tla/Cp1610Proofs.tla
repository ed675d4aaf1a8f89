---------------------------- MODULE Cp1610Proofs -----------------------------
(***************************************************************************)
(* The CP1610 disassembler proved right for every buffer and every origin: *)
(* its types, the round trip with the prefix both sides keep, the classes  *)
(* that never compete for a word, and the sweep it implements.             *)
(***************************************************************************)
EXTENDS Cp1610, WordLemmas, SequenceTheorems

------------------------------------------------------------------------------
(* The fields of a word *)

\* A number is its eights and what is left over.
LEMMA ByEights ==
  ASSUME NEW w \in Int, 0 <= w
  PROVE  \E q \in Nat : \E r \in 0..7 : q = w \div 8 /\ r = w % 8 /\ w = 8 * q + r
BY SMTT(30)

\* A word of the memory region is its family, its mode and its register.
LEMMA MemoryFields ==
  ASSUME NEW w \in Int, 0 <= w, w < 1024
  PROVE  \E family \in 0..15 : \E mode \in 0..7 : \E reg \in 0..7 :
           /\ family = (w \div 64) % 16 /\ mode = (w \div 8) % 8 /\ reg = w % 8
           /\ w = 64 * family + 8 * mode + reg
<1>1. PICK q \in Nat : \E r \in 0..7 : q = w \div 8 /\ r = w % 8 /\ w = 8 * q + r
  BY ByEights
<1>2. PICK reg \in 0..7 : q = w \div 8 /\ reg = w % 8 /\ w = 8 * q + reg
  BY <1>1
<1>3. PICK a \in Nat : \E r \in 0..7 : a = q \div 8 /\ r = q % 8 /\ q = 8 * a + r
  BY ByEights
<1>4. PICK mode \in 0..7 : a = q \div 8 /\ mode = q % 8 /\ q = 8 * a + mode
  BY <1>3
<1>5. w = 64 * a + 8 * mode + reg
  BY <1>2, <1>4
<1>6. a \in 0..15
  BY <1>5
<1>7. w \div 64 = a
  BY <1>5, SMT
<1>8. a % 16 = a
  BY <1>6
<1>9. a = (w \div 64) % 16 /\ mode = (w \div 8) % 8
  BY <1>2, <1>4, <1>7, <1>8
<1> QED
  BY <1>2, <1>5, <1>6, <1>9, ZenonT(60)

\* A word of the branch page is its direction, its kind and its condition.
LEMMA BranchFields ==
  ASSUME NEW w \in Int, 0 <= w, w < 1024, (w \div 64) % 16 = 8
  PROVE  \E back \in 0..1 : \E ext \in 0..1 : \E cond \in 0..15 :
           /\ back = (w \div 32) % 2 /\ ext = (w \div 16) % 2 /\ cond = w % 16
           /\ w = 512 + 32 * back + 16 * ext + cond
<1>1. PICK a \in Int : a = w \div 64
  BY SMT
<1>2. 0 <= a /\ a < 16
  BY <1>1, SMT
<1>3. a % 16 = a
  BY <1>2
<1>4. a = 8
  BY <1>1, <1>3
<1>5. 512 <= w /\ w < 576
  BY <1>1, <1>4, SMT
<1>6. PICK t \in Int : t = w - 512 /\ 0 <= t /\ t < 64
  BY <1>5
<1>7. \E back \in 0..1 : \E ext \in 0..1 : \E cond \in 0..15 : t = 32 * back + 16 * ext + cond
  BY <1>6
<1>8. PICK back \in 0..1, ext \in 0..1, cond \in 0..15 : t = 32 * back + 16 * ext + cond
  BY <1>7
<1>9. w = 512 + 32 * back + 16 * ext + cond
  BY <1>6, <1>8
<1>10. w % 16 = cond
  BY <1>9, SMT
<1>11. w \div 16 = 32 + 2 * back + ext
  BY <1>9, SMT
<1>12. w \div 32 = 16 + back
  BY <1>9, SMT
<1>13. (w \div 16) % 2 = ext
  BY <1>11, SMT
<1>14. (w \div 32) % 2 = back
  BY <1>12, SMT
<1> QED
  BY <1>9, <1>10, <1>13, <1>14

\* The address in the two decles of a jump.
LEMMA JumpFields ==
  ASSUME NEW a \in Int, 0 <= a, a < 1024, NEW b \in Int, 0 <= b, b < 1024,
         NEW mid \in Int, mid = (a \div 4) % 64, NEW low \in Int, low = b % 1024,
         NEW target \in Int, target = 1024 * mid + low
  PROVE  /\ target \in Nat /\ target % 1024 = b
         /\ \E rr \in 0..3 : \E ii \in 0..3 :
               rr = (a \div 256) % 4 /\ ii = a % 4 /\ 256 * rr + 4 * (target \div 1024) + ii = a
<1>1. \E rr \in 0..3 : \E m \in 0..63 : \E ii \in 0..3 : a = 256 * rr + 4 * m + ii
  BY SMT
<1>2. PICK rr \in 0..3, m \in 0..63, ii \in 0..3 : a = 256 * rr + 4 * m + ii
  BY <1>1
<1>3. a \div 256 = rr
  BY <1>2, SMT
<1>4. a \div 4 = 64 * rr + m
  BY <1>2, SMT
<1>5. a % 4 = ii
  BY <1>2, SMT
<1>6. (a \div 4) % 64 = m
  BY <1>4, SMT
<1>7. rr % 4 = rr
  OBVIOUS
<1>8. b % 1024 = b
  BY SMT
<1>9. target = 1024 * m + b
  BY <1>6, <1>8
<1>10. target \div 1024 = m
  BY <1>9, SMT
<1>11. target % 1024 = b
  BY <1>9, SMT
<1>12. target \in Nat
  BY <1>9
<1>13. 256 * rr + 4 * (target \div 1024) + ii = a
  BY <1>2, <1>10
<1>14. rr = (a \div 256) % 4 /\ ii = a % 4
  BY <1>3, <1>5, <1>7
<1> QED
  BY <1>11, <1>12, <1>13, <1>14

------------------------------------------------------------------------------
(* Words and the bytes they stand for *)

\* The word at p, and the two bytes it is made of.
LEMMA WordOfBuffer ==
  ASSUME NEW c \in Seq(Byte), NEW p \in Nat, NEW k \in Nat, p + 2 * k + 2 <= Len(c)
  PROVE  /\ WordAt(c, p, k) \in Nat
         /\ HiByte(WordAt(c, p, k)) = c[p + 2 * k + 1]
         /\ LoByte(WordAt(c, p, k)) = c[p + 2 * k + 2]
<1>1. PICK n \in Nat : n = Len(c)
  BY LenProperties
<1>2. p + 2 * k + 1 \in 1..n /\ p + 2 * k + 2 \in 1..n
  BY <1>1
<1>3. PICK hi \in Byte, lo \in Byte : hi = c[p + 2 * k + 1] /\ lo = c[p + 2 * k + 2]
  BY <1>1, <1>2, ElementOfSeq
<1>4. WordAt(c, p, k) = WordOf(lo, hi)
  BY <1>3 DEF WordAt
<1>5. /\ WordOf(lo, hi) \in Word16
      /\ LoByte(WordOf(lo, hi)) = lo
      /\ HiByte(WordOf(lo, hi)) = hi
  BY WordRoundTrip
<1>6. PICK v \in Word16 : v = WordAt(c, p, k)
  BY <1>4, <1>5
<1>7. v \in Nat
  BY WordIsInt
<1> QED
  BY <1>3, <1>4, <1>5, <1>6, <1>7

\* The n words from p on, one by one.
Spells(words, c, p, n) ==
  /\ Len(words) = n
  /\ \A k \in 1..n : words[k] = WordAt(c, p, k - 1)

\* A sequence that spells the words of a piece has the bytes of the piece.
LEMMA BytesBack ==
  ASSUME NEW c \in Seq(Byte), NEW p \in Nat, NEW n \in Nat, p + 2 * n <= Len(c),
         NEW words, Spells(words, c, p, n)
  PROVE  BytesOf(words) = SubSeq(c, p + 1, p + 2 * n)
<1>1. PICK m \in Nat : m = Len(c)
  BY LenProperties
<1>2. PICK l \in Nat : l = 2 * n
  OBVIOUS
<1>3. \A k \in p + 1 .. p + l : c[k] \in Byte
  BY <1>1, <1>2, ElementOfSeq
<1>4. PICK bytes : bytes = SubSeq(c, p + 1, p + l)
  OBVIOUS
<1>5. /\ bytes \in Seq(Byte) /\ Len(bytes) = l
      /\ \A j \in 1..l : bytes[j] = c[p + j]
  <2>1. p + l >= p /\ (p + l) - (p + 1) + 1 = l
    OBVIOUS
  <2>2. /\ SubSeq(c, p + 1, p + l) \in Seq(Byte)
        /\ Len(SubSeq(c, p + 1, p + l)) = l
        /\ \A j \in 1..l : SubSeq(c, p + 1, p + l)[j] = c[p + 1 + j - 1]
    BY <1>3, <2>1, SubSeqProperties, SMTT(30)
  <2>3. \A j \in 1..l : p + 1 + j - 1 = p + j
    OBVIOUS
  <2> QED
    BY <1>4, <2>2, <2>3
<1>6. PICK laid : laid = BytesOf(words)
  OBVIOUS
<1>7. \A j \in 1..l : laid[j] = IF j % 2 = 1 THEN HiByte(words[(j + 1) \div 2])
                                ELSE LoByte(words[(j + 1) \div 2])
  BY <1>2, <1>6 DEF BytesOf, Spells
<1>8. laid = [j \in 1..l |-> laid[j]]
  BY <1>2, <1>6 DEF BytesOf, Spells
<1>9. ASSUME NEW j \in 1..l PROVE laid[j] = bytes[j]
  <2>1. PICK i \in Int : i = (j + 1) \div 2
    OBVIOUS
  <2>2. i \in 1..n /\ (j % 2 = 1 => j = 2 * (i - 1) + 1) /\ (j % 2 # 1 => j = 2 * (i - 1) + 2)
    BY <1>2, <2>1
  <2>3. words[i] = WordAt(c, p, i - 1)
    BY <2>2 DEF Spells
  <2>4. PICK k \in Nat : k = i - 1 /\ p + 2 * k + 2 <= m
    BY <1>1, <2>2
  <2>5. HiByte(words[i]) = c[p + 2 * k + 1] /\ LoByte(words[i]) = c[p + 2 * k + 2]
    BY <1>1, <2>3, <2>4, WordOfBuffer
  <2>6. CASE j % 2 = 1
    <3>1. p + 2 * k + 1 = p + j
      BY <2>2, <2>4, <2>6
    <3>2. laid[j] = HiByte(words[i])
      BY <1>7, <2>1, <2>6
    <3> QED
      BY <1>5, <2>5, <3>1, <3>2
  <2>7. CASE j % 2 # 1
    <3>1. p + 2 * k + 2 = p + j
      BY <2>2, <2>4, <2>7
    <3>2. laid[j] = LoByte(words[i])
      BY <1>7, <2>1, <2>7
    <3> QED
      BY <1>5, <2>5, <3>1, <3>2
  <2> QED
    BY <2>6, <2>7
<1>10. bytes = [j \in 1..l |-> bytes[j]]
  BY <1>5
<1>11. laid = bytes
  BY <1>8, <1>9, <1>10
<1> QED
  BY <1>2, <1>4, <1>6, <1>11

\* The words of a piece are those of the buffer.
LEMMA WordsOfPiece ==
  ASSUME NEW c \in Seq(Byte), NEW p \in Nat, NEW n \in Nat, p + 2 * n <= Len(c),
         NEW k \in Nat, k < n
  PROVE  WordAt(SubSeq(c, p + 1, p + 2 * n), 0, k) = WordAt(c, p, k)
<1>1. PICK m \in Nat : m = Len(c)
  BY LenProperties
<1>2. PICK l \in Nat : l = 2 * n
  OBVIOUS
<1>3. \A j \in p + 1 .. p + l : c[j] \in Byte
  BY <1>1, <1>2, ElementOfSeq
<1>4. p + l >= p /\ (p + l) - (p + 1) + 1 = l
  OBVIOUS
<1>5. /\ SubSeq(c, p + 1, p + l) \in Seq(Byte)
      /\ Len(SubSeq(c, p + 1, p + l)) = l
      /\ \A j \in 1..l : SubSeq(c, p + 1, p + l)[j] = c[p + 1 + j - 1]
  BY <1>3, <1>4, SubSeqProperties, SMTT(30)
<1>6. PICK bytes : bytes = SubSeq(c, p + 1, p + l) /\ \A j \in 1..l : bytes[j] = c[p + 1 + j - 1]
  BY <1>5
<1>7. 2 * k + 1 \in 1..l /\ 2 * k + 2 \in 1..l
  BY <1>2
<1>8. bytes[2 * k + 1] = c[p + 2 * k + 1] /\ bytes[2 * k + 2] = c[p + 2 * k + 2]
  <2>1. p + 1 + (2 * k + 1) - 1 = p + 2 * k + 1 /\ p + 1 + (2 * k + 2) - 1 = p + 2 * k + 2
    OBVIOUS
  <2>2. bytes[2 * k + 1] = c[p + 1 + (2 * k + 1) - 1] /\ bytes[2 * k + 2] = c[p + 1 + (2 * k + 2) - 1]
    BY <1>6, <1>7
  <2> QED
    BY <2>1, <2>2
<1>9. 0 + 2 * k + 1 = 2 * k + 1 /\ 0 + 2 * k + 2 = 2 * k + 2
  OBVIOUS
<1>10. WordAt(bytes, 0, k) = WordAt(c, p, k)
  BY <1>8, <1>9 DEF WordAt
<1> QED
  BY <1>2, <1>6, <1>10

------------------------------------------------------------------------------
(* Each region of the opcode space is undone by the assembler: branches *)

\* No two conditions have one mnemonic, and none is that of an external branch.
LEMMA ConditionsDiffer ==
  ASSUME NEW j \in 1..16, NEW k \in 1..16, BRANCH_CONDS[j] = BRANCH_CONDS[k]
  PROVE  j = k
BY SMT DEF BRANCH_CONDS

\* The conditional branches are mnemonics, and neither bext nor SDBD.
LEMMA ConditionsAreBranches ==
  ASSUME NEW j \in 1..16
  PROVE  BRANCH_CONDS[j] # "bext" /\ BRANCH_CONDS[j] # "SDBD" /\ BRANCH_CONDS[j] \in Mnemonics
<1>1. BRANCH_CONDS[j] # "bext" /\ BRANCH_CONDS[j] # "SDBD"
  BY SMT DEF BRANCH_CONDS
<1>2. DOMAIN BRANCH_CONDS = 1..16
  BY DEF BRANCH_CONDS
<1>3. BRANCH_CONDS[j] \in Mnemonics
  BY <1>2, Zenon DEF Mnemonics
<1> QED
  BY <1>1, <1>3

\* The assembler finds a condition's number from its mnemonic.
LEMMA ConditionOf ==
  ASSUME NEW cond \in 0..15
  PROVE  CondOf(BRANCH_CONDS[cond + 1]) = cond
<1>1. DOMAIN BRANCH_CONDS = 1..16
  BY DEF BRANCH_CONDS
<1>2. PICK k : k = CHOOSE j \in DOMAIN BRANCH_CONDS : BRANCH_CONDS[j] = BRANCH_CONDS[cond + 1]
  OBVIOUS
<1>3. cond + 1 \in 1..16
  OBVIOUS
<1>4. k \in 1..16 /\ BRANCH_CONDS[k] = BRANCH_CONDS[cond + 1]
  BY <1>1, <1>2, <1>3
<1>5. k = cond + 1
  BY <1>3, <1>4, ConditionsDiffer
<1>6. CondOf(BRANCH_CONDS[cond + 1]) = k - 1
  BY <1>2 DEF CondOf
<1> QED
  BY <1>5, <1>6

\* d lists n words from p on, and says SDBD just where the first of them is one.
ListsWords(c, p, d, n) ==
  /\ d.words = n
  /\ d.text \in Text /\ d.text.kind = "instruction"
  /\ Present(c, p, n)
  /\ (d.text.mnemonic = "SDBD" <=> WordAt(c, p, 0) = 1)
  /\ d.text.form = "jump" => n = 3
  /\ d.text.form = "branch" => n = 2

\* The condition field holds sixteen values.
LEMMA LowBits ==
  ASSUME NEW w \in Int
  PROVE  \E r \in 0..15 : r = w % 16
OBVIOUS

\* An instruction is one of the texts a line can have.
LEMMA InstructionIsText ==
  ASSUME NEW mn \in Mnemonics, NEW fm \in Forms, NEW sh \in Seq(Nat)
  PROVE  [kind |-> "instruction", mnemonic |-> mn, form |-> fm, shown |-> sh] \in Text
BY DEF Text

\* A branch lists two words, both there.
LEMMA BranchListed ==
  ASSUME NEW c \in Seq(Byte), NEW p \in Nat, NEW a \in Word16,
         Present(c, p, 1), Bits(WordAt(c, p, 0), 64, 16) = 8,
         NEW d \in Branch(c, p, a)
  PROVE  ListsWords(c, p, d, 2)
<1>1. Present(c, p, 2)
  BY DEF Branch
<1>2. PICK w \in Nat, mag \in Nat : w = WordAt(c, p, 0) /\ mag = WordAt(c, p, 1)
  <2>1. PICK m \in Nat : m = Len(c)
    BY LenProperties
  <2>2. p + 2 * 0 + 2 <= Len(c) /\ p + 2 * 1 + 2 <= Len(c)
    BY <1>1, <2>1 DEF Present
  <2> QED
    BY <2>2, WordOfBuffer, SMTT(30)
<1>3. PICK t : t = BranchTarget(w, Wrap16(a + 2), mag)
  OBVIOUS
<1>4. t \in Nat
  <2>1. a + 2 \in Int
    BY WordIsInt
  <2>2. PICK pc \in Int : pc = Wrap16(a + 2)
    BY <2>1, WrapIsWord, SMTT(30)
  <2>3. PICK u \in Int : t = Wrap16(u)
    BY <1>2, <1>3, <2>2 DEF BranchTarget
  <2>4. PICK v \in Word16 : v = t
    BY <2>3, WrapIsWord, SMTT(30)
  <2> QED
    BY <2>4, WordIsInt
<1>5. PICK cond \in 0..15 : cond = w % 16
  BY LowBits
<1>6. w # 1
  <2>1. (w \div 64) % 16 = 8
    BY <1>2 DEF Bits
  <2> QED
    BY <2>1
<1>7. <<t, cond>> \in Seq(Nat) /\ <<t>> \in Seq(Nat) /\ <<>> \in Seq(Nat)
  BY <1>4
<1>8. PICK mn, fm, sh :
        /\ d = [words |-> 2, text |-> [kind |-> "instruction", mnemonic |-> mn, form |-> fm, shown |-> sh]]
        /\ mn \in Mnemonics /\ mn # "SDBD" /\ fm \in Forms /\ fm # "jump" /\ sh \in Seq(Nat)
  <2>1. CASE HasBit(w, 16)
    <3>1. d \in Instruction(2, "bext", "branch", <<t, cond>>)
      BY <1>1, <1>2, <1>3, <1>5, <2>1 DEF Branch
    <3>2. "bext" \in Mnemonics /\ "bext" # "SDBD" /\ "branch" \in Forms /\ "branch" # "jump"
      BY Zenon DEF Mnemonics, Forms
    <3> QED
      BY <1>7, <3>1, <3>2, Zenon DEF Instruction
  <2>2. CASE ~HasBit(w, 16) /\ cond # 8
    <3>1. d \in Instruction(2, BRANCH_CONDS[cond + 1], "branch", <<t>>)
      BY <1>1, <1>2, <1>3, <1>5, <2>2 DEF Branch
    <3>2. cond + 1 \in 1..16
      OBVIOUS
    <3>3. BRANCH_CONDS[cond + 1] \in Mnemonics /\ BRANCH_CONDS[cond + 1] # "SDBD" /\ "branch" \in Forms /\ "branch" # "jump"
      BY <3>2, ConditionsAreBranches, Zenon DEF Forms
    <3> QED
      BY <1>7, <3>1, <3>3, Zenon DEF Instruction
  <2>3. CASE ~HasBit(w, 16) /\ cond = 8
    <3>1. d \in Instruction(2, "nopp", "nopp", <<>>)
      BY <1>1, <1>2, <1>3, <1>5, <2>3 DEF Branch
    <3>2. 9 \in 1..16 /\ BRANCH_CONDS[9] = "nopp"
      BY DEF BRANCH_CONDS
    <3>3. "nopp" \in Mnemonics /\ "nopp" # "SDBD" /\ "nopp" \in Forms /\ "nopp" # "jump"
      BY <3>2, ConditionsAreBranches, Zenon DEF Forms
    <3> QED
      BY <1>7, <3>1, <3>3, Zenon DEF Instruction
  <2> QED
    BY <2>1, <2>2, <2>3
<1>9. d.words = 2 /\ d.text.kind = "instruction" /\ d.text.mnemonic = mn /\ d.text.form = fm
  BY <1>8
<1>10. d.text \in Text
  BY <1>8, InstructionIsText
<1> QED
  BY <1>1, <1>2, <1>6, <1>8, <1>9, <1>10 DEF ListsWords

\* HasRoom of the line that d makes.
RoomAt(c, p, a, d) ==
  /\ WordAt(c, p, 0) < 1024
  /\ d.text.form = "jump" => WordAt(c, p, 1) < 1024 /\ WordAt(c, p, 2) < 1024
  /\ d.text.form = "immediate" /\ d.words = 3 => WordAt(c, p, 1) < 256 /\ WordAt(c, p, 2) < 256
  /\ d.text.form = "branch" => InReach(WordAt(c, p, 0), Wrap16(a + 2), WordAt(c, p, 1))

\* The branch case of InstructionWords.
LEMMA BranchRead ==
  ASSUME NEW text, text.form = "branch", NEW a, NEW sdbd
  PROVE  /\ text.mnemonic = "bext" =>
              InstructionWords(text, a, sdbd) = BranchWords(16 + text.shown[2], text.shown[1], a)
         /\ text.mnemonic # "bext" =>
              InstructionWords(text, a, sdbd) = BranchWords(CondOf(text.mnemonic), text.shown[1], a)
BY DEF InstructionWords

\* Sequences of one, two and three words that spell what is in the buffer.
LEMMA TwoWords ==
  ASSUME NEW c, NEW p, NEW w0, NEW w1, w0 = WordAt(c, p, 0), w1 = WordAt(c, p, 1)
  PROVE  Spells(<<w0, w1>>, c, p, 2)
<1>1. Len(<<w0, w1>>) = 2 /\ <<w0, w1>>[1] = w0 /\ <<w0, w1>>[2] = w1
  OBVIOUS
<1>2. 1 - 1 = 0 /\ 2 - 1 = 1 /\ 1..2 = {1, 2}
  OBVIOUS
<1> QED
  BY <1>1, <1>2 DEF Spells

\* A branch comes back from its target.
LEMMA BranchSpelt ==
  ASSUME NEW c \in Seq(Byte), NEW p \in Nat, NEW a \in Word16, NEW sdbd,
         Present(c, p, 1), Bits(WordAt(c, p, 0), 64, 16) = 8,
         NEW d \in Branch(c, p, a), RoomAt(c, p, a, d)
  PROVE  Spells(InstructionWords(d.text, a, sdbd), c, p, 2)
<1>1. Present(c, p, 2)
  BY DEF Branch
<1>2. PICK w \in Nat, mag \in Nat : w = WordAt(c, p, 0) /\ mag = WordAt(c, p, 1)
  <2>1. PICK m \in Nat : m = Len(c)
    BY LenProperties
  <2>2. p + 2 * 0 + 2 <= Len(c) /\ p + 2 * 1 + 2 <= Len(c)
    BY <1>1, <2>1 DEF Present
  <2> QED
    BY <2>2, WordOfBuffer
<1>3. w < 1024 /\ (w \div 64) % 16 = 8
  BY <1>2 DEF RoomAt, Bits
<1>4. PICK back \in 0..1, ext \in 0..1, cond \in 0..15 :
        /\ back = (w \div 32) % 2 /\ ext = (w \div 16) % 2 /\ cond = w % 16
        /\ w = 512 + 32 * back + 16 * ext + cond
  <2>1. w \in Int /\ 0 <= w
    OBVIOUS
  <2> QED
    BY <2>1, <1>3, BranchFields
<1>5. PICK pc \in Int : pc = Wrap16(a + 2)
  <2>1. a + 2 \in Int
    BY WordIsInt
  <2> QED
    BY <2>1, WrapIsWord, SMTT(30)
<1>6. PICK t : t = BranchTarget(w, pc, mag)
  OBVIOUS
<1>7. HasBit(w, 32) <=> back = 1
  BY <1>4 DEF HasBit
<1>8. HasBit(w, 16) <=> ext = 1
  BY <1>4 DEF HasBit
<1>9. ASSUME d.text.form = "branch", NEW x \in Int, NEW y \in Int, y = 512 + 32 * back + x
      PROVE  BranchWords(x, t, a) = <<y, mag>>
  <2>1. InReach(w, pc, mag)
    BY <1>2, <1>5, <1>9 DEF RoomAt
  <2>2. CASE back = 1
    <3>1. PICK u \in Int : u = pc - mag - 1
      OBVIOUS
    <3>2. u \in Word16
      BY <1>7, <2>1, <2>2, <3>1 DEF InReach
    <3>3. t = Wrap16(u)
      BY <1>6, <1>7, <2>2, <3>1 DEF BranchTarget
    <3>4. t = u
      BY <3>2, <3>3, WrapOfWord
    <3>5. y = 544 + x /\ mag \in Int /\ 0 <= mag
      BY <1>9, <2>2
    <3>6. BranchWords(x, u, a) = <<y, mag>>
      <4>1. u - pc < 0 /\ -(u - pc) - 1 = mag
        BY <3>1, <3>5
      <4> QED
        BY <1>5, <3>5, <4>1, SMTT(30) DEF BranchWords
    <3> QED
      BY <3>4, <3>6
  <2>3. CASE back = 0
    <3>1. PICK u \in Int : u = pc + mag
      OBVIOUS
    <3>2. u \in Word16
      BY <1>7, <2>1, <2>3, <3>1 DEF InReach
    <3>3. t = Wrap16(u)
      BY <1>6, <1>7, <2>3, <3>1 DEF BranchTarget
    <3>4. t = u
      BY <3>2, <3>3, WrapOfWord
    <3>5. y = 512 + x /\ mag \in Int /\ 0 <= mag
      BY <1>9, <2>3
    <3>6. BranchWords(x, u, a) = <<y, mag>>
      <4>1. u - pc >= 0 /\ u - pc = mag
        BY <3>1, <3>5
      <4> QED
        BY <1>5, <3>5, <4>1 DEF BranchWords
    <3> QED
      BY <3>4, <3>6
  <2> QED
    BY <2>2, <2>3
<1>10. CASE ext = 1
  <2>1. d \in Instruction(2, "bext", "branch", <<t, cond>>)
    BY <1>1, <1>2, <1>4, <1>5, <1>6, <1>8, <1>10, ZenonT(30) DEF Branch
  <2>2. d.text.form = "branch" /\ d.text.mnemonic = "bext" /\ d.text.shown = <<t, cond>>
    BY <2>1 DEF Instruction
  <2>3. d.text.shown[1] = t /\ d.text.shown[2] = cond
    BY <2>2
  <2>4. PICK x \in Int : x = 16 + cond
    OBVIOUS
  <2>5. InstructionWords(d.text, a, sdbd) = BranchWords(x, t, a)
    BY <2>2, <2>3, <2>4, BranchRead
  <2>6. w = 512 + 32 * back + x
    BY <1>4, <1>10, <2>4
  <2>7. BranchWords(x, t, a) = <<w, mag>>
    <3>1. w \in Int
      OBVIOUS
    <3> QED
      BY <1>9, <2>2, <2>6, <3>1, ZenonT(60)
  <2> QED
    BY <1>2, <2>5, <2>7, TwoWords
<1>11. CASE ext = 0 /\ cond # 8
  <2>1. ~HasBit(w, 16) /\ cond = w % 16
    BY <1>4, <1>8, <1>11
  <2>2. d \in Instruction(2, BRANCH_CONDS[cond + 1], "branch", <<t>>)
    BY <1>1, <1>2, <1>5, <1>6, <1>11, <2>1 DEF Branch
  <2>3. d.text.form = "branch" /\ d.text.mnemonic = BRANCH_CONDS[cond + 1] /\ d.text.shown[1] = t
    BY <2>2 DEF Instruction
  <2>4. cond + 1 \in 1..16
    OBVIOUS
  <2>5. BRANCH_CONDS[cond + 1] # "bext" /\ CondOf(BRANCH_CONDS[cond + 1]) = cond
    BY <2>4, ConditionsAreBranches, ConditionOf
  <2>6. PICK x \in Int : x = cond
    OBVIOUS
  <2>7. InstructionWords(d.text, a, sdbd) = BranchWords(x, t, a)
    BY <2>3, <2>5, <2>6, BranchRead
  <2>8. w = 512 + 32 * back + x
    BY <1>4, <1>11, <2>6
  <2>9. BranchWords(x, t, a) = <<w, mag>>
    BY <1>9, <2>3, <2>8
  <2> QED
    BY <1>2, <2>7, <2>9, TwoWords
<1>12. CASE ext = 0 /\ cond = 8
  <2>1. w = 520 /\ mag = 0 /\ d \in Instruction(2, "nopp", "nopp", <<>>)
    BY <1>1, <1>2, <1>4, <1>5, <1>6, <1>8, <1>12 DEF Branch
  <2>2. d.text.form = "nopp"
    BY <2>1 DEF Instruction
  <2>3. InstructionWords(d.text, a, sdbd) = <<520, 0>>
    BY <2>2 DEF InstructionWords
  <2> QED
    BY <1>2, <2>1, <2>3, TwoWords
<1> QED
  BY <1>10, <1>11, <1>12

LEMMA OneWord ==
  ASSUME NEW c, NEW p, NEW w0, w0 = WordAt(c, p, 0)
  PROVE  Spells(<<w0>>, c, p, 1)
<1>1. Len(<<w0>>) = 1 /\ <<w0>>[1] = w0
  OBVIOUS
<1>2. 1 - 1 = 0 /\ 1..1 = {1}
  OBVIOUS
<1> QED
  BY <1>1, <1>2 DEF Spells

LEMMA ThreeWords ==
  ASSUME NEW c, NEW p, NEW w0, NEW w1, NEW w2,
         w0 = WordAt(c, p, 0), w1 = WordAt(c, p, 1), w2 = WordAt(c, p, 2)
  PROVE  Spells(<<w0, w1, w2>>, c, p, 3)
<1>1. Len(<<w0, w1, w2>>) = 3
  OBVIOUS
<1>2. <<w0, w1, w2>>[1] = w0 /\ <<w0, w1, w2>>[2] = w1 /\ <<w0, w1, w2>>[3] = w2
  OBVIOUS
<1>3. 1 - 1 = 0 /\ 2 - 1 = 1 /\ 3 - 1 = 2 /\ 1..3 = {1, 2, 3}
  OBVIOUS
<1> QED
  BY <1>1, <1>2, <1>3 DEF Spells

\* The words that are there are numbers.
LEMMA WordIsNat ==
  ASSUME NEW c \in Seq(Byte), NEW p \in Nat, NEW n \in Nat, Present(c, p, n),
         NEW k \in Nat, k < n
  PROVE  WordAt(c, p, k) \in Nat
<1>1. PICK m \in Nat : m = Len(c)
  BY LenProperties
<1>2. p + 2 * k + 2 <= Len(c)
  BY <1>1 DEF Present
<1> QED
  BY <1>2, WordOfBuffer

------------------------------------------------------------------------------
(* Memory references *)

\* What is said of one instruction of a family, mode by mode.
Memory(d, c, p, sdbd, fam, mode, reg, double) ==
  \/ mode = 0 /\ Present(c, p, 2) /\ d \in Instruction(2, fam, "direct", <<WordAt(c, p, 1), reg>>)
  \/ mode \in 1..6 /\ d \in Instruction(1, fam, "indirect", <<mode, reg>>)
  \/ mode = 7 /\ sdbd /\ Present(c, p, 3) /\ d \in Instruction(3, fam, "immediate", <<double, reg>>)
  \/ mode = 7 /\ ~sdbd /\ Present(c, p, 2) /\ d \in Instruction(2, fam, "immediate", <<WordAt(c, p, 1), reg>>)

\* What a word of the memory region decodes to.
LEMMA MemoryShape ==
  ASSUME NEW c, NEW p, NEW sdbd \in BOOLEAN, NEW d \in MemoryReference(c, p, sdbd),
         NEW mode \in 0..7, mode = Bits(WordAt(c, p, 0), 8, 8),
         NEW reg, reg = WordAt(c, p, 0) % 8,
         NEW double, double = 256 * (WordAt(c, p, 2) % 256) + (WordAt(c, p, 1) % 256),
         NEW block, block = 64 * Bits(WordAt(c, p, 0), 64, 16)
  PROVE  \E fam \in DOMAIN MEM_FAMILIES :
            MEM_FAMILIES[fam] = block /\ Memory(d, c, p, sdbd, fam, mode, reg, double)
<1>1. PICK fam \in DOMAIN MEM_FAMILIES :
        MEM_FAMILIES[fam] = block /\ d \in OfFamily(fam, c, p, sdbd)
  BY Zenon DEF MemoryReference
<1>2. CASE mode = 0
  BY <1>1, <1>2 DEF Memory, OfFamily
<1>3. CASE mode \in 1..6
  BY <1>1, <1>3 DEF Memory, OfFamily
<1>4. CASE mode = 7 /\ fam = "MVO"
  BY <1>1, <1>4 DEF OfFamily
<1>5. CASE mode = 7 /\ fam # "MVO" /\ sdbd
  BY <1>1, <1>5 DEF Memory, OfFamily
<1>6. CASE mode = 7 /\ fam # "MVO" /\ ~sdbd
  BY <1>1, <1>6 DEF Memory, OfFamily
<1>7. mode = 0 \/ mode \in 1..6 \/ mode = 7
  OBVIOUS
<1> QED
  BY <1>2, <1>3, <1>4, <1>5, <1>6, <1>7

\* The memory families are mnemonics, and none is SDBD.
LEMMA FamiliesAreMnemonics ==
  ASSUME NEW fam \in DOMAIN MEM_FAMILIES
  PROVE  fam \in Mnemonics /\ fam # "SDBD"
<1>1. fam \in Mnemonics
  BY Zenon DEF Mnemonics
<1>2. DOMAIN MEM_FAMILIES = {"MVO", "MVI", "ADD", "SUB", "CMP", "AND", "XOR"}
  BY DEF MEM_FAMILIES
<1>3. fam # "SDBD"
  BY <1>2
<1> QED
  BY <1>1, <1>3

\* A memory reference lists one to three words, all there.
LEMMA MemoryListed ==
  ASSUME NEW c \in Seq(Byte), NEW p \in Nat, NEW sdbd \in BOOLEAN, Present(c, p, 1),
         WordAt(c, p, 0) >= 576, NEW d \in MemoryReference(c, p, sdbd)
  PROVE  \E n \in 1..3 : ListsWords(c, p, d, n)
<1>1. PICK w \in Nat : w = WordAt(c, p, 0)
  BY WordIsNat
<1>2. PICK mode \in 0..7 : mode = Bits(w, 8, 8)
  BY DEF Bits
<1>3. PICK reg \in 0..7 : reg = w % 8
  OBVIOUS
<1>4. PICK double : double = 256 * (WordAt(c, p, 2) % 256) + (WordAt(c, p, 1) % 256)
  OBVIOUS
<1>5. PICK block : block = 64 * Bits(w, 64, 16)
  OBVIOUS
<1>6. PICK fam \in DOMAIN MEM_FAMILIES :
        MEM_FAMILIES[fam] = block /\ Memory(d, c, p, sdbd, fam, mode, reg, double)
  BY <1>1, <1>2, <1>3, <1>4, <1>5, MemoryShape, SMTT(30)
<1>7. fam \in Mnemonics /\ fam # "SDBD"
  BY FamiliesAreMnemonics
<1>8. w # 1
  BY <1>1
<1>9. ASSUME NEW n \in 1..3, Present(c, p, n), NEW fm \in Forms, fm # "jump", fm # "branch", NEW sh \in Seq(Nat),
             d \in Instruction(n, fam, fm, sh)
      PROVE  ListsWords(c, p, d, n)
  <2>1. d = [words |-> n, text |-> [kind |-> "instruction", mnemonic |-> fam, form |-> fm, shown |-> sh]]
    BY <1>9 DEF Instruction
  <2>2. d.text \in Text
    BY <1>7, <2>1, InstructionIsText
  <2>3. d.words = n /\ d.text.kind = "instruction" /\ d.text.mnemonic = fam /\ d.text.form = fm
    BY <2>1
  <2> QED
    BY <1>1, <1>7, <1>8, <1>9, <2>2, <2>3 DEF ListsWords
<1>10. /\ "direct" \in Forms /\ "indirect" \in Forms /\ "immediate" \in Forms
       /\ "direct" # "jump" /\ "indirect" # "jump" /\ "immediate" # "jump"
       /\ "direct" # "branch" /\ "indirect" # "branch" /\ "immediate" # "branch"
  BY DEF Forms
<1>11. CASE mode = 0 /\ Present(c, p, 2) /\ d \in Instruction(2, fam, "direct", <<WordAt(c, p, 1), reg>>)
  <2>1. PICK v \in Nat : v = WordAt(c, p, 1)
    BY <1>11, WordIsNat
  <2>2. <<v, reg>> \in Seq(Nat) /\ 2 \in 1..3
    OBVIOUS
  <2> QED
    BY <1>9, <1>10, <1>11, <2>1, <2>2
<1>12. CASE mode \in 1..6 /\ d \in Instruction(1, fam, "indirect", <<mode, reg>>)
  <2>1. <<mode, reg>> \in Seq(Nat) /\ 1 \in 1..3
    OBVIOUS
  <2> QED
    BY <1>9, <1>10, <1>12, <2>1
<1>13. CASE mode = 7 /\ sdbd /\ Present(c, p, 3) /\ d \in Instruction(3, fam, "immediate", <<double, reg>>)
  <2>1. PICK v1 \in Nat, v2 \in Nat : v1 = WordAt(c, p, 1) /\ v2 = WordAt(c, p, 2)
    BY <1>13, WordIsNat
  <2>2. double \in Nat
    BY <1>4, <2>1
  <2>3. <<double, reg>> \in Seq(Nat) /\ 3 \in 1..3
    BY <2>2
  <2> QED
    BY <1>9, <1>10, <1>13, <2>3
<1>14. CASE mode = 7 /\ ~sdbd /\ Present(c, p, 2) /\ d \in Instruction(2, fam, "immediate", <<WordAt(c, p, 1), reg>>)
  <2>1. PICK v \in Nat : v = WordAt(c, p, 1)
    BY <1>14, WordIsNat
  <2>2. <<v, reg>> \in Seq(Nat) /\ 2 \in 1..3
    OBVIOUS
  <2> QED
    BY <1>9, <1>10, <1>14, <2>1, <2>2
<1> QED
  BY <1>6, <1>11, <1>12, <1>13, <1>14 DEF Memory

\* The memory cases of InstructionWords.
LEMMA MemoryRead ==
  ASSUME NEW text, NEW a, NEW sdbd, text.form \in {"direct", "indirect", "immediate"}
  PROVE  InstructionWords(text, a, sdbd) = MemoryWords(text, sdbd)
BY DEF InstructionWords

\* A memory reference comes back, its immediate in as many words as it took:
\* sdbd is the prefix of the sweep and of the assembler alike.
LEMMA MemorySpelt ==
  ASSUME NEW c \in Seq(Byte), NEW p \in Nat, NEW a, NEW sdbd \in BOOLEAN, Present(c, p, 1),
         NEW d \in MemoryReference(c, p, sdbd), RoomAt(c, p, a, d)
  PROVE  Spells(InstructionWords(d.text, a, sdbd), c, p, d.words)
<1>1. PICK w \in Nat : w = WordAt(c, p, 0)
  BY WordIsNat
<1>2. w < 1024
  BY <1>1 DEF RoomAt
<1>3. PICK family \in 0..15, mode \in 0..7, reg \in 0..7 :
        /\ family = (w \div 64) % 16 /\ mode = (w \div 8) % 8 /\ reg = w % 8
        /\ w = 64 * family + 8 * mode + reg
  <2>1. w \in Int /\ 0 <= w
    OBVIOUS
  <2> QED
    BY <1>2, <2>1, MemoryFields
<1>4. PICK double : double = 256 * (WordAt(c, p, 2) % 256) + (WordAt(c, p, 1) % 256)
  OBVIOUS
<1>5. PICK block \in Nat : block = 64 * family
  OBVIOUS
<1>6. /\ mode = Bits(WordAt(c, p, 0), 8, 8) /\ reg = WordAt(c, p, 0) % 8
      /\ block = 64 * Bits(WordAt(c, p, 0), 64, 16)
  BY <1>1, <1>3, <1>5 DEF Bits
<1>7. PICK fam \in DOMAIN MEM_FAMILIES :
        MEM_FAMILIES[fam] = block /\ Memory(d, c, p, sdbd, fam, mode, reg, double)
  BY <1>4, <1>6, MemoryShape, ZenonT(60)
<1>8. w = block + 8 * mode + reg
  BY <1>3, <1>5
<1>9. ASSUME NEW n, NEW fm, NEW v, d \in Instruction(n, fam, fm, <<v, reg>>)
      PROVE  /\ d.words = n /\ d.text.form = fm /\ d.text.mnemonic = fam
             /\ d.text.shown[1] = v /\ d.text.shown[2] = reg
  <2>1. d = [words |-> n, text |-> [kind |-> "instruction", mnemonic |-> fam, form |-> fm, shown |-> <<v, reg>>]]
    BY <1>9 DEF Instruction
  <2> QED
    BY <2>1
<1>10. CASE mode = 0 /\ Present(c, p, 2) /\ d \in Instruction(2, fam, "direct", <<WordAt(c, p, 1), reg>>)
  <2>1. PICK v \in Nat : v = WordAt(c, p, 1)
    BY <1>10, WordIsNat
  <2>2. /\ d.words = 2 /\ d.text.form = "direct" /\ d.text.mnemonic = fam
        /\ d.text.shown[1] = v /\ d.text.shown[2] = reg
    BY <1>9, <1>10, <2>1
  <2>3. MemoryWords(d.text, sdbd) = <<MEM_FAMILIES[fam] + 8 * 0 + reg, v>>
    BY <2>2 DEF MemoryWords
  <2>4. MEM_FAMILIES[fam] + 8 * 0 + reg = w
    BY <1>7, <1>8, <1>10
  <2>5. InstructionWords(d.text, a, sdbd) = <<w, v>>
    BY <2>2, <2>3, <2>4, MemoryRead
  <2> QED
    BY <1>1, <2>1, <2>2, <2>5, TwoWords
<1>11. CASE mode \in 1..6 /\ d \in Instruction(1, fam, "indirect", <<mode, reg>>)
  <2>1. /\ d.words = 1 /\ d.text.form = "indirect" /\ d.text.mnemonic = fam
        /\ d.text.shown[1] = mode /\ d.text.shown[2] = reg
    BY <1>9, <1>11
  <2>2. MemoryWords(d.text, sdbd) = <<MEM_FAMILIES[fam] + 8 * mode + reg>>
    BY <2>1 DEF MemoryWords
  <2>3. MEM_FAMILIES[fam] + 8 * mode + reg = w
    BY <1>7, <1>8
  <2>4. InstructionWords(d.text, a, sdbd) = <<w>>
    BY <2>1, <2>2, <2>3, MemoryRead
  <2> QED
    BY <1>1, <2>1, <2>4, OneWord
<1>12. CASE mode = 7 /\ sdbd /\ Present(c, p, 3) /\ d \in Instruction(3, fam, "immediate", <<double, reg>>)
  <2>1. PICK v1 \in Nat, v2 \in Nat : v1 = WordAt(c, p, 1) /\ v2 = WordAt(c, p, 2)
    BY <1>12, WordIsNat
  <2>2. /\ d.words = 3 /\ d.text.form = "immediate" /\ d.text.mnemonic = fam
        /\ d.text.shown[1] = double /\ d.text.shown[2] = reg
    BY <1>9, <1>12
  <2>3. v1 < 256 /\ v2 < 256
    BY <2>1, <2>2 DEF RoomAt
  <2>4. LoByte(double) = v1 /\ HiByte(double) = v2
    <3>1. v1 % 256 = v1 /\ v2 % 256 = v2
      BY <2>3
    <3>2. double = 256 * v2 + v1
      BY <1>4, <2>1, <3>1
    <3>3. double % 256 = v1
      BY <2>3, <3>2
    <3>4. double \div 256 = v2
      BY <2>3, <3>2
    <3>5. HiByte(double) = v2
      BY <3>1, <3>4 DEF HiByte
    <3> QED
      BY <3>3, <3>5 DEF LoByte
  <2>5. MemoryWords(d.text, sdbd) = <<MEM_FAMILIES[fam] + 8 * 7 + reg, LoByte(double), HiByte(double)>>
    BY <1>12, <2>2 DEF MemoryWords
  <2>6. MEM_FAMILIES[fam] + 8 * 7 + reg = w
    BY <1>7, <1>8, <1>12
  <2>7. InstructionWords(d.text, a, sdbd) = <<w, v1, v2>>
    BY <2>2, <2>4, <2>5, <2>6, MemoryRead
  <2> QED
    BY <1>1, <2>1, <2>2, <2>7, ThreeWords
<1>13. CASE mode = 7 /\ ~sdbd /\ Present(c, p, 2) /\ d \in Instruction(2, fam, "immediate", <<WordAt(c, p, 1), reg>>)
  <2>1. PICK v \in Nat : v = WordAt(c, p, 1)
    BY <1>13, WordIsNat
  <2>2. /\ d.words = 2 /\ d.text.form = "immediate" /\ d.text.mnemonic = fam
        /\ d.text.shown[1] = v /\ d.text.shown[2] = reg
    BY <1>9, <1>13, <2>1
  <2>3. MemoryWords(d.text, sdbd) = <<MEM_FAMILIES[fam] + 8 * 7 + reg, v>>
    BY <1>13, <2>2 DEF MemoryWords
  <2>4. MEM_FAMILIES[fam] + 8 * 7 + reg = w
    BY <1>7, <1>8, <1>13
  <2>5. InstructionWords(d.text, a, sdbd) = <<w, v>>
    BY <2>2, <2>3, <2>4, MemoryRead
  <2> QED
    BY <1>1, <2>1, <2>2, <2>5, TwoWords
<1> QED
  BY <1>7, <1>10, <1>11, <1>12, <1>13 DEF Memory

------------------------------------------------------------------------------
(* Jumps *)

\* The six jumps have six mnemonics, and each goes back to its bits.
LEMMA JumpsDiffer ==
  ASSUME NEW i \in 0..2, NEW k \in 0..2, NEW mn,
         mn \in {<<"j", "je", "jd">>[i + 1], <<"jsr", "jsre", "jsrd">>[i + 1]},
         mn \in {<<"j", "je", "jd">>[k + 1], <<"jsr", "jsre", "jsrd">>[k + 1]}
  PROVE  i = k
<1>1. /\ <<"j", "je", "jd">>[1] = "j" /\ <<"j", "je", "jd">>[2] = "je" /\ <<"j", "je", "jd">>[3] = "jd"
      /\ <<"jsr", "jsre", "jsrd">>[1] = "jsr" /\ <<"jsr", "jsre", "jsrd">>[2] = "jsre"
      /\ <<"jsr", "jsre", "jsrd">>[3] = "jsrd"
  OBVIOUS
<1>2. /\ i + 1 \in {1, 2, 3} /\ k + 1 \in {1, 2, 3}
  OBVIOUS
<1> QED
  BY <1>1, <1>2

\* The jumps are mnemonics, and none is SDBD.
LEMMA JumpsAreMnemonics ==
  ASSUME NEW i \in 0..2, NEW mn, mn \in {<<"j", "je", "jd">>[i + 1], <<"jsr", "jsre", "jsrd">>[i + 1]}
  PROVE  mn \in Mnemonics /\ mn # "SDBD"
<1>1. i + 1 \in {1, 2, 3}
  OBVIOUS
<1>2. mn \in {"j", "je", "jd", "jsr", "jsre", "jsrd"}
  BY <1>1
<1>3. mn # "SDBD"
  BY <1>2
<1>4. mn \in Mnemonics
  BY <1>2, Zenon DEF Mnemonics
<1> QED
  BY <1>3, <1>4

\* A jump lists three words, all there.
LEMMA JumpListed ==
  ASSUME NEW c \in Seq(Byte), NEW p \in Nat, NEW d \in Jump(c, p), WordAt(c, p, 0) = 4
  PROVE  ListsWords(c, p, d, 3)
<1>1. Present(c, p, 3)
  BY DEF Jump
<1>2. PICK v1 \in Nat, v2 \in Nat : v1 = WordAt(c, p, 1) /\ v2 = WordAt(c, p, 2)
  BY <1>1, WordIsNat
<1>3. PICK ii \in 0..3 : ii = v1 % 4
  OBVIOUS
<1>4. PICK rr \in 0..3 : rr = Bits(v1, 256, 4)
  BY DEF Bits
<1>5. PICK mid \in 0..63 : mid = Bits(v1, 4, 64)
  BY DEF Bits
<1>6. PICK low \in Nat : low = v2 % 1024
  OBVIOUS
<1>7. PICK target \in Nat : target = 1024 * mid + low /\ target = JumpTarget(v1, v2)
  <2>1. mid = (v1 \div 4) % 64
    BY <1>5 DEF Bits
  <2>2. JumpTarget(v1, v2) = 1024 * mid + low
    BY <1>6, <2>1 DEF JumpTarget, Bits
  <2>3. 1024 * mid + low \in Nat
    OBVIOUS
  <2> QED
    BY <2>2, <2>3
<1>8. /\ ~(ii > 2)
      /\ \/ rr = 3 /\ d \in Instruction(3, <<"j", "je", "jd">>[ii + 1], "jump", <<target>>)
         \/ rr # 3 /\ d \in Instruction(3, <<"jsr", "jsre", "jsrd">>[ii + 1], "jump", <<target, rr + 4>>)
  <2>1. target = JumpTarget(WordAt(c, p, 1), WordAt(c, p, 2))
    BY <1>2, <1>7
  <2>2. ii = WordAt(c, p, 1) % 4 /\ rr = Bits(WordAt(c, p, 1), 256, 4)
    BY <1>2, <1>3, <1>4
  <2> QED
    BY <2>1, <2>2, Zenon DEF Jump
<1>9. ii \in 0..2
  BY <1>8
<1>10. <<target>> \in Seq(Nat) /\ <<target, rr + 4>> \in Seq(Nat)
  OBVIOUS
<1>11. PICK mn \in {<<"j", "je", "jd">>[ii + 1], <<"jsr", "jsre", "jsrd">>[ii + 1]}, sh \in Seq(Nat) :
         d \in Instruction(3, mn, "jump", sh)
  BY <1>8, <1>10, Zenon
<1>12. mn \in Mnemonics /\ mn # "SDBD"
  BY <1>9, JumpsAreMnemonics
<1>13. d = [words |-> 3, text |-> [kind |-> "instruction", mnemonic |-> mn, form |-> "jump", shown |-> sh]]
  BY <1>11 DEF Instruction
<1>14. "jump" \in Forms
  BY DEF Forms
<1>15. d.text \in Text
  BY <1>12, <1>13, <1>14, InstructionIsText
<1>16. d.words = 3 /\ d.text.kind = "instruction" /\ d.text.mnemonic = mn /\ d.text.form = "jump"
  BY <1>13
<1> QED
  BY <1>1, <1>12, <1>15, <1>16 DEF ListsWords

\* A jump comes back from its target, its register and its interrupt bits.
LEMMA JumpSpelt ==
  ASSUME NEW c \in Seq(Byte), NEW p \in Nat, NEW a, NEW sdbd,
         NEW d \in Jump(c, p), WordAt(c, p, 0) = 4, RoomAt(c, p, a, d)
  PROVE  Spells(InstructionWords(d.text, a, sdbd), c, p, 3)
<1>1. Present(c, p, 3)
  BY DEF Jump
<1>2. PICK v1 \in Nat, v2 \in Nat : v1 = WordAt(c, p, 1) /\ v2 = WordAt(c, p, 2)
  BY <1>1, WordIsNat
<1>3. PICK ii \in 0..3 : ii = v1 % 4
  OBVIOUS
<1>4. PICK rr \in 0..3 : rr = Bits(v1, 256, 4)
  BY DEF Bits
<1>5. PICK mid \in 0..63 : mid = Bits(v1, 4, 64)
  BY DEF Bits
<1>6. PICK low \in Nat : low = v2 % 1024
  OBVIOUS
<1>7. PICK target \in Nat : target = 1024 * mid + low /\ target = JumpTarget(v1, v2)
  <2>1. mid = (v1 \div 4) % 64
    BY <1>5 DEF Bits
  <2>2. JumpTarget(v1, v2) = 1024 * mid + low
    BY <1>6, <2>1 DEF JumpTarget, Bits
  <2>3. 1024 * mid + low \in Nat
    OBVIOUS
  <2> QED
    BY <2>2, <2>3
<1>8. /\ ~(ii > 2)
      /\ \/ rr = 3 /\ d \in Instruction(3, <<"j", "je", "jd">>[ii + 1], "jump", <<target>>)
         \/ rr # 3 /\ d \in Instruction(3, <<"jsr", "jsre", "jsrd">>[ii + 1], "jump", <<target, rr + 4>>)
  <2>1. target = JumpTarget(WordAt(c, p, 1), WordAt(c, p, 2))
    BY <1>2, <1>7
  <2>2. ii = WordAt(c, p, 1) % 4 /\ rr = Bits(WordAt(c, p, 1), 256, 4)
    BY <1>2, <1>3, <1>4
  <2> QED
    BY <2>1, <2>2, Zenon DEF Jump
<1>9. ii \in 0..2
  BY <1>8
<1>10. d.text.form = "jump"
  BY <1>8 DEF Instruction
<1>11. v1 < 1024 /\ v2 < 1024
  BY <1>2, <1>10 DEF RoomAt
<1>12. target % 1024 = v2 /\ rr * 256 + (target \div 1024) * 4 + ii = v1
  <2>1. /\ v1 \in Int /\ 0 <= v1 /\ v2 \in Int /\ 0 <= v2
        /\ mid \in Int /\ mid = (v1 \div 4) % 64 /\ low \in Int /\ low = v2 % 1024
        /\ target \in Int
    BY <1>5, <1>6 DEF Bits
  <2>2. /\ target % 1024 = v2
        /\ \E r \in 0..3 : \E i \in 0..3 :
              r = (v1 \div 256) % 4 /\ i = v1 % 4 /\ 256 * r + 4 * (target \div 1024) + i = v1
    BY <1>7, <1>11, <2>1, JumpFields
  <2>3. rr = (v1 \div 256) % 4
    BY <1>4 DEF Bits
  <2> QED
    BY <1>3, <2>2, <2>3
<1>13. /\ d.text.mnemonic \in {<<"j", "je", "jd">>[ii + 1], <<"jsr", "jsre", "jsrd">>[ii + 1]}
       /\ d.text.shown[1] = target /\ d.words = 3
       /\ rr = IF Len(d.text.shown) = 1 THEN 3 ELSE d.text.shown[2] - 4
  <2>1. CASE rr = 3 /\ d \in Instruction(3, <<"j", "je", "jd">>[ii + 1], "jump", <<target>>)
    <3>1. d.text.shown = <<target>> /\ d.text.mnemonic = <<"j", "je", "jd">>[ii + 1] /\ d.words = 3
      BY <2>1 DEF Instruction
    <3>2. Len(<<target>>) = 1 /\ <<target>>[1] = target
      OBVIOUS
    <3> QED
      BY <2>1, <3>1, <3>2
  <2>2. CASE rr # 3 /\ d \in Instruction(3, <<"jsr", "jsre", "jsrd">>[ii + 1], "jump", <<target, rr + 4>>)
    <3>1. /\ d.text.shown = <<target, rr + 4>> /\ d.text.mnemonic = <<"jsr", "jsre", "jsrd">>[ii + 1]
          /\ d.words = 3
      BY <2>2 DEF Instruction
    <3>2. Len(<<target, rr + 4>>) = 2 /\ <<target, rr + 4>>[1] = target /\ <<target, rr + 4>>[2] - 4 = rr
      OBVIOUS
    <3> QED
      BY <3>1, <3>2
  <2> QED
    BY <1>8, <2>1, <2>2
<1>14. InstructionWords(d.text, a, sdbd) =
         <<4, rr * 256 + (d.text.shown[1] \div 1024) * 4 + ii, d.text.shown[1] % 1024>>
  <2>1. PICK k : k = CHOOSE j \in 0..2 :
          d.text.mnemonic \in {<<"j", "je", "jd">>[j + 1], <<"jsr", "jsre", "jsrd">>[j + 1]}
    OBVIOUS
  <2>2. /\ k \in 0..2
        /\ d.text.mnemonic \in {<<"j", "je", "jd">>[k + 1], <<"jsr", "jsre", "jsrd">>[k + 1]}
    BY <1>9, <1>13, <2>1
  <2>3. k = ii
    BY <1>9, <1>13, <2>2, JumpsDiffer
  <2>4. JumpWords(d.text) =
          <<4, rr * 256 + (d.text.shown[1] \div 1024) * 4 + k, d.text.shown[1] % 1024>>
    BY <1>13, <2>1 DEF JumpWords
  <2>5. InstructionWords(d.text, a, sdbd) = JumpWords(d.text)
    BY <1>10 DEF InstructionWords
  <2> QED
    BY <2>3, <2>4, <2>5
<1>15. InstructionWords(d.text, a, sdbd) = <<4, v1, v2>>
  BY <1>12, <1>13, <1>14
<1> QED
  BY <1>2, <1>15, ThreeWords

------------------------------------------------------------------------------
(* The instructions of the table *)

Classes == {"Implied", "GetStatus", "RegUnary", "Shift", "RegReg"}

\* ORDER lists the classes of INSTRUCTIONS.
LEMMA ClassesInOrder ==
  /\ DOMAIN INSTRUCTIONS = Classes
  /\ DOMAIN ORDER = 1..5
  /\ \A k \in 1..5 : ORDER[k] \in Classes
<1>1. DOMAIN INSTRUCTIONS = Classes
  BY DEF INSTRUCTIONS, Classes
<1>2. DOMAIN ORDER = 1..5
  BY DEF ORDER
<1>3. /\ ORDER[1] = "Implied" /\ ORDER[2] = "GetStatus" /\ ORDER[3] = "RegUnary"
      /\ ORDER[4] = "Shift" /\ ORDER[5] = "RegReg"
  BY DEF ORDER
<1>4. ASSUME NEW k \in 1..5 PROVE ORDER[k] \in Classes
  <2>1. k = 1 \/ k = 2 \/ k = 3 \/ k = 4 \/ k = 5
    OBVIOUS
  <2> QED
    BY <1>3, <2>1 DEF Classes
<1> QED
  BY <1>1, <1>2, <1>4

\* The mnemonics of each class.
LEMMA MnemonicsOfClasses ==
  /\ DOMAIN INSTRUCTIONS["Implied"] =
       {"HLT", "SDBD", "EIS", "DIS", "TCI", "CLRC", "SETC", "NOP", "SIN"}
  /\ DOMAIN INSTRUCTIONS["GetStatus"] = {"GSWD"}
  /\ DOMAIN INSTRUCTIONS["RegUnary"] = {"INCR", "DECR", "COMR", "NEGR", "ADCR", "RSWD"}
  /\ DOMAIN INSTRUCTIONS["Shift"] = {"SWAP", "SLL", "RLC", "SLLC", "SLR", "SAR", "RRC", "SARC"}
  /\ DOMAIN INSTRUCTIONS["RegReg"] = {"MOVR", "ADDR", "SUBR", "CMPR", "ANDR", "XORR"}
BY DEF INSTRUCTIONS

\* No two classes share one.
LEMMA OneClass ==
  ASSUME NEW c1 \in Classes, NEW c2 \in Classes, NEW mn,
         mn \in DOMAIN INSTRUCTIONS[c1], mn \in DOMAIN INSTRUCTIONS[c2]
  PROVE  c1 = c2
BY MnemonicsOfClasses, SMTT(60) DEF Classes

\* SDBD is the word 1 and the word 1 is SDBD.
LEMMA OnlySDBD ==
  ASSUME NEW class \in Classes, NEW mn \in DOMAIN INSTRUCTIONS[class]
  PROVE  /\ mn = "SDBD" => class = "Implied" /\ INSTRUCTIONS[class][mn] = 1
         /\ class = "Implied" /\ INSTRUCTIONS[class][mn] = 1 => mn = "SDBD"
         /\ class # "Implied" => INSTRUCTIONS[class][mn] # 0
<1>1. CASE class = "Implied"
  BY <1>1, MnemonicsOfClasses DEF INSTRUCTIONS
<1>2. CASE class = "GetStatus"
  BY <1>2, MnemonicsOfClasses DEF INSTRUCTIONS
<1>3. CASE class = "RegUnary"
  BY <1>3, MnemonicsOfClasses DEF INSTRUCTIONS
<1>4. CASE class = "Shift"
  BY <1>4, MnemonicsOfClasses DEF INSTRUCTIONS
<1>5. CASE class = "RegReg"
  BY <1>5, MnemonicsOfClasses DEF INSTRUCTIONS
<1> QED
  BY <1>1, <1>2, <1>3, <1>4, <1>5 DEF Classes

\* The instructions of the table are mnemonics.
LEMMA PlainAreMnemonics ==
  ASSUME NEW class \in Classes, NEW mn \in DOMAIN INSTRUCTIONS[class]
  PROVE  mn \in Mnemonics
BY ClassesInOrder, Zenon DEF Mnemonics

\* What a plain word decodes to.
LEMMA PlainShape ==
  ASSUME NEW w, NEW d \in Plain(w)
  PROVE  \E class \in Classes : \E mn \in DOMAIN INSTRUCTIONS[class] :
           /\ INSTRUCTIONS[class][mn] = w - (w % Fields(class))
           /\ d \in Instruction(1, mn, "", Shown(class, w))
<1>1. PICK i \in decode(w) : d \in Instruction(1, i.mnemonic, "", Shown(ORDER[i.rank], w))
  BY Zenon DEF Plain
<1>2. i \in Claimants(w)
  BY <1>1, ZenonT(30) DEF decode
<1>3. PICK k \in DOMAIN ORDER : \E m \in DOMAIN INSTRUCTIONS[ORDER[k]] :
        /\ INSTRUCTIONS[ORDER[k]][m] = w - (w % Fields(ORDER[k]))
        /\ i = [rank |-> k, mnemonic |-> m]
  BY <1>2, Zenon DEF Claimants
<1>4. PICK mn \in DOMAIN INSTRUCTIONS[ORDER[k]] :
        /\ INSTRUCTIONS[ORDER[k]][mn] = w - (w % Fields(ORDER[k]))
        /\ i = [rank |-> k, mnemonic |-> mn]
  BY <1>3
<1>5. i.rank = k /\ i.mnemonic = mn
  BY <1>4
<1>6. ORDER[k] \in Classes
  BY <1>3, ClassesInOrder
<1> QED
  BY <1>1, <1>4, <1>5, <1>6

\* The word 1 is decoded.
LEMMA PrefixDecodes == Plain(1) # {}
<1>1. ORDER[1] = "Implied" /\ 1 \in DOMAIN ORDER /\ DOMAIN ORDER = 1..5
  BY DEF ORDER
<1>2. "SDBD" \in DOMAIN INSTRUCTIONS["Implied"] /\ INSTRUCTIONS["Implied"]["SDBD"] = 1
  BY DEF INSTRUCTIONS
<1>3. 1 - (1 % Fields("Implied")) = 1
  <2>1. Fields("Implied") = 1
    BY DEF Fields
  <2> QED
    BY <2>1
<1>4. PICK i : i = [rank |-> 1, mnemonic |-> "SDBD"]
  OBVIOUS
<1>5. i \in Claimants(1)
  <2>1. "SDBD" \in {m \in DOMAIN INSTRUCTIONS[ORDER[1]] :
                      INSTRUCTIONS[ORDER[1]][m] = 1 - (1 % Fields(ORDER[1]))}
    BY <1>1, <1>2, <1>3
  <2>2. i \in {[rank |-> 1, mnemonic |-> mn] :
               mn \in {m \in DOMAIN INSTRUCTIONS[ORDER[1]] :
                         INSTRUCTIONS[ORDER[1]][m] = 1 - (1 % Fields(ORDER[1]))}}
    BY <1>4, <2>1
  <2> QED
    BY <1>1, <2>2, Zenon DEF Claimants
<1>6. ASSUME NEW j \in Claimants(1) PROVE i.rank <= j.rank
  <2>1. PICK k \in DOMAIN ORDER : \E mn : j = [rank |-> k, mnemonic |-> mn]
    BY Zenon DEF Claimants
  <2>2. PICK mn : j = [rank |-> k, mnemonic |-> mn]
    BY <2>1
  <2> QED
    BY <1>1, <1>4, <2>2
<1>7. i \in decode(1)
  BY <1>5, <1>6 DEF decode
<1>8. PICK d : d \in Instruction(1, i.mnemonic, "", Shown(ORDER[i.rank], 1))
  BY DEF Instruction
<1> QED
  BY <1>7, <1>8, Zenon DEF Plain

\* The bits an operand field holds and the rest of the word.
LEMMA PlainFields ==
  ASSUME NEW w \in Int, 0 <= w
  PROVE  /\ w % 1 = 0
         /\ \E a \in 0..7 : \E r \in 0..7 : a = (w \div 8) % 8 /\ r = w % 8 /\ w % 64 = 8 * a + r
         /\ \E a \in 0..1 : \E r \in 0..3 : a = (w \div 4) % 2 /\ r = w % 4 /\ w % 8 = 4 * a + r
<1>1. w % 1 = 0
  BY SMT
<1>2. \E a \in 0..7 : \E r \in 0..7 : a = (w \div 8) % 8 /\ r = w % 8 /\ w % 64 = 8 * a + r
  <2>1. PICK q \in Nat : \E r \in 0..7 : q = w \div 8 /\ r = w % 8 /\ w = 8 * q + r
    BY ByEights
  <2>2. PICK r \in 0..7 : q = w \div 8 /\ r = w % 8 /\ w = 8 * q + r
    BY <2>1
  <2>3. PICK b \in Nat : \E a \in 0..7 : b = q \div 8 /\ a = q % 8 /\ q = 8 * b + a
    BY ByEights
  <2>4. PICK a \in 0..7 : b = q \div 8 /\ a = q % 8 /\ q = 8 * b + a
    BY <2>3
  <2>5. w = 64 * b + (8 * a + r)
    BY <2>2, <2>4
  <2>6. w % 64 = 8 * a + r
    BY <2>5, SMT
  <2> QED
    BY <2>2, <2>4, <2>6
<1>3. \E a \in 0..1 : \E r \in 0..3 : a = (w \div 4) % 2 /\ r = w % 4 /\ w % 8 = 4 * a + r
  <2>1. \E q \in Nat : \E r \in 0..3 : q = w \div 4 /\ r = w % 4 /\ w = 4 * q + r
    BY SMT
  <2>2. PICK q \in Nat, r \in 0..3 : q = w \div 4 /\ r = w % 4 /\ w = 4 * q + r
    BY <2>1
  <2>3. \E b \in Nat : \E a \in 0..1 : a = q % 2 /\ q = 2 * b + a
    BY SMT
  <2>4. PICK b \in Nat, a \in 0..1 : a = q % 2 /\ q = 2 * b + a
    BY <2>3
  <2>5. w = 8 * b + (4 * a + r)
    BY <2>2, <2>4
  <2>6. w % 8 = 4 * a + r
    BY <2>5, SMT
  <2> QED
    BY <2>2, <2>4, <2>6
<1> QED
  BY <1>1, <1>2, <1>3

\* What an instruction of a class shows are numbers.
LEMMA ShownAreNumbers ==
  ASSUME NEW w \in Nat, NEW class \in Classes
  PROVE  Shown(class, w) \in Seq(Nat)
<1>1. PICK r3 \in Nat : r3 = w % 4
  OBVIOUS
<1>2. PICK r7 \in Nat : r7 = w % 8
  OBVIOUS
<1>3. PICK s \in Nat : s = Bits(w, 8, 8)
  BY DEF Bits
<1>4. PICK t \in Nat : t = Bits(w, 4, 2)
  BY DEF Bits
<1>5. PICK t1 \in Nat : t1 = t + 1
  OBVIOUS
<1>6. /\ <<>> \in Seq(Nat) /\ <<r3>> \in Seq(Nat) /\ <<r7>> \in Seq(Nat)
      /\ <<s, r7>> \in Seq(Nat) /\ <<r3, t1>> \in Seq(Nat)
  OBVIOUS
<1>7. \/ Shown(class, w) = <<>> \/ Shown(class, w) = <<r3>> \/ Shown(class, w) = <<r7>>
      \/ Shown(class, w) = <<s, r7>> \/ Shown(class, w) = <<r3, t1>>
  BY <1>1, <1>2, <1>3, <1>4, <1>5 DEF Shown, Classes
<1> QED
  BY <1>6, <1>7

\* An instruction of the table lists one word, and is SDBD just at 1.
LEMMA PlainListed ==
  ASSUME NEW c, NEW p, NEW w \in Nat, w = WordAt(c, p, 0), Present(c, p, 1), NEW d \in Plain(w)
  PROVE  ListsWords(c, p, d, 1)
<1>1. PICK class \in Classes : \E m \in DOMAIN INSTRUCTIONS[class] :
           /\ INSTRUCTIONS[class][m] = w - (w % Fields(class))
           /\ d \in Instruction(1, m, "", Shown(class, w))
  BY PlainShape
<1>2. PICK mn \in DOMAIN INSTRUCTIONS[class] :
           /\ INSTRUCTIONS[class][mn] = w - (w % Fields(class))
           /\ d \in Instruction(1, mn, "", Shown(class, w))
  BY <1>1
<1>3. mn = "SDBD" <=> w = 1
  <2>1. CASE class = "Implied"
    <3>1. Fields(class) = 1
      BY <2>1 DEF Fields
    <3>2. w % 1 = 0
      OBVIOUS
    <3>3. INSTRUCTIONS[class][mn] = w
      <4>1. w - (w % Fields(class)) = w
        BY <3>1, <3>2
      <4> QED
        BY <1>2, <4>1, Zenon
    <3> QED
      BY <2>1, <3>3, OnlySDBD
  <2>2. CASE class # "Implied"
    <3>1. mn # "SDBD" /\ INSTRUCTIONS[class][mn] # 0
      BY <2>2, OnlySDBD
    <3>2. Fields(class) \in {4, 8, 64}
      BY <2>2 DEF Fields, Classes
    <3>3. 1 - (1 % 4) = 0 /\ 1 - (1 % 8) = 0 /\ 1 - (1 % 64) = 0
      OBVIOUS
    <3> QED
      BY <1>2, <3>1, <3>2, <3>3
  <2> QED
    BY <2>1, <2>2
<1>4. mn \in Mnemonics /\ "" \in Forms /\ Shown(class, w) \in Seq(Nat)
  BY PlainAreMnemonics, ShownAreNumbers, Zenon DEF Forms
<1>5. d = [words |-> 1, text |-> [kind |-> "instruction", mnemonic |-> mn, form |-> "",
                                  shown |-> Shown(class, w)]]
  BY <1>2 DEF Instruction
<1>6. d.text \in Text
  BY <1>4, <1>5, InstructionIsText
<1>7. d.words = 1 /\ d.text.kind = "instruction" /\ d.text.mnemonic = mn /\ d.text.form = ""
  BY <1>5
<1> QED
  BY <1>3, <1>6, <1>7 DEF ListsWords

\* An instruction of the table comes back from its class and its fields.
LEMMA PlainSpelt ==
  ASSUME NEW c, NEW p, NEW w \in Nat, w = WordAt(c, p, 0), NEW d \in Plain(w), NEW a, NEW sdbd
  PROVE  Spells(InstructionWords(d.text, a, sdbd), c, p, 1)
<1>1. PICK class \in Classes : \E m \in DOMAIN INSTRUCTIONS[class] :
           /\ INSTRUCTIONS[class][m] = w - (w % Fields(class))
           /\ d \in Instruction(1, m, "", Shown(class, w))
  BY PlainShape
<1>2. PICK mn \in DOMAIN INSTRUCTIONS[class] :
           /\ INSTRUCTIONS[class][mn] = w - (w % Fields(class))
           /\ d \in Instruction(1, mn, "", Shown(class, w))
  BY <1>1
<1>3. d.text.form = "" /\ d.text.mnemonic = mn /\ d.text.shown = Shown(class, w)
  <2>1. d = [words |-> 1, text |-> [kind |-> "instruction", mnemonic |-> mn, form |-> "",
                                    shown |-> Shown(class, w)]]
    BY <1>2 DEF Instruction
  <2> QED
    BY <2>1
<1>4. PICK cls : cls = CHOOSE x \in DOMAIN INSTRUCTIONS : mn \in DOMAIN INSTRUCTIONS[x]
  OBVIOUS
<1>5. cls \in Classes /\ mn \in DOMAIN INSTRUCTIONS[cls]
  BY <1>2, <1>4, ClassesInOrder
<1>6. cls = class
  BY <1>2, <1>5, OneClass
<1>7. PICK base : base = INSTRUCTIONS[class][mn]
  OBVIOUS
<1>8. PlainWord(d.text) =
        CASE class = "Implied" -> base
          [] class = "RegReg" -> base + 8 * d.text.shown[1] + d.text.shown[2]
          [] class = "Shift" -> base + 4 * (d.text.shown[2] - 1) + d.text.shown[1]
          [] OTHER -> base + d.text.shown[1]
  BY <1>3, <1>4, <1>6, <1>7, Zenon DEF PlainWord
<1>9. base = w - (w % Fields(class))
  BY <1>2, <1>7
<1>10. /\ w % 1 = 0
       /\ \E x \in 0..7 : \E r \in 0..7 : x = (w \div 8) % 8 /\ r = w % 8 /\ w % 64 = 8 * x + r
       /\ \E x \in 0..1 : \E r \in 0..3 : x = (w \div 4) % 2 /\ r = w % 4 /\ w % 8 = 4 * x + r
  <2>1. w \in Int /\ 0 <= w
    OBVIOUS
  <2> QED
    BY <2>1, PlainFields
<1>11. PlainWord(d.text) = w
  <2>1. CASE class = "Implied"
    <3>1. Fields(class) = 1
      BY <2>1 DEF Fields
    <3>2. base = w
      BY <1>9, <1>10, <3>1
    <3> QED
      BY <1>8, <2>1, <3>2
  <2>2. CASE class = "RegReg"
    <3>1. Fields(class) = 64
      BY <2>2 DEF Fields
    <3>2. PICK x \in 0..7, r \in 0..7 : x = (w \div 8) % 8 /\ r = w % 8 /\ w % 64 = 8 * x + r
      BY <1>10
    <3>3. Shown(class, w) = <<x, r>>
      <4>1. Bits(w, 8, 8) = x
        BY <3>2 DEF Bits
      <4>2. Shown(class, w) = <<Bits(w, 8, 8), w % 8>>
        BY <2>2 DEF Shown
      <4> QED
        BY <3>2, <4>1, <4>2
    <3>4. d.text.shown[1] = x /\ d.text.shown[2] = r
      <4>1. <<x, r>>[1] = x /\ <<x, r>>[2] = r
        OBVIOUS
      <4> QED
        BY <1>3, <3>3, <4>1, Zenon
    <3>5. base = w - (8 * x + r)
      BY <1>9, <3>1, <3>2
    <3>6. PlainWord(d.text) = base + 8 * x + r
      BY <1>8, <2>2, <3>4
    <3> QED
      BY <3>5, <3>6
  <2>3. CASE class = "Shift"
    <3>1. Fields(class) = 8
      BY <2>3 DEF Fields
    <3>2. PICK x \in 0..1, r \in 0..3 : x = (w \div 4) % 2 /\ r = w % 4 /\ w % 8 = 4 * x + r
      BY <1>10
    <3>3. Shown(class, w) = <<r, x + 1>>
      <4>1. Bits(w, 4, 2) = x
        BY <3>2 DEF Bits
      <4>2. Shown(class, w) = <<w % 4, Bits(w, 4, 2) + 1>>
        BY <2>3 DEF Shown
      <4> QED
        BY <3>2, <4>1, <4>2
    <3>4. d.text.shown[1] = r /\ d.text.shown[2] = x + 1
      <4>1. <<r, x + 1>>[1] = r /\ <<r, x + 1>>[2] = x + 1
        OBVIOUS
      <4> QED
        BY <1>3, <3>3, <4>1, Zenon
    <3>5. base = w - (4 * x + r)
      BY <1>9, <3>1, <3>2
    <3>6. PlainWord(d.text) = base + 4 * (d.text.shown[2] - 1) + d.text.shown[1]
      BY <1>8, <2>3
    <3> QED
      BY <3>4, <3>5, <3>6
  <2>4. CASE class = "GetStatus"
    <3>1. Fields(class) = 4
      BY <2>4 DEF Fields
    <3>2. d.text.shown[1] = w % 4
      <4>1. PICK r : r = w % 4
        OBVIOUS
      <4>2. Shown(class, w) = <<r>>
        BY <2>4, <4>1 DEF Shown
      <4>3. <<r>>[1] = r
        OBVIOUS
      <4> QED
        BY <1>3, <4>1, <4>2, <4>3, Zenon
    <3>3. PlainWord(d.text) = base + d.text.shown[1]
      BY <1>8, <2>4
    <3> QED
      BY <1>9, <3>1, <3>2, <3>3
  <2>5. CASE class = "RegUnary"
    <3>1. Fields(class) = 8
      BY <2>5 DEF Fields
    <3>2. d.text.shown[1] = w % 8
      <4>1. PICK r : r = w % 8
        OBVIOUS
      <4>2. Shown(class, w) = <<r>>
        BY <2>5, <4>1 DEF Shown
      <4>3. <<r>>[1] = r
        OBVIOUS
      <4> QED
        BY <1>3, <4>1, <4>2, <4>3, Zenon
    <3>3. PlainWord(d.text) = base + d.text.shown[1]
      BY <1>8, <2>5
    <3> QED
      BY <1>9, <3>1, <3>2, <3>3
  <2> QED
    BY <2>1, <2>2, <2>3, <2>4, <2>5 DEF Classes
<1>12. InstructionWords(d.text, a, sdbd) = <<w>>
  BY <1>3, <1>11 DEF InstructionWords
<1> QED
  BY <1>12, OneWord

------------------------------------------------------------------------------
(* What decode_cp1610 finds, whichever region it looks in *)

\* Whatever is decoded lists one to three words, all there.
LEMMA DecodedListed ==
  ASSUME NEW c \in Seq(Byte), NEW p \in Nat, NEW a \in Word16, NEW sdbd \in BOOLEAN,
         Present(c, p, 1), NEW d \in decode_cp1610(c, p, a, sdbd)
  PROVE  \E n \in 1..3 : ListsWords(c, p, d, n)
<1>1. PICK w \in Nat : w = WordAt(c, p, 0)
  BY WordIsNat
<1>2. 1 \in 1..3 /\ 2 \in 1..3 /\ 3 \in 1..3
  OBVIOUS
<1>3. CASE Bits(w, 64, 16) = 8
  <2>1. d \in Branch(c, p, a)
    BY <1>1, <1>3 DEF decode_cp1610
  <2> QED
    BY <1>1, <1>2, <1>3, <2>1, BranchListed
<1>4. CASE Bits(w, 64, 16) # 8 /\ w >= 576
  <2>1. d \in MemoryReference(c, p, sdbd)
    BY <1>1, <1>4 DEF decode_cp1610
  <2> QED
    BY <1>1, <1>4, <2>1, MemoryListed
<1>5. CASE Bits(w, 64, 16) # 8 /\ ~(w >= 576) /\ w = 4
  <2>1. d \in Jump(c, p)
    BY <1>1, <1>5 DEF decode_cp1610
  <2> QED
    BY <1>1, <1>2, <1>5, <2>1, JumpListed
<1>6. CASE Bits(w, 64, 16) # 8 /\ ~(w >= 576) /\ w # 4
  <2>1. d \in Plain(w)
    BY <1>1, <1>6 DEF decode_cp1610
  <2> QED
    BY <1>1, <1>2, <2>1, PlainListed
<1> QED
  BY <1>3, <1>4, <1>5, <1>6

\* Whatever is decoded, and has room, is spelt back word for word.
LEMMA DecodedSpelt ==
  ASSUME NEW c \in Seq(Byte), NEW p \in Nat, NEW a \in Word16, NEW sdbd \in BOOLEAN,
         Present(c, p, 1), NEW d \in decode_cp1610(c, p, a, sdbd), RoomAt(c, p, a, d)
  PROVE  Spells(InstructionWords(d.text, a, sdbd), c, p, d.words)
<1>1. PICK w \in Nat : w = WordAt(c, p, 0)
  BY WordIsNat
<1>2. CASE Bits(w, 64, 16) = 8
  <2>1. d \in Branch(c, p, a)
    BY <1>1, <1>2 DEF decode_cp1610
  <2>2. d.words = 2
    BY <1>1, <1>2, <2>1, BranchListed DEF ListsWords
  <2> QED
    BY <1>1, <1>2, <2>1, <2>2, BranchSpelt
<1>3. CASE Bits(w, 64, 16) # 8 /\ w >= 576
  <2>1. d \in MemoryReference(c, p, sdbd)
    BY <1>1, <1>3 DEF decode_cp1610
  <2> QED
    BY <2>1, MemorySpelt
<1>4. CASE Bits(w, 64, 16) # 8 /\ ~(w >= 576) /\ w = 4
  <2>1. d \in Jump(c, p)
    BY <1>1, <1>4 DEF decode_cp1610
  <2>2. d.words = 3
    BY <1>1, <1>4, <2>1, JumpListed DEF ListsWords
  <2> QED
    BY <1>1, <1>4, <2>1, <2>2, JumpSpelt
<1>5. CASE Bits(w, 64, 16) # 8 /\ ~(w >= 576) /\ w # 4
  <2>1. d \in Plain(w)
    BY <1>1, <1>5 DEF decode_cp1610
  <2>2. d.words = 1
    BY <1>1, <2>1, PlainListed DEF ListsWords
  <2> QED
    BY <1>1, <2>1, <2>2, PlainSpelt
<1> QED
  BY <1>2, <1>3, <1>4, <1>5

\* A word that is listed as data is never an SDBD.
LEMMA DataIsNoPrefix ==
  ASSUME NEW c, NEW p, NEW a, NEW sdbd, decode_cp1610(c, p, a, sdbd) = {}
  PROVE  WordAt(c, p, 0) # 1
<1>1. SUFFICES ASSUME WordAt(c, p, 0) = 1 PROVE FALSE
  OBVIOUS
<1>2. Bits(1, 64, 16) = 0
  BY DEF Bits
<1>3. decode_cp1610(c, p, a, sdbd) = Plain(1)
  BY <1>1, <1>2 DEF decode_cp1610
<1> QED
  BY <1>3, PrefixDecodes

------------------------------------------------------------------------------
(* One step of the sweep *)

\* The line pushed for n bytes.
Entry(n, text) ==
  [at    |-> pos,
   addr  |-> Addr,
   bytes |-> SubSeq(code, pos + 1, pos + n),
   text  |-> text]

\* The address of the cursor is a u16.
LEMMA AddrIsWord ==
  ASSUME TypeOK
  PROVE  Addr \in Word16
<1>1. PICK u \in Int : u = origin + pos \div 2
  BY DEF TypeOK, Word16
<1> QED
  BY <1>1, WrapIsWord, SMTT(30) DEF Addr

\* A line whose words have room comes back, behind the prefix the sweep saw; a
\* last odd byte does so behind anything.
ComesBack(line) ==
  \A prefixed \in BOOLEAN :
    (Present(code, pos, 1) => prefixed = after_sdbd) /\ HasRoom(line) =>
      LineBytes(line, prefixed) = line.bytes

\* A last odd byte comes back.
LEMMA ByteBack ==
  ASSUME TypeOK, pos < Len(code), NEW text, text = [kind |-> "byte", shown |-> <<code[pos + 1]>>]
  PROVE  ComesBack(Entry(1, text))
<1>1. code \in Seq(Byte) /\ pos \in Nat
  BY DEF TypeOK
<1>2. PICK m \in Nat : m = Len(code)
  BY <1>1, LenProperties
<1>3. pos + 1 \in 1..m
  BY <1>1, <1>2
<1>4. PICK b \in Byte : b = code[pos + 1]
  BY <1>1, <1>2, <1>3, ElementOfSeq
<1>5. SubSeq(code, pos + 1, pos + 1) = <<b>>
  <2>1. \A k \in pos + 1 .. pos + 1 : code[k] \in Byte
    BY <1>1, <1>4
  <2>2. PICK piece : piece = SubSeq(code, pos + 1, pos + 1)
    OBVIOUS
  <2>3. /\ piece \in Seq(Byte) /\ Len(piece) = 1
        /\ piece[1] = code[pos + 1]
    <3>1. pos + 1 >= pos /\ (pos + 1) - (pos + 1) + 1 = 1 /\ pos + 1 + 1 - 1 = pos + 1
      BY <1>1
    <3>2. /\ SubSeq(code, pos + 1, pos + 1) \in Seq(Byte)
          /\ Len(SubSeq(code, pos + 1, pos + 1)) = (pos + 1) - (pos + 1) + 1
          /\ \A i \in 1..((pos + 1) - (pos + 1) + 1) :
                SubSeq(code, pos + 1, pos + 1)[i] = code[pos + 1 + i - 1]
      BY <1>1, <2>1, SubSeqProperties, SMTT(30)
    <3>3. 1 \in 1..1
      OBVIOUS
    <3> QED
      BY <2>2, <3>1, <3>2, <3>3
  <2>4. <<b>> \in Seq(Byte) /\ Len(<<b>>) = 1 /\ <<b>>[1] = b
    OBVIOUS
  <2>5. \A k \in 1..1 : piece[k] = <<b>>[k]
    BY <1>4, <2>3, <2>4
  <2>6. piece = <<b>>
    BY <2>3, <2>4, <2>5, SeqEqual
  <2> QED
    BY <2>2, <2>6
<1>6. PICK line : line = Entry(1, text)
  OBVIOUS
<1>7. line.text.kind = "byte" /\ line.text.shown = <<b>> /\ line.bytes = <<b>>
  BY <1>4, <1>5, <1>6 DEF Entry
<1>8. \A prefixed : LineBytes(line, prefixed) = line.bytes
  BY <1>7 DEF LineBytes
<1> QED
  BY <1>6, <1>8 DEF ComesBack

\* A word listed as data comes back.
LEMMA WordBack ==
  ASSUME TypeOK, Present(code, pos, 1),
         NEW text, text = [kind |-> "word", shown |-> <<WordAt(code, pos, 0)>>]
  PROVE  ComesBack(Entry(2, text))
<1>1. code \in Seq(Byte) /\ pos \in Nat
  BY DEF TypeOK
<1>2. PICK w \in Nat : w = WordAt(code, pos, 0)
  BY <1>1, WordIsNat
<1>3. Spells(<<w>>, code, pos, 1)
  BY <1>2, OneWord
<1>4. pos + 2 * 1 <= Len(code)
  BY DEF Present
<1>5. BytesOf(<<w>>) = SubSeq(code, pos + 1, pos + 2 * 1)
  BY <1>1, <1>3, <1>4, BytesBack
<1>6. PICK line : line = Entry(2, text)
  OBVIOUS
<1>7. line.text.kind = "word" /\ line.text.shown = <<w>> /\ line.bytes = SubSeq(code, pos + 1, pos + 2)
  BY <1>2, <1>6 DEF Entry
<1>8. 2 * 1 = 2
  OBVIOUS
<1>9. \A prefixed : LineBytes(line, prefixed) = line.bytes
  BY <1>5, <1>7, <1>8 DEF LineBytes
<1> QED
  BY <1>6, <1>9 DEF ComesBack

\* An instruction comes back.
LEMMA InstructionBack ==
  ASSUME TypeOK, Present(code, pos, 1), NEW d \in Decoded, NEW n \in 1..3,
         ListsWords(code, pos, d, n), NEW l, l = 2 * n
  PROVE  ComesBack(Entry(l, d.text))
<1>1. code \in Seq(Byte) /\ pos \in Nat /\ after_sdbd \in BOOLEAN
  BY DEF TypeOK
<1>2. /\ d.words = n /\ d.text.kind = "instruction" /\ Present(code, pos, n)
      /\ d.text.form = "jump" => n = 3
      /\ d.text.form = "branch" => n = 2
  BY DEF ListsWords
<1>3. PICK line : line = Entry(l, d.text)
  OBVIOUS
<1>4. line.text = d.text /\ line.addr = Addr /\ line.bytes = SubSeq(code, pos + 1, pos + l)
  BY <1>3 DEF Entry
<1>5. n \in Nat /\ pos + 2 * n <= Len(code)
  BY <1>2 DEF Present
<1>6. \A k \in Nat : k < n => WordAt(line.bytes, 0, k) = WordAt(code, pos, k)
  <2>1. line.bytes = SubSeq(code, pos + 1, pos + 2 * n)
    BY <1>4
  <2>2. ASSUME NEW k \in Nat, k < n
        PROVE  WordAt(SubSeq(code, pos + 1, pos + 2 * n), 0, k) = WordAt(code, pos, k)
    BY <1>1, <1>5, <2>2, WordsOfPiece
  <2> QED
    BY <2>1, <2>2, Zenon
<1>7. Len(line.bytes) = l
  <2>1. PICK m \in Nat : m = Len(code)
    BY <1>1, LenProperties
  <2>2. l \in Nat /\ pos + l <= m /\ l > 0
    BY <1>5, <2>1
  <2>3. \A k \in pos + 1 .. pos + l : code[k] \in Byte
    BY <1>1, <2>1, <2>2, ElementOfSeq
  <2>4. pos + l >= pos /\ (pos + l) - (pos + 1) + 1 = l
    BY <1>1, <2>2
  <2>5. /\ SubSeq(code, pos + 1, pos + l) \in Seq(Byte)
        /\ Len(SubSeq(code, pos + 1, pos + l)) = l
    BY <1>1, <2>2, <2>3, <2>4, SubSeqProperties, SMTT(30)
  <2> QED
    BY <1>4, <2>5
<1>8. ASSUME HasRoom(line) PROVE RoomAt(code, pos, Addr, d)
  <2>1. WordAt(line.bytes, 0, 0) = WordAt(code, pos, 0)
    BY <1>5, <1>6
  <2>2. n > 1 => WordAt(line.bytes, 0, 1) = WordAt(code, pos, 1)
    BY <1>6
  <2>3. n > 2 => WordAt(line.bytes, 0, 2) = WordAt(code, pos, 2)
    BY <1>6
  <2>4. n = 3 => Len(line.bytes) = 6
    BY <1>7
  <2>5. /\ WordAt(line.bytes, 0, 0) < 1024
        /\ d.text.form = "jump" => WordAt(line.bytes, 0, 1) < 1024 /\ WordAt(line.bytes, 0, 2) < 1024
        /\ d.text.form = "immediate" /\ Len(line.bytes) = 6 =>
             WordAt(line.bytes, 0, 1) < 256 /\ WordAt(line.bytes, 0, 2) < 256
        /\ d.text.form = "branch" =>
             InReach(WordAt(line.bytes, 0, 0), Wrap16(Addr + 2), WordAt(line.bytes, 0, 1))
    <3>1. line.text.kind = "instruction" /\ line.text.form = d.text.form /\ line.addr = Addr
      BY <1>2, <1>4
    <3>2. /\ WordAt(line.bytes, 0, 0) < 1024
          /\ line.text.form = "jump" =>
               WordAt(line.bytes, 0, 1) < 1024 /\ WordAt(line.bytes, 0, 2) < 1024
          /\ line.text.form = "immediate" /\ Len(line.bytes) = 6 =>
               WordAt(line.bytes, 0, 1) < 256 /\ WordAt(line.bytes, 0, 2) < 256
          /\ line.text.form = "branch" =>
               InReach(WordAt(line.bytes, 0, 0), Wrap16(line.addr + 2), WordAt(line.bytes, 0, 1))
      BY <1>8, <3>1 DEF HasRoom
    <3> QED
      BY <3>1, <3>2
  <2>6. (n = 2 => n > 1) /\ (n = 3 => n > 1 /\ n > 2)
    OBVIOUS
  <2> QED
    BY <1>2, <2>1, <2>2, <2>3, <2>4, <2>5, <2>6 DEF RoomAt
<1>9. ASSUME HasRoom(line) PROVE LineBytes(line, after_sdbd) = line.bytes
  <2>1. Spells(InstructionWords(d.text, Addr, after_sdbd), code, pos, n)
    BY <1>1, <1>2, <1>8, <1>9, AddrIsWord, DecodedSpelt DEF Decoded
  <2>2. BytesOf(InstructionWords(d.text, Addr, after_sdbd)) = SubSeq(code, pos + 1, pos + 2 * n)
    BY <1>1, <1>5, <2>1, BytesBack
  <2>3. LineBytes(line, after_sdbd) = BytesOf(InstructionWords(d.text, Addr, after_sdbd))
    BY <1>2, <1>4 DEF LineBytes
  <2> QED
    BY <1>4, <2>2, <2>3
<1> QED
  BY <1>3, <1>9 DEF ComesBack

\* Every step but the last pushes one line that lies in the buffer, knows
\* whether it lists an SDBD, and comes back.
Pushes(n, text) ==
  /\ n \in 1..6 /\ pos + n <= Len(code)
  /\ text \in Text
  /\ out' = Append(out, Entry(n, text)) /\ pos' = pos + n /\ UNCHANGED <<code, origin>>
  /\ \/ ~Present(code, pos, 1) /\ n = 1
     \/ Present(code, pos, 1) /\ (after_sdbd' <=> IsSDBD(text))
  /\ after_sdbd' \in BOOLEAN
  /\ ComesBack(Entry(n, text))

\* Every step of the loop pushes such a line.
LEMMA StepPushes ==
  ASSUME TypeOK, EmitByte \/ EmitInstruction \/ EmitWord
  PROVE  \E n, text : Pushes(n, text)
<1>1. code \in Seq(Byte) /\ pos \in Nat /\ after_sdbd \in BOOLEAN
  BY LenProperties DEF TypeOK
<1>2. PICK m \in Nat : m = Len(code)
  BY <1>1, LenProperties
<1>3. CASE EmitByte
  <2>1. PICK text : text = [kind |-> "byte", shown |-> <<code[pos + 1]>>]
    OBVIOUS
  <2>2. Push(1, text) /\ ~Present(code, pos, 1) /\ after_sdbd' = after_sdbd /\ pos < Len(code)
    BY <1>3, <2>1 DEF EmitByte
  <2>3. code[pos + 1] \in Byte
    <3>1. pos + 1 \in 1..m
      BY <1>1, <1>2, <2>2
    <3> QED
      BY <1>1, <1>2, <3>1, ElementOfSeq
  <2>4. text \in Text
    <3>1. <<code[pos + 1]>> \in Seq(Nat)
      BY <2>3 DEF Byte
    <3> QED
      BY <2>1, <3>1 DEF Text
  <2>5. 1 \in 1..6 /\ pos + 1 <= Len(code)
    BY <1>1, <1>2, <2>2
  <2>6. Pushes(1, text)
    <3>1. ComesBack(Entry(1, text))
      BY <2>1, <2>2, ByteBack
    <3> QED
      BY <1>1, <2>2, <2>4, <2>5, <3>1 DEF Pushes, Push, Entry
  <2> QED
    BY <2>6
<1>4. CASE EmitInstruction
  <2>1. PICK d \in Decoded : Push(2 * d.words, d.text)
    BY <1>4 DEF EmitInstruction
  <2>2. Present(code, pos, 1) /\ (after_sdbd' <=> WordAt(code, pos, 0) = 1)
    BY <1>4 DEF EmitInstruction, SetPrefix
  <2>3. PICK n \in 1..3 : ListsWords(code, pos, d, n)
    BY <1>1, <2>1, <2>2, AddrIsWord, DecodedListed DEF Decoded
  <2>4. /\ d.words = n /\ d.text \in Text /\ Present(code, pos, n)
        /\ (d.text.mnemonic = "SDBD" <=> WordAt(code, pos, 0) = 1)
        /\ d.text.kind = "instruction"
    BY <2>3 DEF ListsWords
  <2>5. PICK l \in 1..6 : l = 2 * n
    OBVIOUS
  <2>6. pos + l <= Len(code)
    BY <2>4, <2>5 DEF Present
  <2>7. after_sdbd' <=> IsSDBD(d.text)
    BY <2>2, <2>4 DEF IsSDBD
  <2>8. after_sdbd' \in BOOLEAN
    BY <1>4 DEF EmitInstruction, SetPrefix
  <2>9. Push(l, d.text)
    BY <2>1, <2>4, <2>5
  <2>10. Pushes(l, d.text)
    <3>1. ComesBack(Entry(l, d.text))
      BY <2>1, <2>2, <2>3, <2>5, InstructionBack
    <3> QED
      BY <2>2, <2>4, <2>6, <2>7, <2>8, <2>9, <3>1 DEF Pushes, Push, Entry
  <2> QED
    BY <2>10
<1>5. CASE EmitWord
  <2>1. PICK text : text = [kind |-> "word", shown |-> <<WordAt(code, pos, 0)>>]
    OBVIOUS
  <2>2. Push(2, text) /\ Present(code, pos, 1) /\ (after_sdbd' <=> WordAt(code, pos, 0) = 1)
    BY <1>5, <2>1 DEF EmitWord, SetPrefix
  <2>3. WordAt(code, pos, 0) # 1
    BY <1>5, DataIsNoPrefix DEF EmitWord, Decoded
  <2>4. text \in Text
    <3>1. PICK w \in Nat : w = WordAt(code, pos, 0)
      BY <1>1, <2>2, WordIsNat
    <3>2. <<w>> \in Seq(Nat)
      OBVIOUS
    <3> QED
      BY <2>1, <3>1, <3>2 DEF Text
  <2>5. ~IsSDBD(text)
    BY <2>1 DEF IsSDBD
  <2>6. 2 \in 1..6 /\ pos + 2 <= Len(code)
    BY <1>1, <1>2, <2>2 DEF Present
  <2>7. after_sdbd' \in BOOLEAN
    BY <1>5 DEF EmitWord, SetPrefix
  <2>8. Pushes(2, text)
    <3>1. ComesBack(Entry(2, text))
      BY <2>1, <2>2, WordBack
    <3> QED
      BY <2>2, <2>3, <2>4, <2>5, <2>6, <2>7, <3>1 DEF Pushes, Push, Entry
  <2> QED
    BY <2>8
<1> QED
  BY <1>3, <1>4, <1>5

\* The line pushed has the types of a line.
LEMMA EntryIsLine ==
  ASSUME TypeOK, NEW n, NEW text, Pushes(n, text)
  PROVE  Entry(n, text) \in Line
<1>1. code \in Seq(Byte) /\ pos \in Nat /\ n \in Nat /\ n >= 1 /\ pos + n <= Len(code)
  BY LenProperties DEF TypeOK, Pushes
<1>2. PICK m \in Nat : m = Len(code)
  BY <1>1, LenProperties
<1>3. SubSeq(code, pos + 1, pos + n) \in Seq(Byte)
  <2>1. \A k \in pos + 1 .. pos + n : code[k] \in Byte
    BY <1>1, <1>2, ElementOfSeq
  <2> QED
    BY <1>1, <2>1, SubSeqProperties, SMTT(30)
<1>4. Addr \in Word16 /\ text \in Text
  BY AddrIsWord DEF Pushes
<1> QED
  BY <1>1, <1>3, <1>4 DEF Entry, Line

\* Every state has the types the code gives its variables: the cursor never
\* leaves the buffer, every address is a u16, every line has a text.
THEOREM TypeCorrect == Spec => []TypeOK
<1>1. Init => TypeOK
  <2> SUFFICES ASSUME Init PROVE TypeOK
    OBVIOUS
  <2>1. code \in Seq(Byte) /\ origin \in Word16 /\ pos = 0 /\ out = <<>> /\ after_sdbd = FALSE
    BY CodesAreBytes, OriginsAreWords DEF Init
  <2>2. pos \in 0..Len(code)
    BY <2>1, LenProperties
  <2>3. out \in Seq(Line) /\ DOMAIN out = {}
    BY <2>1
  <2> QED
    BY <2>1, <2>2, <2>3 DEF TypeOK
<1>2. TypeOK /\ [Next]_vars => TypeOK'
  <2> SUFFICES ASSUME TypeOK, [Next]_vars PROVE TypeOK'
    OBVIOUS
  <2>1. CASE EmitByte \/ EmitInstruction \/ EmitWord
    <3>1. PICK n, text : Pushes(n, text)
      BY <2>1, StepPushes
    <3>2. /\ code \in Seq(Byte) /\ origin \in Word16 /\ pos \in Nat /\ out \in Seq(Line)
          /\ \A k \in DOMAIN out : out[k].at <= pos
      BY LenProperties DEF TypeOK
    <3>3. /\ out' = Append(out, Entry(n, text)) /\ pos' = pos + n /\ UNCHANGED <<code, origin>>
          /\ n \in 1..6 /\ pos + n <= Len(code) /\ after_sdbd' \in BOOLEAN
      BY <3>1 DEF Pushes
    <3>4. PICK line \in Line : line = Entry(n, text)
      BY <3>1, EntryIsLine
    <3>5. PICK m \in Nat : m = Len(out)
      BY <3>2, LenProperties
    <3>6. /\ out' \in Seq(Line) /\ DOMAIN out = 1..m /\ DOMAIN out' = 1..(m + 1)
          /\ out'[m + 1] = line /\ \A k \in 1..m : out'[k] = out[k]
      BY <3>2, <3>3, <3>4, <3>5, AppendProperties, LenProperties, SMTT(30)
    <3>7. pos' \in 0..Len(code')
      <4>1. PICK l \in Nat : l = Len(code)
        BY <3>2, LenProperties
      <4> QED
        BY <3>2, <3>3, <4>1
    <3>8. ASSUME NEW k \in DOMAIN out' PROVE out'[k].at <= pos'
      <4>1. CASE k = m + 1
        <5>1. out'[k].at = pos
          BY <3>4, <3>6, <4>1 DEF Entry
        <5> QED
          BY <3>2, <3>3, <5>1
      <4>2. CASE k \in 1..m
        <5>1. PICK x \in Nat : x = out[k].at /\ x <= pos
          <6>1. PICK above \in Line : above = out[k]
            BY <3>2, <3>5, <4>2, ElementOfSeq
          <6>2. above.at \in Nat
            BY DEF Line
          <6> QED
            BY <3>2, <3>6, <4>2, <6>1, <6>2
        <5>2. out'[k].at = x
          BY <3>6, <4>2, <5>1
        <5> QED
          BY <3>2, <3>3, <5>1, <5>2, SMTT(30)
      <4> QED
        BY <3>6, <4>1, <4>2
    <3> QED
      BY <3>2, <3>3, <3>6, <3>7, <3>8 DEF TypeOK
  <2>2. CASE UNCHANGED vars
    BY <2>2 DEF TypeOK, vars
  <2> QED
    BY <2>1, <2>2 DEF Next, Return
<1> QED
  BY <1>1, <1>2, PTL DEF Spec

(***************************************************************************)
(* The flag the sweep carries says what the assembler will find: while a   *)
(* word is left to read, it is set just when the line above is an SDBD.    *)
(***************************************************************************)
FlagIsLineAbove ==
  Present(code, pos, 1) => (after_sdbd <=> out # <<>> /\ IsSDBD(out[Len(out)].text))

\* The flag follows the lines: each step sets it by the line it pushes.
LEMMA FlagInductive == TypeOK /\ FlagIsLineAbove /\ [Next]_vars => FlagIsLineAbove'
<1> SUFFICES ASSUME TypeOK, FlagIsLineAbove, [Next]_vars PROVE FlagIsLineAbove'
  OBVIOUS
<1>1. CASE EmitByte \/ EmitInstruction \/ EmitWord
  <2>1. PICK n, text : Pushes(n, text)
    BY <1>1, StepPushes
  <2>2. code \in Seq(Byte) /\ pos \in Nat /\ out \in Seq(Line)
    BY LenProperties DEF TypeOK
  <2>3. PICK line \in Line : line = Entry(n, text)
    BY <2>1, EntryIsLine
  <2>4. out' = Append(out, line) /\ pos' = pos + n /\ code' = code
    BY <2>1, <2>3 DEF Pushes
  <2>5. PICK m \in Nat : m = Len(out)
    BY <2>2, LenProperties
  <2>6. Len(out') = m + 1 /\ out'[m + 1] = line /\ out' # <<>>
    <3>1. Len(out') = m + 1 /\ out'[m + 1] = line
      BY <2>2, <2>4, <2>5, AppendProperties, SMTT(30)
    <3>2. Len(<<>>) = 0
      OBVIOUS
    <3> QED
      BY <3>1, <3>2
  <2>7. line.text = text
    BY <2>3 DEF Entry
  <2>8. CASE ~Present(code, pos, 1) /\ n = 1
    <3>1. PICK l \in Nat : l = Len(code)
      BY <2>2, LenProperties
    <3>2. ~Present(code', pos', 1)
      BY <2>2, <2>4, <2>8, <3>1 DEF Present
    <3> QED
      BY <3>2 DEF FlagIsLineAbove
  <2>9. CASE after_sdbd' <=> IsSDBD(text)
    <3>1. after_sdbd' <=> out' # <<>> /\ IsSDBD(out'[Len(out')].text)
      BY <2>6, <2>7, <2>9
    <3> QED
      BY <3>1 DEF FlagIsLineAbove
  <2> QED
    BY <2>1, <2>8, <2>9 DEF Pushes
<1>2. CASE UNCHANGED vars
  BY <1>2 DEF FlagIsLineAbove, vars
<1> QED
  BY <1>1, <1>2 DEF Next, Return

\* The prefix the assembler sees above the next line is the one the sweep saw.
LEMMA PrefixSeen ==
  ASSUME TypeOK, FlagIsLineAbove, Present(code, pos, 1), NEW m \in Nat, m = Len(out),
         \A k \in 1..m : out'[k] = out[k]
  PROVE  m + 1 > 1 /\ IsSDBD(out'[m + 1 - 1].text) <=> after_sdbd
<1>1. out \in Seq(Line)
  BY DEF TypeOK
<1>2. m + 1 - 1 = m /\ (m + 1 > 1 <=> m # 0)
  OBVIOUS
<1>3. out = <<>> <=> m = 0
  BY <1>1, EmptySeq, LenProperties
<1>4. m # 0 => out'[m] = out[m]
  OBVIOUS
<1> QED
  BY <1>2, <1>3, <1>4 DEF FlagIsLineAbove

\* "Round-trip is byte-exact", for every line that has room.
THEOREM ListingRoundTrips == Spec => []RoundTrip
<1>1. Init => FlagIsLineAbove /\ RoundTrip
  BY DEF Init, FlagIsLineAbove, RoundTrip
<1>2. TypeOK /\ FlagIsLineAbove /\ RoundTrip /\ [Next]_vars => RoundTrip'
  <2> SUFFICES ASSUME TypeOK, FlagIsLineAbove, RoundTrip, [Next]_vars PROVE RoundTrip'
    OBVIOUS
  <2>1. CASE EmitByte \/ EmitInstruction \/ EmitWord
    <3>1. PICK n, text : Pushes(n, text)
      BY <2>1, StepPushes
    <3>2. out \in Seq(Line)
      BY DEF TypeOK
    <3>3. PICK line \in Line : line = Entry(n, text)
      BY <3>1, EntryIsLine
    <3>4. out' = Append(out, line) /\ ComesBack(line)
      BY <3>1, <3>3 DEF Pushes
    <3>5. PICK m \in Nat : m = Len(out)
      BY <3>2, LenProperties
    <3>6. /\ DOMAIN out = 1..m /\ DOMAIN out' = 1..(m + 1)
          /\ out'[m + 1] = line /\ \A k \in 1..m : out'[k] = out[k]
      BY <3>2, <3>4, <3>5, AppendProperties, LenProperties, SMTT(30)
    <3>7. ASSUME NEW k \in DOMAIN out', HasRoom(out'[k])
          PROVE  LineBytes(out'[k], k > 1 /\ IsSDBD(out'[k - 1].text)) = out'[k].bytes
      <4>1. CASE k \in 1..m
        <5>1. HasRoom(out[k]) /\ out'[k] = out[k]
          BY <3>6, <3>7, <4>1
        <5>2. LineBytes(out[k], k > 1 /\ IsSDBD(out[k - 1].text)) = out[k].bytes
          BY <3>6, <4>1, <5>1 DEF RoundTrip, Assembled, Prefixed
        <5>3. k > 1 /\ IsSDBD(out'[k - 1].text) <=> k > 1 /\ IsSDBD(out[k - 1].text)
          BY <3>6, <4>1
        <5> QED
          BY <5>1, <5>2, <5>3
      <4>2. CASE k = m + 1
        <5>1. PICK prefixed \in BOOLEAN : prefixed = (m + 1 > 1 /\ IsSDBD(out'[m + 1 - 1].text))
          OBVIOUS
        <5>2. Present(code, pos, 1) => prefixed = after_sdbd
          BY <3>5, <3>6, <5>1, PrefixSeen DEF TypeOK
        <5>3. LineBytes(line, prefixed) = line.bytes
          BY <3>4, <3>6, <3>7, <4>2, <5>2 DEF ComesBack
        <5> QED
          BY <3>6, <4>2, <5>1, <5>3
      <4> QED
        BY <3>6, <4>1, <4>2
    <3> QED
      BY <3>7 DEF RoundTrip, Assembled, Prefixed
  <2>2. CASE UNCHANGED vars
    BY <2>2 DEF RoundTrip, Assembled, Prefixed, vars
  <2> QED
    BY <2>1, <2>2 DEF Next, Return
<1> QED
  BY <1>1, <1>2, FlagInductive, TypeCorrect, PTL DEF Spec

------------------------------------------------------------------------------
(* The disassembler implements the sweep *)

\* A line without its text.
Piece(line) == [at |-> line.at, addr |-> line.addr, bytes |-> line.bytes]

\* A line more is a piece more.
LEMMA PiecesOfAppend ==
  ASSUME NEW line, out \in Seq(Line), out' = Append(out, line)
  PROVE  Pieces' = Append(Pieces, Piece(line))
<1>1. PICK m \in Nat : m = Len(out)
  BY LenProperties
<1>2. DOMAIN out = 1..m
  BY <1>1, LenProperties
<1>3. /\ DOMAIN out' = 1..(m + 1)
      /\ out'[m + 1] = line
      /\ \A k \in 1..m : out'[k] = out[k]
  BY <1>1
<1>4. PICK ps : ps = Pieces
  OBVIOUS
<1>5. PICK qs : qs = Pieces'
  OBVIOUS
<1>6. ps = [k \in 1..m |-> Piece(out[k])]
  BY <1>2, <1>4 DEF Pieces, Piece
<1>7. qs = [k \in 1..(m + 1) |-> Piece(out'[k])]
  BY <1>3, <1>5 DEF Pieces, Piece
<1>8. DEFINE T == {ps[k] : k \in 1..m} \cup {qs[k] : k \in 1..(m + 1)}
<1>9. ps \in Seq(T) /\ Len(ps) = m
  <2>1. ps \in [1..m -> T]
    BY <1>6
  <2> HIDE DEF T
  <2> QED
    BY <2>1, SeqDef, LenProperties
<1>10. qs \in Seq(T) /\ Len(qs) = m + 1
  <2>1. qs \in [1..(m + 1) -> T]
    BY <1>7
  <2> HIDE DEF T
  <2> QED
    BY <2>1, SeqDef, LenProperties
<1>11. Piece(line) = qs[m + 1] /\ qs[m + 1] \in T
  <2>1. m + 1 \in 1..(m + 1)
    OBVIOUS
  <2>2. qs[m + 1] = Piece(out'[m + 1])
    BY <1>7, <2>1
  <2>3. qs[m + 1] \in {qs[k] : k \in 1..(m + 1)}
    BY <2>1
  <2> QED
    BY <1>3, <2>2, <2>3
<1> HIDE DEF T
<1>12. PICK rs : rs = Append(ps, Piece(line))
  OBVIOUS
<1>13. /\ rs \in Seq(T) /\ Len(rs) = m + 1
       /\ rs[m + 1] = Piece(line)
       /\ \A k \in 1..m : rs[k] = ps[k]
  BY <1>9, <1>11, <1>12, AppendProperties, SMTT(30)
<1>14. \A k \in 1..(m + 1) : rs[k] = qs[k]
  <2> TAKE k \in 1..(m + 1)
  <2>1. CASE k = m + 1
    BY <1>11, <1>13, <2>1
  <2>2. CASE k \in 1..m
    BY <1>3, <1>6, <1>7, <1>13, <2>2
  <2> QED
    BY <2>1, <2>2
<1>15. rs = qs
  BY <1>10, <1>13, <1>14, SeqEqual
<1> QED
  BY <1>5, <1>12, <1>15, <1>4

\* Every behaviour of the disassembler is, its texts left out, a sweep over
\* words of two bytes: lines of at least one byte that is there, one after the
\* other, up to the end.
THEOREM SweepImplemented == Spec => Listing!Spec
<1>1. Init => Listing!Init
  <2> SUFFICES ASSUME Init PROVE Listing!Init
    OBVIOUS
  <2>1. code \in Seq(Byte) /\ origin \in Word16 /\ pos = 0 /\ out = <<>>
    BY CodesAreBytes, OriginsAreWords DEF Init
  <2>2. Pieces = <<>>
    BY <2>1 DEF Pieces
  <2> QED
    BY <2>1, <2>2 DEF Listing!Init
<1>2. TypeOK /\ [Next]_vars => [Listing!Next]_(Listing!vars)
  <2> SUFFICES ASSUME TypeOK, [Next]_vars PROVE [Listing!Next]_(Listing!vars)
    OBVIOUS
  <2>1. CASE EmitByte \/ EmitInstruction \/ EmitWord
    <3>1. PICK n, text : Pushes(n, text)
      BY <2>1, StepPushes
    <3>2. out \in Seq(Line) /\ pos \in Nat /\ Len(code) \in Nat
      BY LenProperties DEF TypeOK
    <3>3. /\ n \in 1..6 /\ pos + n <= Len(code)
          /\ out' = Append(out, Entry(n, text)) /\ pos' = pos + n /\ UNCHANGED <<code, origin>>
      BY <3>1 DEF Pushes
    <3>4. n \in 1..(Len(code) - pos)
      BY <3>2, <3>3
    <3>5. Pieces' = Append(Pieces, Piece(Entry(n, text)))
      BY <3>2, <3>3, PiecesOfAppend
    <3>6. Piece(Entry(n, text)) = Listing!LineAt(pos, n)
      <4>1. Addr = Listing!WrapAddress(origin + pos \div 2)
        BY DEF Addr, Wrap16, Listing!WrapAddress
      <4> QED
        BY <4>1 DEF Piece, Entry, Listing!LineAt
    <3>7. Listing!Emit
      BY <3>3, <3>4, <3>5, <3>6 DEF Listing!Emit
    <3> QED
      BY <3>7 DEF Listing!Next
  <2>2. CASE UNCHANGED vars
    <3>1. UNCHANGED <<code, origin, pos>> /\ Pieces' = Pieces
      BY <2>2 DEF vars, Pieces
    <3> QED
      BY <3>1 DEF Listing!vars
  <2> QED
    BY <2>1, <2>2 DEF Next, Return
<1> QED
  BY <1>1, <1>2, TypeCorrect, PTL DEF Spec, Listing!Spec

------------------------------------------------------------------------------
(* One instruction to a word *)

\* Where the opcodes of each class lie.
LEMMA OpcodesOfClasses ==
  ASSUME NEW class \in Classes, NEW mn \in DOMAIN INSTRUCTIONS[class]
  PROVE  /\ class = "Implied" => INSTRUCTIONS[class][mn] \in 0..7 \cup {52, 54}
         /\ class = "GetStatus" => INSTRUCTIONS[class][mn] = 48
         /\ class = "RegUnary" => INSTRUCTIONS[class][mn] \in 8..40 \cup {56}
         /\ class = "Shift" => INSTRUCTIONS[class][mn] \in 64..120
         /\ class = "RegReg" => INSTRUCTIONS[class][mn] \in 128..448
<1>1. CASE class = "Implied"
  BY <1>1, MnemonicsOfClasses DEF INSTRUCTIONS
<1>2. CASE class = "GetStatus"
  BY <1>2, MnemonicsOfClasses DEF INSTRUCTIONS
<1>3. CASE class = "RegUnary"
  BY <1>3, MnemonicsOfClasses DEF INSTRUCTIONS
<1>4. CASE class = "Shift"
  BY <1>4, MnemonicsOfClasses DEF INSTRUCTIONS
<1>5. CASE class = "RegReg"
  BY <1>5, MnemonicsOfClasses DEF INSTRUCTIONS
<1> QED
  BY <1>1, <1>2, <1>3, <1>4, <1>5 DEF Classes

\* No opcode of a class is listed twice.
LEMMA OpcodesDiffer ==
  ASSUME NEW class \in Classes, NEW m1 \in DOMAIN INSTRUCTIONS[class],
         NEW m2 \in DOMAIN INSTRUCTIONS[class], INSTRUCTIONS[class][m1] = INSTRUCTIONS[class][m2]
  PROVE  m1 = m2
<1>1. CASE class = "Implied"
  BY <1>1, MnemonicsOfClasses DEF INSTRUCTIONS
<1>2. CASE class = "GetStatus"
  BY <1>2, MnemonicsOfClasses DEF INSTRUCTIONS
<1>3. CASE class = "RegUnary"
  BY <1>3, MnemonicsOfClasses DEF INSTRUCTIONS
<1>4. CASE class = "Shift"
  BY <1>4, MnemonicsOfClasses DEF INSTRUCTIONS
<1>5. CASE class = "RegReg"
  BY <1>5, MnemonicsOfClasses DEF INSTRUCTIONS
<1> QED
  BY <1>1, <1>2, <1>3, <1>4, <1>5 DEF Classes

\* The words an instruction claims, class by class: no two ranges meet.
LEMMA WordsOfClasses ==
  ASSUME NEW w \in Nat, NEW class \in Classes, NEW v, v = w - (w % Fields(class)),
         NEW mn \in DOMAIN INSTRUCTIONS[class], INSTRUCTIONS[class][mn] = v
  PROVE  /\ class = "Implied" => w \in 0..7 \cup {52, 54}
         /\ class = "GetStatus" => w \in 48..51
         /\ class = "RegUnary" => w \in 8..47 \cup 56..63
         /\ class = "Shift" => w \in 64..127
         /\ class = "RegReg" => w \in 128..511
<1>1. CASE class = "Implied"
  <2>1. v \in 0..7 \cup {52, 54} /\ Fields(class) = 1
    BY <1>1, OpcodesOfClasses DEF Fields
  <2>2. w % 1 = 0
    OBVIOUS
  <2>3. v = w
    BY <2>1, <2>2
  <2> QED
    BY <1>1, <2>1, <2>3
<1>2. CASE class = "GetStatus"
  <2>1. v = 48 /\ Fields(class) = 4
    BY <1>2, OpcodesOfClasses DEF Fields
  <2>2. PICK r \in 0..3 : r = w % 4
    OBVIOUS
  <2>3. w = 48 + r
    BY <2>1, <2>2
  <2> QED
    BY <1>2, <2>3
<1>3. CASE class = "RegUnary"
  <2>1. v \in 8..40 \cup {56} /\ Fields(class) = 8
    BY <1>3, OpcodesOfClasses DEF Fields
  <2>2. PICK r \in 0..7 : r = w % 8
    OBVIOUS
  <2>3. w = v + r
    BY <2>1, <2>2
  <2>4. w \in 8..47 \cup 56..63
    BY <2>1, <2>3
  <2> QED
    BY <1>3, <2>4
<1>4. CASE class = "Shift"
  <2>1. v \in 64..120 /\ Fields(class) = 8
    BY <1>4, OpcodesOfClasses DEF Fields
  <2>2. PICK r \in 0..7 : r = w % 8
    OBVIOUS
  <2>3. w = v + r
    BY <2>1, <2>2
  <2> QED
    BY <1>4, <2>1, <2>3, SMTT(30)
<1>5. CASE class = "RegReg"
  <2>1. v \in 128..448 /\ Fields(class) = 64
    BY <1>5, OpcodesOfClasses DEF Fields
  <2>2. PICK r \in 0..63 : r = w % 64
    OBVIOUS
  <2>3. w = v + r
    BY <2>1, <2>2
  <2>4. w \in 128..511
    BY <2>1, <2>3
  <2> QED
    BY <1>5, <2>4
<1> QED
  BY <1>1, <1>2, <1>3, <1>4, <1>5 DEF Classes

\* A word belongs to one class, and there to one mnemonic.
LEMMA ClassOfWord ==
  ASSUME NEW w \in Nat, NEW c1 \in Classes, NEW c2 \in Classes,
         NEW m1 \in DOMAIN INSTRUCTIONS[c1], INSTRUCTIONS[c1][m1] = w - (w % Fields(c1)),
         NEW m2 \in DOMAIN INSTRUCTIONS[c2], INSTRUCTIONS[c2][m2] = w - (w % Fields(c2))
  PROVE  c1 = c2 /\ m1 = m2
<1>1. PICK v1, v2 : v1 = w - (w % Fields(c1)) /\ v2 = w - (w % Fields(c2))
  OBVIOUS
<1>2. /\ c1 = "Implied" => w \in 0..7 \cup {52, 54}
      /\ c1 = "GetStatus" => w \in 48..51
      /\ c1 = "RegUnary" => w \in 8..47 \cup 56..63
      /\ c1 = "Shift" => w \in 64..127
      /\ c1 = "RegReg" => w \in 128..511
  BY <1>1, WordsOfClasses
<1>3. /\ c2 = "Implied" => w \in 0..7 \cup {52, 54}
      /\ c2 = "GetStatus" => w \in 48..51
      /\ c2 = "RegUnary" => w \in 8..47 \cup 56..63
      /\ c2 = "Shift" => w \in 64..127
      /\ c2 = "RegReg" => w \in 128..511
  BY <1>1, WordsOfClasses
<1>4. c1 = c2
  BY <1>2, <1>3 DEF Classes
<1> QED
  BY <1>4, OpcodesDiffer

\* No class is tried twice.
LEMMA OrderDiffers ==
  ASSUME NEW j \in 1..5, NEW k \in 1..5, ORDER[j] = ORDER[k]
  PROVE  j = k
BY SMT DEF ORDER

\* A claimant is an instruction whose opcode the fixed bits of the word are.
LEMMA ClaimantShape ==
  ASSUME NEW w, NEW i \in Claimants(w)
  PROVE  \E k \in 1..5 : \E m \in DOMAIN INSTRUCTIONS[ORDER[k]] :
           /\ INSTRUCTIONS[ORDER[k]][m] = w - (w % Fields(ORDER[k]))
           /\ i = [rank |-> k, mnemonic |-> m]
BY ClassesInOrder, Zenon DEF Claimants

\* At most one instruction claims a word.
LEMMA OneClaim ==
  ASSUME NEW w \in Nat, NEW i \in Claimants(w), NEW j \in Claimants(w)
  PROVE  i = j
<1>1. PICK k1 \in 1..5 : \E m \in DOMAIN INSTRUCTIONS[ORDER[k1]] :
           /\ INSTRUCTIONS[ORDER[k1]][m] = w - (w % Fields(ORDER[k1]))
           /\ i = [rank |-> k1, mnemonic |-> m]
  BY ClaimantShape
<1>2. PICK k2 \in 1..5 : \E m \in DOMAIN INSTRUCTIONS[ORDER[k2]] :
           /\ INSTRUCTIONS[ORDER[k2]][m] = w - (w % Fields(ORDER[k2]))
           /\ j = [rank |-> k2, mnemonic |-> m]
  BY ClaimantShape
<1>3. PICK m1 \in DOMAIN INSTRUCTIONS[ORDER[k1]] :
           /\ INSTRUCTIONS[ORDER[k1]][m1] = w - (w % Fields(ORDER[k1]))
           /\ i = [rank |-> k1, mnemonic |-> m1]
  BY <1>1
<1>4. PICK m2 \in DOMAIN INSTRUCTIONS[ORDER[k2]] :
           /\ INSTRUCTIONS[ORDER[k2]][m2] = w - (w % Fields(ORDER[k2]))
           /\ j = [rank |-> k2, mnemonic |-> m2]
  BY <1>2
<1>5. ORDER[k1] \in Classes /\ ORDER[k2] \in Classes
  BY ClassesInOrder
<1>6. ORDER[k1] = ORDER[k2] /\ m1 = m2
  BY <1>3, <1>4, <1>5, ClassOfWord
<1>7. k1 = k2
  BY <1>6, OrderDiffers
<1> QED
  BY <1>3, <1>4, <1>6, <1>7

\* At every word the cursor comes to, the order in which decode tries the
\* classes decides nothing: at most one instruction of one class claims it.
THEOREM ClaimsAreDisjoint == Spec => []OneClaimant
<1>1. TypeOK => OneClaimant
  <2> SUFFICES ASSUME TypeOK, Present(code, pos, 1),
                      NEW i \in Claimants(WordAt(code, pos, 0) % 1024),
                      NEW j \in Claimants(WordAt(code, pos, 0) % 1024)
               PROVE  i = j
    BY DEF OneClaimant
  <2>1. code \in Seq(Byte) /\ pos \in Nat
    BY DEF TypeOK
  <2>2. PICK w \in Nat : w = WordAt(code, pos, 0)
    BY <2>1, WordIsNat
  <2>3. PICK v \in Nat : v = w % 1024
    OBVIOUS
  <2> QED
    BY <2>2, <2>3, OneClaim
<1> QED
  BY <1>1, TypeCorrect, PTL

==============================================================================
