------------------------- MODULE DisassemblersProofs -------------------------
(***************************************************************************)
(* Proofs about Disassemblers.  Whatever the CPU: the cursor stays within  *)
(* the buffer, the sweep is the one Sweep promises, and the rank of a row  *)
(* decides what the bytes read as.  Of the 6809: its second entry point    *)
(* and its timing tables agree with its listings.  Of the ten CPUs over    *)
(* byte tables: the assembler makes a line's bytes of its text.            *)
(***************************************************************************)
EXTENDS Disassemblers, WordLemmas, SequenceTheorems, FiniteSetTheorems, TLAPS

\* An interval's part has a number of elements.
LEMMA PartOfInterval ==
  ASSUME NEW n \in Nat, NEW T \in SUBSET (1..n)
  PROVE  Cardinality(T) \in Nat
<1>1. IsFiniteSet(1..n)
  BY FS_Interval
<1> QED
  BY <1>1, FS_Subset, FS_CardinalityType

\* What the decoder of each CPU reads lies within the buffer: the 6809's.
LEMMA Fits6809 ==
  ASSUME NEW c \in Seq(Byte), NEW p \in Nat, p < Len(c), NEW addr, NEW r \in Mos6809!Readings(c, p, addr)
  PROVE  r.length \in Nat /\ (r.length > 0 => p + r.length <= Len(c))
<1>1. PICK row \in Mos6809!Claims(c, p) : r = Mos6809!ReadingOf(row, c, p, addr)
  BY DEF Mos6809!Readings
<1>2. row \in Mos6809!SET6809
  <2>1. c[p + 1] \in Byte
    BY LenProperties, ElementOfSeq
  <2>2. row \in Mos6809!SET6809
    BY <2>1 DEF Mos6809!Claims, Mos6809!StartingWith, Mos6809!Byte, Byte
  <2> QED
    BY <2>2
<1>3. PICK o \in Nat : o = Len(row.opcode)
  BY <1>2, RowsOf6809, LenProperties
<1>4. PICK n \in Nat : n = Mos6809!OperandLen(row, c, p + o)
  <2>1. PICK e \in 0..2 : e = IF p + o < Len(c) THEN Mos6809!IndexedExtension(c[p + o + 1]) ELSE 0
    BY DEF Mos6809!IndexedExtension
  <2> QED
    BY <2>1 DEF Mos6809!OperandLen
<1>5. Mos6809!LengthOf(row, c, p) = o + n
  BY <1>3, <1>4 DEF Mos6809!LengthOf
<1>6. CASE Mos6809!Readable(row, c, p)
  <2>1. r.length = o + n
    BY <1>1, <1>5, <1>6 DEF Mos6809!ReadingOf, Mos6809!Reading
  <2>2. p + (o + n) <= Len(c)
    BY <1>5, <1>6 DEF Mos6809!Readable
  <2> QED
    BY <2>1, <2>2
<1>7. CASE ~Mos6809!Readable(row, c, p)
  <2>1. r = Mos6809!Refusal(0)
    BY <1>1, <1>7, Zenon DEF Mos6809!ReadingOf
  <2>2. r.length = 0
    BY <2>1 DEF Mos6809!Reading, Mos6809!Refusal, Mos6809!Text
  <2> QED
    BY <2>2
<1> QED
  BY <1>6, <1>7

\* The PDP-11's.
LEMMA FitsPdp11 ==
  ASSUME NEW c \in Seq(Byte), NEW p \in Nat, NEW addr, NEW r \in Pdp11!Readings(c, p, addr)
  PROVE  r.length \in Nat /\ (r.length > 0 => p + r.length <= Len(c))
<1>1. PICK row \in Pdp11!INSTRUCTIONS : r = Pdp11!ReadingOf(row, c, p, addr)
  BY DEF Pdp11!Readings, Pdp11!Claims
<1>2. PICK n \in Nat : n = Len(Pdp11!Fields(row))
  <2>1. PICK fs : fs = Pdp11!Fields(row)
    OBVIOUS
  <2>2. row.class \in DOMAIN Pdp11!FieldBits
    BY RowsOfPdp11
  <2>3. \/ fs = <<>>
        \/ \E a : fs = <<a>>
        \/ \E a, b : fs = <<a, b>>
    BY <2>1, <2>2 DEF Pdp11!Fields, Pdp11!FieldBits
  <2> QED
    BY <2>1, <2>3
<1>3. PICK e : e = Pdp11!Extensions(row, Pdp11!LittleWord(c, p), n)
  OBVIOUS
<1>4. e \in Nat
  <2>1. \A T : T \subseteq 1..n => Pdp11!Cardinality(T) \in Nat
    BY PartOfInterval DEF Pdp11!Cardinality, Cardinality
  <2> QED
    BY <1>3, <2>1, Zenon DEF Pdp11!Extensions
<1>5. \/ \E rank : r = Pdp11!Refusal(rank)
      \/ \E rank, text : r = Pdp11!Reading(rank, 2 + 2 * e, text) /\ ~(p + (2 + 2 * e) > Len(c))
  BY <1>1, <1>2, <1>3, Zenon DEF Pdp11!ReadingOf
<1>6. r.length = 0 \/ (r.length = 2 + 2 * e /\ ~(p + (2 + 2 * e) > Len(c)))
  <2>1. \A rank : Pdp11!Refusal(rank).length = 0
    BY DEF Pdp11!Reading, Pdp11!Refusal, Pdp11!Text
  <2>2. \A rank, text : Pdp11!Reading(rank, 2 + 2 * e, text).length = 2 + 2 * e
    BY DEF Pdp11!Reading
  <2> QED
    BY <1>5, <2>1, <2>2, Zenon
<1> QED
  BY <1>4, <1>6, LenProperties

\* The TMS9900's.
LEMMA FitsTms9900 ==
  ASSUME NEW c \in Seq(Byte), NEW p \in Nat, NEW addr, NEW r \in Tms9900!Readings(c, p, addr)
  PROVE  r.length \in Nat /\ (r.length > 0 => p + r.length <= Len(c))
<1>1. PICK row \in Tms9900!INSTRUCTIONS : r = Tms9900!ReadingOf(row, c, p, addr)
  BY DEF Tms9900!Readings, Tms9900!Claims
<1>2. PICK n \in Nat : n = Len(Tms9900!Fields[row.class])
  <2>1. PICK fs : fs = Tms9900!Fields[row.class]
    OBVIOUS
  <2>2. row.class \in DOMAIN Tms9900!FieldBits
    BY RowsOfTms9900
  <2>3. \/ fs = <<>>
        \/ \E a : fs = <<a>>
        \/ \E a, b : fs = <<a, b>>
    BY <2>1, <2>2 DEF Tms9900!Fields, Tms9900!FieldBits
  <2> QED
    BY <2>1, <2>3
<1>3. PICK e : e = Tms9900!Extensions(row.class, Tms9900!BigWord(c, p), n)
  OBVIOUS
<1>4. e \in Nat
  <2>1. \A T : T \subseteq 1..n => Tms9900!Cardinality(T) \in Nat
    BY PartOfInterval DEF Tms9900!Cardinality, Cardinality
  <2> QED
    BY <1>3, <2>1, Zenon DEF Tms9900!Extensions
<1>5. \/ \E rank : r = Tms9900!Refusal(rank)
      \/ \E rank, text : r = Tms9900!Reading(rank, 2 + 2 * e, text) /\ ~(p + (2 + 2 * e) > Len(c))
  BY <1>1, <1>2, <1>3, Zenon DEF Tms9900!ReadingOf
<1>6. r.length = 0 \/ (r.length = 2 + 2 * e /\ ~(p + (2 + 2 * e) > Len(c)))
  <2>1. \A rank : Tms9900!Refusal(rank).length = 0
    BY DEF Tms9900!Reading, Tms9900!Refusal, Tms9900!Text
  <2>2. \A rank, text : Tms9900!Reading(rank, 2 + 2 * e, text).length = 2 + 2 * e
    BY DEF Tms9900!Reading
  <2> QED
    BY <1>5, <2>1, <2>2, Zenon
<1> QED
  BY <1>4, <1>6, LenProperties

\* The Z8000's.
LEMMA FitsZ8000 ==
  ASSUME NEW c \in Seq(Byte), NEW p \in Nat, p + 2 <= Len(c), NEW addr, NEW seg \in BOOLEAN,
         NEW r \in Z8000!Readings(c, p, addr, seg)
  PROVE  r.length \in Nat /\ (r.length > 0 => p + r.length <= Len(c))
<1>1. c[p + 1] \in Byte
  BY LenProperties, ElementOfSeq
<1>2. PICK row \in Z8000!StartingWith[seg][c[p + 1]] :
        /\ p + Z8000!Length(row, seg) <= Len(c)
        /\ r.length = Z8000!Length(row, seg)
  <2>1. PICK row \in Z8000!Claims(c, p, seg) : r = Z8000!ReadingOf(row, c, p, addr, seg)
    BY DEF Z8000!Readings
  <2>2. \E text : r = Z8000!Reading(row.rank, Z8000!Length(row, seg), text)
    BY <2>1, Zenon DEF Z8000!ReadingOf
  <2>3. r.length = Z8000!Length(row, seg)
    BY <2>2 DEF Z8000!Reading
  <2> QED
    BY <2>1, <2>3 DEF Z8000!Claims
<1>3. row \in Z8000!Rows[seg]
  BY <1>1, <1>2 DEF Z8000!StartingWith, Z8000!Byte, Byte
<1> QED
  BY <1>2, <1>3, RowsOfZ8000

\* Those of the CPUs with byte tables.
LEMMA FitsByteCpus ==
  ASSUME NEW c \in Seq(Byte), NEW p \in Nat, p < Len(c), NEW addr, NEW chip \in Bytes!CPUS,
         NEW r \in Bytes!Readings(chip, c, p, addr)
  PROVE  r.length \in Nat /\ (r.length > 0 => p + r.length <= Len(c))
<1>1. c[p + 1] \in Byte
  BY LenProperties, ElementOfSeq
<1>2. PICK row \in Bytes!Claims(chip, c, p) : r = Bytes!ReadingOf(row, c, p, addr)
  BY DEF Bytes!Readings
<1>3. row \in Bytes!Tables[chip]
  BY <1>1, <1>2 DEF Bytes!Claims, Bytes!StartingWith, Bytes!Byte, Byte
<1>4. PICK o \in Nat : o = Len(row.opcode)
  BY <1>3, RowsOfByteCpus, LenProperties
<1>5. PICK n \in Nat : n = Len(row.slots)
  BY <1>3, RowsOfByteCpus, LenProperties
<1>6. PICK T \in SUBSET (1..n) : T = {s \in 1..n : row.slots[s] \in Bytes!Wide}
  OBVIOUS
<1>7. Bytes!Cardinality(T) \in Nat
  BY PartOfInterval DEF Bytes!Cardinality, Cardinality
<1>8. PICK l \in Nat : l = Bytes!RowLen(row)
  <2>1. Bytes!RowLen(row) = o + (n + Bytes!Cardinality(T))
    BY <1>4, <1>5, <1>6, <1>7, Zenon DEF Bytes!RowLen, Bytes!Before
  <2> QED
    BY <1>7, <2>1
<1>9. \/ \E rank, text : r = Bytes!Reading(rank, 0, text)
      \/ \E rank, text : r = Bytes!Reading(rank, l, text) /\ ~(p + l > Len(c))
  BY <1>2, <1>8, Zenon DEF Bytes!ReadingOf
<1>10. r.length = 0 \/ (r.length = l /\ ~(p + l > Len(c)))
  <2>1. \A rank, text : Bytes!Reading(rank, 0, text).length = 0
    BY DEF Bytes!Reading
  <2>2. \A rank, text : Bytes!Reading(rank, l, text).length = l
    BY DEF Bytes!Reading
  <2> QED
    BY <1>9, <2>1, <2>2, Zenon
<1> QED
  BY <1>8, <1>10, LenProperties

------------------------------------------------------------------------------
(* One iteration of the loop *)

\* What the decoder finds at the cursor lies within the buffer.
LEMMA FoundFits ==
  ASSUME TypeOK, pos + Unit <= Len(code), NEW r \in Found
  PROVE  r.length \in Nat /\ (r.length > 0 => pos + r.length <= Len(code))
<1>1. code \in Seq(Byte) /\ pos \in Nat /\ cpu \in DOMAIN Codes
  BY CodesAreBytes DEF TypeOK
<1>2. PICK l \in Nat : l = Len(code)
  BY <1>1, LenProperties
<1>3. PICK a : a = AddrAt(pos)
  OBVIOUS
<1>4. r \in Readings(code, pos, a)
  BY <1>3 DEF Found, First
<1>5. pos < Len(code)
  BY <1>1, <1>2 DEF Unit
<1>6. CASE cpu = "6809"
  <2>1. r \in Mos6809!Readings(code, pos, a)
    BY <1>4, <1>6 DEF Readings, Z8000s
  <2> QED
    BY <1>1, <1>5, <2>1, Fits6809
<1>7. CASE cpu = "pdp11"
  <2>1. r \in Pdp11!Readings(code, pos, a)
    BY <1>4, <1>7 DEF Readings, Z8000s
  <2> QED
    BY <1>1, <2>1, FitsPdp11
<1>8. CASE cpu = "tms9900"
  <2>1. r \in Tms9900!Readings(code, pos, a)
    BY <1>4, <1>8 DEF Readings, Z8000s
  <2> QED
    BY <1>1, <2>1, FitsTms9900
<1>9. CASE cpu \in Z8000s
  <2>1. r \in Z8000!Readings(code, pos, a, cpu = "z8001")
    BY <1>4, <1>9 DEF Readings, Z8000s
  <2>2. PICK seg \in BOOLEAN : seg = (cpu = "z8001")
    OBVIOUS
  <2>3. pos + 2 <= Len(code)
    BY <1>9 DEF Unit
  <2> QED
    BY <1>1, <2>1, <2>2, <2>3, FitsZ8000
<1>10. CASE cpu \notin {"6809", "pdp11", "tms9900"} \cup Z8000s
  <2>1. r \in Bytes!Readings(cpu, code, pos, a)
    BY <1>4, <1>10 DEF Readings
  <2>2. cpu \in Bytes!CPUS
    BY <1>1, <1>10, CpusAreKnown
  <2> QED
    BY <1>1, <1>5, <2>1, <2>2, FitsByteCpus
<1> QED
  BY <1>6, <1>7, <1>8, <1>9, <1>10

\* Each step but the return pushes one line for bytes that are there.
Pushes(n, kind, text) ==
  /\ n \in Nat /\ n >= 1 /\ pos + n <= Len(code)
  /\ kind \in {"instruction", "data"}
  /\ Push(n, kind, text)

\* They do.
LEMMA StepPushes ==
  ASSUME TypeOK, EmitInstruction \/ EmitData \/ EmitByte
  PROVE  \E n, kind, text : Pushes(n, kind, text)
<1>1. PICK p \in Nat : p = pos
  BY DEF TypeOK
<1>2. PICK l \in Nat : l = Len(code)
  BY CodesAreBytes, LenProperties DEF TypeOK
<1>3. CASE EmitInstruction
  <2>1. PICK r \in {r \in Found : r.length > 0} : Push(r.length, "instruction", r.text)
    BY <1>3 DEF EmitInstruction
  <2>2. r.length \in Nat /\ pos + r.length <= Len(code)
    BY <1>3, <2>1, FoundFits DEF EmitInstruction
  <2>3. r.length >= 1
    BY <2>1, <2>2
  <2> QED
    BY <2>1, <2>2, <2>3, Zenon DEF Pushes
<1>4. CASE EmitData
  <2>1. PICK text : Push(Unit, "data", text)
    BY <1>4, Zenon DEF EmitData
  <2>2. Unit \in Nat /\ Unit >= 1 /\ pos + Unit <= Len(code)
    BY <1>4 DEF EmitData, Unit
  <2> QED
    BY <2>1, <2>2, Zenon DEF Pushes
<1>5. CASE EmitByte
  <2>1. PICK text : Push(1, "data", text)
    BY <1>5, Zenon DEF EmitByte
  <2>2. 1 \in Nat /\ 1 >= 1 /\ pos + 1 <= Len(code)
    BY <1>1, <1>2, <1>5 DEF EmitByte
  <2> QED
    BY <2>1, <2>2, Zenon DEF Pushes
<1> QED
  BY <1>3, <1>4, <1>5, Zenon

\* How many lines there are, and that they are a sequence.
LEMMA LinesAreSequence ==
  ASSUME TypeOK
  PROVE  \E m \in Nat : \E S : m <= pos /\ m = Len(out) /\ DOMAIN out = 1..m /\ out \in Seq(S)
<1>1. PICK m \in 0..pos : out = [k \in 1..m |-> out[k]]
  BY DEF TypeOK
<1>2. m \in Nat /\ m <= pos
  BY DEF TypeOK
<1>3. PICK S : S = {out[k] : k \in 1..m}
  OBVIOUS
<1>4. out \in [1..m -> S]
  BY <1>1, <1>3
<1>5. out \in Seq(S) /\ DOMAIN out = 1..m
  BY <1>2, <1>4, SeqDef
<1>6. Len(out) = m
  BY <1>2, <1>5, LenProperties
<1> QED
  BY <1>2, <1>5, <1>6

\* The line a step pushes, as the listing then has it.
LEMMA LinePushed ==
  ASSUME TypeOK, NEW n, NEW kind, NEW text, Pushes(n, kind, text)
  PROVE  \E m \in Nat :
           /\ m <= pos /\ m = Len(out) /\ DOMAIN out = 1..m
           /\ out' = [k \in 1..(m + 1) |-> out'[k]]
           /\ out'[m + 1] = LineAt(n, kind, text)
           /\ \A k \in 1..m : out'[k] = out[k]
<1>1. PICK line : line = LineAt(n, kind, text)
  OBVIOUS
<1>2. PICK m \in Nat : \E S : m <= pos /\ m = Len(out) /\ DOMAIN out = 1..m /\ out \in Seq(S)
  BY LinesAreSequence
<1>3. PICK S : m <= pos /\ m = Len(out) /\ DOMAIN out = 1..m /\ out \in Seq(S)
  BY <1>2
<1>4. PICK T : T = S \cup {line}
  OBVIOUS
<1>5. out \in Seq(T) /\ line \in T
  BY <1>3, <1>4
<1>6. out' = Append(out, line)
  BY <1>1 DEF Pushes, Push
<1>7. /\ out' \in Seq(T) /\ DOMAIN out' = 1..(m + 1)
      /\ out'[m + 1] = line /\ \A k \in 1..m : out'[k] = out[k]
  BY <1>3, <1>5, <1>6, AppendProperties, LenProperties, SMTT(30)
<1> QED
  BY <1>1, <1>3, <1>7

\* The line is one.
LEMMA LineTyped ==
  ASSUME TypeOK, NEW n, NEW kind, NEW text, Pushes(n, kind, text),
         NEW line, line = LineAt(n, kind, text)
  PROVE  /\ line.at \in Nat /\ line.addr \in Word16 /\ line.bytes \in Seq(Byte)
         /\ line.kind \in {"instruction", "data"}
<1>1. code \in Seq(Byte) /\ pos \in Nat /\ origin \in Int
  BY CodesAreBytes, OriginsAreWords, WordIsInt DEF TypeOK
<1>2. n \in Nat /\ n >= 1 /\ pos + n <= Len(code) /\ kind \in {"instruction", "data"}
  BY DEF Pushes
<1>3. PICK l \in Nat : l = Len(code)
  BY <1>1, LenProperties
<1>4. SubSeq(code, pos + 1, pos + n) \in Seq(Byte)
  <2>1. \A k \in pos + 1 .. pos + n : code[k] \in Byte
    BY <1>1, <1>2, <1>3, ElementOfSeq
  <2> QED
    BY <1>1, <1>2, <2>1, SubSeqProperties, SMTT(30)
<1>5. AddrAt(pos) \in Word16
  BY <1>1, WrapIsWord DEF AddrAt
<1> QED
  BY <1>1, <1>2, <1>4, <1>5 DEF LineAt

\* Every state has the types the code gives its variables, for whatever CPU:
\* the cursor never leaves the buffer, every address is a u16.
THEOREM TypeCorrect == Spec => []TypeOK
<1>1. Init => TypeOK
  <2> SUFFICES ASSUME Init PROVE TypeOK
    OBVIOUS
  <2>1. code \in Seq(Byte) /\ pos = 0 /\ out = <<>>
    BY CodesAreBytes DEF Init
  <2>2. pos \in 0..Len(code)
    BY <2>1, LenProperties
  <2>3. out = [k \in 1..0 |-> out[k]] /\ DOMAIN out = {}
    BY <2>1
  <2> QED
    BY <2>2, <2>3 DEF Init, TypeOK
<1>2. TypeOK /\ [Next]_vars => TypeOK'
  <2> SUFFICES ASSUME TypeOK, [Next]_vars PROVE TypeOK'
    OBVIOUS
  <2>1. CASE EmitInstruction \/ EmitData \/ EmitByte
    <3>1. PICK n, kind, text : Pushes(n, kind, text)
      BY <2>1, StepPushes
    <3>2. /\ n \in Nat /\ n >= 1 /\ pos + n <= Len(code)
          /\ pos' = pos + n /\ UNCHANGED <<cpu, code, origin>>
      BY <3>1 DEF Pushes, Push
    <3>3. PICK l \in Nat : l = Len(code)
      BY CodesAreBytes, LenProperties DEF TypeOK
    <3>4. PICK p \in Nat : p = pos
      BY DEF TypeOK
    <3>5. pos' \in 0..Len(code')
      BY <3>2, <3>3, <3>4
    <3>6. PICK m \in Nat :
            /\ m <= pos /\ m = Len(out) /\ DOMAIN out = 1..m
            /\ out' = [k \in 1..(m + 1) |-> out'[k]]
            /\ out'[m + 1] = LineAt(n, kind, text)
            /\ \A k \in 1..m : out'[k] = out[k]
      BY <3>1, LinePushed
    <3>7. m + 1 \in 0..pos'
      BY <3>2, <3>4, <3>6
    <3>8. ASSUME NEW k \in DOMAIN out'
          PROVE  /\ out'[k].at \in Nat /\ out'[k].addr \in Word16 /\ out'[k].bytes \in Seq(Byte)
                 /\ out'[k].kind \in {"instruction", "data"}
      <4>1. DOMAIN out' = 1..(m + 1)
        BY <3>6
      <4>2. CASE k = m + 1
        BY <3>1, <3>6, <4>2, LineTyped
      <4>3. CASE k \in 1..m
        BY <3>6, <4>3 DEF TypeOK
      <4> QED
        BY <4>1, <4>2, <4>3
    <3> QED
      BY <3>2, <3>5, <3>6, <3>7, <3>8 DEF TypeOK
  <2>2. CASE UNCHANGED vars
    BY <2>2 DEF TypeOK, vars
  <2> QED
    BY <2>1, <2>2 DEF Next, Return
<1> QED
  BY <1>1, <1>2, PTL DEF Spec

------------------------------------------------------------------------------
(* The disassemblers implement the sweep *)

\* A line without its text.
Piece(line) == [at |-> line.at, addr |-> line.addr, bytes |-> line.bytes]

\* A step appends its line's piece.
LEMMA PiecesOfPush ==
  ASSUME TypeOK, NEW n, NEW kind, NEW text, Pushes(n, kind, text)
  PROVE  Pieces' = Append(Pieces, Piece(LineAt(n, kind, text)))
<1>1. PICK line : line = LineAt(n, kind, text)
  OBVIOUS
<1>2. PICK m \in Nat :
        /\ m <= pos /\ m = Len(out) /\ DOMAIN out = 1..m
        /\ out' = [k \in 1..(m + 1) |-> out'[k]]
        /\ out'[m + 1] = LineAt(n, kind, text)
        /\ \A k \in 1..m : out'[k] = out[k]
  BY LinePushed
<1>3. /\ DOMAIN out = 1..m /\ DOMAIN out' = 1..(m + 1)
      /\ out'[m + 1] = line
      /\ \A k \in 1..m : out'[k] = out[k]
  BY <1>1, <1>2
<1>4. PICK ps : ps = Pieces
  OBVIOUS
<1>5. PICK qs : qs = Pieces'
  OBVIOUS
<1>6. ps = [k \in 1..m |-> Piece(out[k])]
  BY <1>3, <1>4 DEF Pieces, Piece
<1>7. qs = [k \in 1..(m + 1) |-> Piece(out'[k])]
  BY <1>3, <1>5 DEF Pieces, Piece
<1>8. DEFINE T == {ps[k] : k \in 1..m} \cup {qs[k] : k \in 1..(m + 1)}
<1>9. ps \in Seq(T) /\ Len(ps) = m
  <2>1. ps \in [1..m -> T]
    BY <1>6
  <2> HIDE DEF T
  <2> QED
    BY <2>1, SeqDef, LenProperties
<1>10. qs \in Seq(T) /\ Len(qs) = m + 1
  <2>1. qs \in [1..(m + 1) -> T]
    BY <1>7
  <2> HIDE DEF T
  <2> QED
    BY <2>1, SeqDef, LenProperties
<1>11. Piece(line) = qs[m + 1] /\ qs[m + 1] \in T
  <2>1. m + 1 \in 1..(m + 1)
    OBVIOUS
  <2>2. qs[m + 1] = Piece(out'[m + 1])
    BY <1>7, <2>1
  <2>3. qs[m + 1] \in {qs[k] : k \in 1..(m + 1)}
    BY <2>1
  <2> QED
    BY <1>3, <2>2, <2>3
<1> HIDE DEF T
<1>12. PICK rs : rs = Append(ps, Piece(line))
  OBVIOUS
<1>13. /\ rs \in Seq(T) /\ Len(rs) = m + 1
       /\ rs[m + 1] = Piece(line)
       /\ \A k \in 1..m : rs[k] = ps[k]
  BY <1>9, <1>11, <1>12, AppendProperties, SMTT(30)
<1>14. \A k \in 1..(m + 1) : rs[k] = qs[k]
  <2> TAKE k \in 1..(m + 1)
  <2>1. CASE k = m + 1
    BY <1>11, <1>13, <2>1
  <2>2. CASE k \in 1..m
    BY <1>3, <1>6, <1>7, <1>13, <2>2
  <2> QED
    BY <2>1, <2>2
<1>15. rs = qs
  BY <1>10, <1>13, <1>14, SeqEqual
<1> QED
  BY <1>1, <1>4, <1>5, <1>12, <1>15

\* Every behaviour of each CPU's function is, its texts left out, a sweep:
\* the bytes are listed once, in order, an odd one at the end too.
THEOREM SweepImplemented == Spec => Listing!Spec
<1>1. Init => Listing!Init
  <2> SUFFICES ASSUME Init PROVE Listing!Init
    OBVIOUS
  <2>1. code \in Seq(Byte) /\ origin \in Word16 /\ pos = 0 /\ out = <<>>
    BY CodesAreBytes, OriginsAreWords DEF Init
  <2>2. Pieces = <<>>
    BY <2>1 DEF Pieces
  <2> QED
    BY <2>1, <2>2 DEF Listing!Init
<1>2. TypeOK /\ [Next]_vars => [Listing!Next]_(Listing!vars)
  <2> SUFFICES ASSUME TypeOK, [Next]_vars PROVE [Listing!Next]_(Listing!vars)
    OBVIOUS
  <2>1. CASE EmitInstruction \/ EmitData \/ EmitByte
    <3>1. PICK n, kind, text : Pushes(n, kind, text)
      BY <2>1, StepPushes
    <3>2. /\ n \in Nat /\ n >= 1 /\ pos + n <= Len(code)
          /\ pos' = pos + n /\ UNCHANGED <<code, origin>>
      BY <3>1 DEF Pushes, Push
    <3>3. n \in 1..(Len(code) - pos)
      <4>1. PICK l \in Nat : l = Len(code)
        BY CodesAreBytes, LenProperties DEF TypeOK
      <4> QED
        BY <3>2, <4>1 DEF TypeOK
    <3>4. Pieces' = Append(Pieces, Piece(LineAt(n, kind, text)))
      BY <3>1, PiecesOfPush
    <3>5. Piece(LineAt(n, kind, text)) = Listing!LineAt(pos, n)
      <4>1. pos \in Nat /\ origin \in Int
        BY OriginsAreWords, WordIsInt DEF TypeOK
      <4>2. origin + pos \div 1 = origin + pos
        BY <4>1
      <4>3. AddrAt(pos) = Listing!WrapAddress(origin + pos \div 1)
        BY <4>2 DEF AddrAt, Wrap16, Listing!WrapAddress
      <4> QED
        BY <4>3 DEF Piece, LineAt, Listing!LineAt
    <3>6. Listing!Emit
      BY <3>2, <3>3, <3>4, <3>5 DEF Listing!Emit
    <3> QED
      BY <3>6 DEF Listing!Next
  <2>2. CASE UNCHANGED vars
    <3>1. UNCHANGED <<code, origin, pos>> /\ Pieces' = Pieces
      BY <2>2 DEF vars, Pieces
    <3> QED
      BY <3>1 DEF Listing!vars
  <2> QED
    BY <2>1, <2>2 DEF Next, Return
<1> QED
  BY <1>1, <1>2, TypeCorrect, PTL DEF Spec, Listing!Spec

------------------------------------------------------------------------------
(* Two buffers that agree *)

\* The n bytes at offset p of one buffer are those at offset q of another.
SameBytes(c, p, d, q, n) ==
  /\ c \in Seq(Byte) /\ d \in Seq(Byte) /\ p \in Nat /\ q \in Nat /\ n \in Nat
  /\ p + n <= Len(c) /\ q + n <= Len(d)
  /\ \A k \in 1..n : c[p + k] = d[q + k]

\* They are the same the other way round.
LEMMA SameBack ==
  ASSUME NEW c, NEW p, NEW d, NEW q, NEW n, SameBytes(c, p, d, q, n)
  PROVE  SameBytes(d, q, c, p, n)
BY DEF SameBytes

\* A slice's elements are those of the sequence.
LEMMA SubSeqAt ==
  ASSUME NEW c \in Seq(Byte), NEW p \in Nat, NEW m \in Nat, p + m <= Len(c), NEW k \in 1..m
  PROVE  SubSeq(c, p + 1, p + m)[k] = c[p + k]
<1>1. \A j \in p + 1 .. p + m : c[j] \in Byte
  BY LenProperties, ElementOfSeq
<1>2. SubSeq(c, p + 1, p + m)[k] = c[(p + 1) + k - 1]
  BY <1>1, SubSeqProperties, SMTT(30)
<1>3. (p + 1) + k - 1 = p + k
  OBVIOUS
<1> QED
  BY <1>2, <1>3

\* The front of a slice is a slice.
LEMMA FrontOfSlice ==
  ASSUME NEW c \in Seq(Byte), NEW p \in Nat, NEW o \in Nat, NEW m \in Nat, o <= m, p + m <= Len(c)
  PROVE  SubSeq(c, p + 1, p + o) = SubSeq(SubSeq(c, p + 1, p + m), 1, o)
<1>1. PICK x \in Nat : x = Len(c) /\ p + m <= x /\ p + o <= x
  BY LenProperties
<1>2. PICK a : a = SubSeq(c, p + 1, p + o)
  OBVIOUS
<1>3. PICK b : b = SubSeq(c, p + 1, p + m)
  OBVIOUS
<1>4. PICK s : s = SubSeq(b, 0 + 1, 0 + o)
  OBVIOUS
<1>5. a \in Seq(Byte) /\ Len(a) = o
  BY <1>1, <1>2, BytesCounted
<1>6. b \in Seq(Byte) /\ Len(b) = m
  BY <1>1, <1>3, BytesCounted
<1>7. s \in Seq(Byte) /\ Len(s) = o
  <2>1. 0 + o <= Len(b)
    BY <1>6
  <2> QED
    BY <1>4, <1>6, <2>1, BytesCounted
<1>8. ASSUME NEW k \in 1..o PROVE a[k] = s[k]
  <2>1. a[k] = c[p + k]
    BY <1>1, <1>2, SubSeqAt
  <2>2. s[k] = b[0 + k]
    <3>1. 0 + o <= Len(b)
      BY <1>6
    <3> QED
      BY <1>4, <1>6, <3>1, SubSeqAt
  <2>3. k \in 1..m /\ 0 + k = k
    OBVIOUS
  <2>4. b[k] = c[p + k]
    BY <1>1, <1>3, <2>3, SubSeqAt
  <2> QED
    BY <2>1, <2>2, <2>3, <2>4
<1>9. a = s
  BY <1>5, <1>7, <1>8, SeqEqual
<1>10. 0 + 1 = 1 /\ 0 + o = o
  OBVIOUS
<1> QED
  BY <1>2, <1>3, <1>4, <1>9, <1>10, Zenon

\* A slice of those bytes is the same slice.
LEMMA SameSlices ==
  ASSUME NEW c, NEW p \in Nat, NEW d, NEW q \in Nat, NEW n \in Nat, SameBytes(c, p, d, q, n),
         NEW m \in Nat, m <= n
  PROVE  SubSeq(c, p + 1, p + m) = SubSeq(d, q + 1, q + m)
<1>1. /\ c \in Seq(Byte) /\ d \in Seq(Byte) /\ p \in Nat /\ q \in Nat /\ n \in Nat
      /\ p + n <= Len(c) /\ q + n <= Len(d) /\ \A k \in 1..n : c[p + k] = d[q + k]
  BY DEF SameBytes
<1>2. p + m <= Len(c) /\ q + m <= Len(d)
  <2>1. PICK x \in Nat, y \in Nat : x = Len(c) /\ y = Len(d)
    BY <1>1, LenProperties
  <2> QED
    BY <1>1, <2>1
<1>3. PICK x : x = SubSeq(c, p + 1, p + m)
  OBVIOUS
<1>4. PICK y : y = SubSeq(d, q + 1, q + m)
  OBVIOUS
<1>5. x \in Seq(Byte) /\ Len(x) = m
  BY <1>1, <1>2, <1>3, BytesCounted
<1>6. y \in Seq(Byte) /\ Len(y) = m
  BY <1>1, <1>2, <1>4, BytesCounted
<1>7. ASSUME NEW k \in 1..m PROVE x[k] = y[k]
  <2>1. x[k] = c[p + k]
    BY <1>1, <1>2, <1>3, <1>5, SubSeqAt
  <2>2. y[k] = d[q + k]
    BY <1>1, <1>2, <1>4, <1>6, SubSeqAt
  <2>3. k \in 1..n
    BY <1>1
  <2> QED
    BY <1>1, <2>1, <2>2, <2>3
<1> QED
  BY <1>3, <1>4, <1>5, <1>6, <1>7, SeqEqual

------------------------------------------------------------------------------
(* What the 6809's decoder looks at *)

\* Its rows, and the lengths of their operands.
LEMMA ClaimIsRow ==
  ASSUME NEW c \in Seq(Byte), NEW p \in Nat, p < Len(c), NEW row \in Mos6809!Claims(c, p)
  PROVE  /\ row \in Mos6809!SET6809 \ Mos6809!Undocumented6809
         /\ row.opcode \in Seq(Byte) /\ Len(row.opcode) \in 1..2
         /\ p + Len(row.opcode) <= Len(c)
         /\ row.opcode = SubSeq(c, p + 1, p + Len(row.opcode))
         /\ row.opcode[1] = c[p + 1]
<1>1. c[p + 1] \in Byte
  BY LenProperties, ElementOfSeq
<1>2. row \in Mos6809!SET6809 \ Mos6809!Undocumented6809 /\ row.opcode[1] = c[p + 1]
  BY <1>1 DEF Mos6809!Claims, Mos6809!StartingWith, Mos6809!Byte, Byte
<1>3. p + Len(row.opcode) <= Len(c) /\ row.opcode = SubSeq(c, p + 1, p + Len(row.opcode))
  BY DEF Mos6809!Claims
<1> QED
  BY <1>2, <1>3, RowsOf6809

\* A row whose opcode is there claims it.
LEMMA RowClaims ==
  ASSUME NEW c \in Seq(Byte), NEW p \in Nat, p < Len(c),
         NEW row \in Mos6809!SET6809 \ Mos6809!Undocumented6809,
         row.opcode[1] = c[p + 1], p + Len(row.opcode) <= Len(c),
         row.opcode = SubSeq(c, p + 1, p + Len(row.opcode))
  PROVE  row \in Mos6809!Claims(c, p)
<1>1. c[p + 1] \in Byte
  BY LenProperties, ElementOfSeq
<1> QED
  BY <1>1 DEF Mos6809!Claims, Mos6809!StartingWith, Mos6809!Byte, Byte

\* It claims the same bytes elsewhere.
LEMMA ClaimsToo ==
  ASSUME NEW c, NEW p \in Nat, NEW d, NEW q \in Nat, NEW n \in Nat, SameBytes(c, p, d, q, n),
         p < Len(c), NEW row \in Mos6809!Claims(c, p), Len(row.opcode) <= n
  PROVE  row \in Mos6809!Claims(d, q)
<1>1. /\ c \in Seq(Byte) /\ d \in Seq(Byte)
      /\ p + n <= Len(c) /\ q + n <= Len(d) /\ \A k \in 1..n : c[p + k] = d[q + k]
  BY DEF SameBytes
<1>2. PICK y \in Nat : y = Len(d)
  BY <1>1, LenProperties
<1>3. PICK o \in 1..2 : o = Len(row.opcode)
  BY <1>1, ClaimIsRow
<1>4. /\ row \in Mos6809!SET6809 \ Mos6809!Undocumented6809
      /\ row.opcode = SubSeq(c, p + 1, p + o) /\ row.opcode[1] = c[p + 1]
  BY <1>1, <1>3, ClaimIsRow
<1>5. o \in Nat /\ o <= n
  BY <1>3
<1>6. SubSeq(c, p + 1, p + o) = SubSeq(d, q + 1, q + o)
  BY <1>5, SameSlices
<1>7. row.opcode[1] = d[q + 1]
  BY <1>1, <1>3, <1>4, <1>5
<1>8. q + o <= y /\ q < y
  <2>1. q + n <= y
    BY <1>1, <1>2
  <2> QED
    BY <1>3, <1>5, <2>1
<1> QED
  BY <1>1, <1>2, <1>3, <1>4, <1>6, <1>7, <1>8, RowClaims

\* The bytes behind the opcode that an instruction takes: how long the rest is
\* depends on its first byte alone.
LEMMA OperandTaken ==
  ASSUME NEW row, NEW c, NEW q,
         row.shape \in {"inherent", "imm8", "imm16", "direct", "extended", "indexed", "short", "long",
                        "transfer", "stack"}
  PROVE  /\ row.shape = "inherent" => Mos6809!OperandLen(row, c, q) = 0
         /\ row.shape \in {"imm16", "extended", "long"} => Mos6809!OperandLen(row, c, q) = 2
         /\ row.shape \in {"imm8", "direct", "short", "transfer", "stack"}
              => Mos6809!OperandLen(row, c, q) = 1
         /\ row.shape = "indexed" => Mos6809!OperandLen(row, c, q) =
              1 + (IF q < Len(c) THEN Mos6809!IndexedExtension(c[q + 1]) ELSE 0)
<1>1. row.shape = "inherent" => Mos6809!OperandLen(row, c, q) = 0
  BY DEF Mos6809!OperandLen
<1>2. row.shape \in {"imm16", "extended", "long"} => Mos6809!OperandLen(row, c, q) = 2
  BY DEF Mos6809!OperandLen
<1>3. row.shape \in {"imm8", "direct", "short", "transfer", "stack"}
        => Mos6809!OperandLen(row, c, q) = 1
  BY DEF Mos6809!OperandLen
<1>4. row.shape = "indexed" => Mos6809!OperandLen(row, c, q) =
        1 + (IF q < Len(c) THEN Mos6809!IndexedExtension(c[q + 1]) ELSE 0)
  BY DEF Mos6809!OperandLen
<1> QED
  BY <1>1, <1>2, <1>3, <1>4

\* What the decoder makes of an indexed operand, from the postbyte and the
\* offset behind it.
IndexedOf(post, offset, next) ==
  LET r == (post \div 32) % 4
      mode == post % 16
  IN  CASE post < 128 ->
             Mos6809!Shown("n,r", "", FALSE, <<(IF post % 32 >= 16 THEN (post % 32) - 32 ELSE post % 32), r>>)
        [] post >= 128 /\ mode \in {8, 9} ->
             Mos6809!Shown("n,r", Mos6809!OffsetForce(post, offset), Mos6809!Indirect(post), <<offset, r>>)
        [] post >= 128 /\ mode \in {12, 13} ->
             Mos6809!Shown("n,pcr", IF mode = 12 THEN "<" ELSE "", Mos6809!Indirect(post),
                           <<Mos6809!Wrap16(next + offset)>>)
        [] post >= 128 /\ mode = 15 -> Mos6809!Shown("address", "", TRUE, <<offset>>)
        [] OTHER -> Mos6809!Shown(Mos6809!AutoSyntax[mode + 1], "", Mos6809!Indirect(post), <<r>>)

\* It is that.
LEMMA IndexedDepends ==
  ASSUME NEW c, NEW q, NEW next
  PROVE  Mos6809!Indexed(c, q, next) = IndexedOf(c[q + 1], Mos6809!OffsetBehind(c, q), next)
BY Zenon DEF Mos6809!Indexed, IndexedOf

\* An operand's text depends on its bytes alone.
LEMMA TextsAgree ==
  ASSUME NEW row, NEW c, NEW q, NEW d, NEW s, NEW next,
         row.shape \in {"inherent", "imm8", "imm16", "direct", "extended", "indexed", "short", "long",
                        "transfer", "stack"},
         row.shape # "inherent" => c[q + 1] = d[s + 1],
         row.shape \in {"imm16", "extended", "long"} => c[q + 2] = d[s + 2],
         row.shape = "indexed" => Mos6809!OffsetBehind(c, q) = Mos6809!OffsetBehind(d, s)
  PROVE  Mos6809!OperandText(row, c, q, next) = Mos6809!OperandText(row, d, s, next)
<1>1. CASE row.shape = "inherent"
  BY <1>1, Zenon DEF Mos6809!OperandText
<1>2. CASE row.shape \in {"imm16", "extended", "long"}
  <2>1. Mos6809!BigWord(c, q) = Mos6809!BigWord(d, s)
    BY <1>2 DEF Mos6809!BigWord
  <2> QED
    BY <1>2, <2>1, Zenon DEF Mos6809!OperandText
<1>3. CASE row.shape = "indexed"
  <2>1. Mos6809!Indexed(c, q, next) = Mos6809!Indexed(d, s, next)
    <3>1. c[q + 1] = d[s + 1] /\ Mos6809!OffsetBehind(c, q) = Mos6809!OffsetBehind(d, s)
      BY <1>3, Zenon
    <3> QED
      BY <3>1, IndexedDepends, Zenon
  <2> QED
    BY <1>3, <2>1, Zenon DEF Mos6809!OperandText
<1>4. CASE row.shape \in {"imm8", "direct", "short", "transfer", "stack"}
  <2>1. c[q + 1] = d[s + 1]
    BY <1>4
  <2>2. CASE row.shape = "imm8"
    BY <2>1, <2>2, Zenon DEF Mos6809!OperandText
  <2>3. CASE row.shape = "direct"
    BY <2>1, <2>3, Zenon DEF Mos6809!OperandText
  <2>4. CASE row.shape = "short"
    BY <2>1, <2>4, Zenon DEF Mos6809!OperandText
  <2>5. CASE row.shape = "transfer"
    BY <2>1, <2>5, Zenon DEF Mos6809!OperandText
  <2>6. CASE row.shape = "stack"
    BY <2>1, <2>6, Zenon DEF Mos6809!OperandText
  <2> QED
    BY <1>4, <2>2, <2>3, <2>4, <2>5, <2>6
<1> QED
  BY <1>1, <1>2, <1>3, <1>4

\* A postbyte has at most two bytes behind it.
LEMMA ExtensionBounded ==
  ASSUME NEW post PROVE Mos6809!IndexedExtension(post) \in 0..2
BY DEF Mos6809!IndexedExtension

\* An instruction has at most as many bytes as decode_one_6809 fetches.
LEMMA LengthBounded ==
  ASSUME NEW c \in Seq(Byte), NEW p \in Nat, NEW row \in Mos6809!SET6809
  PROVE  Mos6809!LengthOf(row, c, p) \in 1..Lookahead
<1>1. PICK o \in 1..2 : o = Len(row.opcode)
  BY RowsOf6809
<1>2. PICK m \in 0..3 : m = Mos6809!OperandLen(row, c, p + o)
  <2>1. PICK e \in 0..2 : e = IF p + o < Len(c) THEN Mos6809!IndexedExtension(c[p + o + 1]) ELSE 0
    BY ExtensionBounded
  <2>2. row.shape \in {"inherent", "imm8", "imm16", "direct", "extended", "indexed", "short", "long",
                      "transfer", "stack"}
    BY RowsOf6809
  <2> QED
    BY <2>1, <2>2, OperandTaken
<1>3. Mos6809!LengthOf(row, c, p) = o + m
  BY <1>1, <1>2, Zenon DEF Mos6809!LengthOf
<1>4. o + m \in 1..5
  OBVIOUS
<1> QED
  BY <1>3, <1>4 DEF Lookahead

\* A row that reads the bytes of one buffer reads them in another.
LEMMA ReadsToo ==
  ASSUME NEW c, NEW p, NEW d, NEW q, NEW n, SameBytes(c, p, d, q, n), p < Len(c),
         NEW row \in Mos6809!Claims(c, p), Mos6809!Readable(row, c, p),
         Mos6809!LengthOf(row, c, p) <= n
  PROVE  /\ row \in Mos6809!Claims(d, q)
         /\ Mos6809!Readable(row, d, q)
         /\ Mos6809!LengthOf(row, d, q) = Mos6809!LengthOf(row, c, p)
         /\ \A next : Mos6809!OperandText(row, d, q + Len(row.opcode), next)
                       = Mos6809!OperandText(row, c, p + Len(row.opcode), next)
<1>1. /\ c \in Seq(Byte) /\ d \in Seq(Byte) /\ p \in Nat /\ q \in Nat /\ n \in Nat
      /\ p + n <= Len(c) /\ q + n <= Len(d) /\ \A k \in 1..n : c[p + k] = d[q + k]
  BY DEF SameBytes
<1>2. PICK x \in Nat, y \in Nat : x = Len(c) /\ y = Len(d)
  BY <1>1, LenProperties
<1>3. PICK o \in 1..2 : o = Len(row.opcode)
  BY <1>1, ClaimIsRow
<1>4. /\ row \in Mos6809!SET6809 \ Mos6809!Undocumented6809
      /\ row.opcode = SubSeq(c, p + 1, p + o) /\ row.opcode[1] = c[p + 1]
  BY <1>1, <1>3, ClaimIsRow
<1>5. row.shape \in {"inherent", "imm8", "imm16", "direct", "extended", "indexed", "short", "long",
                    "transfer", "stack"}
  BY <1>4, RowsOf6809
<1>6. PICK l \in 1..5 : l = Mos6809!LengthOf(row, c, p)
  BY <1>1, <1>4, LengthBounded DEF Lookahead
<1>7. PICK m \in Int : m = Mos6809!OperandLen(row, c, p + o) /\ l = o + m
  <2>1. l = o + Mos6809!OperandLen(row, c, p + o)
    BY <1>3, <1>6 DEF Mos6809!LengthOf
  <2>2. Mos6809!OperandLen(row, c, p + o) \in Int
    <3>1. PICK e \in 0..2 : e = IF p + o < Len(c) THEN Mos6809!IndexedExtension(c[p + o + 1]) ELSE 0
      BY ExtensionBounded
    <3> QED
      BY <1>5, <3>1, OperandTaken
  <2> QED
    BY <2>1, <2>2
<1>8. p + l <= x /\ l <= n /\ o <= n
  <2>1. p + Mos6809!LengthOf(row, c, p) <= Len(c)
    BY DEF Mos6809!Readable
  <2>2. m \in Nat
    <3>1. PICK e \in 0..2 : e = IF p + o < Len(c) THEN Mos6809!IndexedExtension(c[p + o + 1]) ELSE 0
      BY ExtensionBounded
    <3> QED
      BY <1>5, <1>7, <3>1, OperandTaken
  <2> QED
    BY <1>1, <1>2, <1>6, <1>7, <2>1, <2>2
\* The opcode is there.
<1>9. row \in Mos6809!Claims(d, q)
  BY <1>1, <1>3, <1>8, ClaimsToo
\* So is the rest.
<1>10. m >= 1 => c[p + o + 1] = d[q + o + 1]
  <2> SUFFICES ASSUME m >= 1 PROVE c[p + o + 1] = d[q + o + 1]
    OBVIOUS
  <2>1. o + 1 \in 1..n
    BY <1>1, <1>7, <1>8
  <2>2. c[p + (o + 1)] = d[q + (o + 1)]
    BY <1>1, <2>1
  <2> QED
    BY <1>1, <2>2
<1>11. m >= 2 => c[p + o + 2] = d[q + o + 2]
  <2> SUFFICES ASSUME m >= 2 PROVE c[p + o + 2] = d[q + o + 2]
    OBVIOUS
  <2>1. o + 2 \in 1..n
    BY <1>1, <1>7, <1>8
  <2>2. c[p + (o + 2)] = d[q + (o + 2)]
    BY <1>1, <2>1
  <2> QED
    BY <1>1, <2>2
<1>12. m >= 3 => c[p + o + 3] = d[q + o + 3]
  <2> SUFFICES ASSUME m >= 3 PROVE c[p + o + 3] = d[q + o + 3]
    OBVIOUS
  <2>1. o + 3 \in 1..n
    BY <1>1, <1>7, <1>8
  <2>2. c[p + (o + 3)] = d[q + (o + 3)]
    BY <1>1, <2>1
  <2> QED
    BY <1>1, <2>2
<1>13. m >= 1 => p + o < x /\ q + o < y
  BY <1>1, <1>2, <1>7, <1>8
<1>14. PICK e \in 0..2 : e = Mos6809!IndexedExtension(c[p + o + 1])
  BY ExtensionBounded
<1>15. row.shape = "indexed" => m = 1 + e
  <2> SUFFICES ASSUME row.shape = "indexed" PROVE m = 1 + e
    OBVIOUS
  <2>1. m = 1 + (IF p + o < Len(c) THEN e ELSE 0)
    BY <1>5, <1>7, <1>14, OperandTaken
  <2>2. m >= 1
    BY <2>1, <1>14
  <2> QED
    BY <1>2, <1>13, <2>1, <2>2
<1>16. Mos6809!OperandLen(row, d, q + o) = m
  <2>1. CASE row.shape = "indexed"
    <3>1. m >= 1
      BY <1>14, <1>15, <2>1
    <3>2. Mos6809!OperandLen(row, d, q + o) =
            1 + (IF q + o < Len(d) THEN Mos6809!IndexedExtension(d[q + o + 1]) ELSE 0)
      BY <1>5, <2>1, OperandTaken
    <3>3. Mos6809!IndexedExtension(d[q + o + 1]) = e
      BY <1>10, <1>14, <3>1
    <3>4. q + o < Len(d)
      BY <1>2, <1>13, <3>1
    <3> QED
      BY <1>15, <2>1, <3>2, <3>3, <3>4
  <2>2. CASE row.shape # "indexed"
    BY <1>5, <1>7, <2>2, OperandTaken
  <2> QED
    BY <2>1, <2>2
<1>17. Mos6809!LengthOf(row, d, q) = l
  BY <1>3, <1>7, <1>16 DEF Mos6809!LengthOf
<1>18. row.shape # "inherent" => m >= 1
  BY <1>5, <1>7, <1>14, <1>15, OperandTaken
<1>19. Mos6809!Readable(row, d, q)
  <2>1. q + l <= Len(d)
    BY <1>1, <1>2, <1>8
  <2>2. row.shape = "indexed" => Mos6809!IndexedDefined(d[q + o + 1])
    <3>1. row.shape = "indexed" => Mos6809!IndexedDefined(c[p + o + 1])
      BY <1>3 DEF Mos6809!Readable
    <3> QED
      BY <1>10, <1>18, <3>1
  <2>3. row.shape = "transfer" =>
          {d[q + o + 1] \div 16, d[q + o + 1] % 16} \subseteq Mos6809!TransferRegisters
    <3>1. row.shape = "transfer" =>
            {c[p + o + 1] \div 16, c[p + o + 1] % 16} \subseteq Mos6809!TransferRegisters
      BY <1>3 DEF Mos6809!Readable
    <3>2. row.shape = "transfer" => c[p + o + 1] = d[q + o + 1]
      BY <1>10, <1>18
    <3> QED
      BY <3>1, <3>2, Zenon
  <2> QED
    BY <1>3, <1>17, <2>1, <2>2, <2>3, Zenon DEF Mos6809!Readable
<1>20. ASSUME NEW next
       PROVE  Mos6809!OperandText(row, d, q + o, next) = Mos6809!OperandText(row, c, p + o, next)
  <2>1. row.shape # "inherent" => d[q + o + 1] = c[p + o + 1]
    BY <1>10, <1>18
  <2>2. row.shape \in {"imm16", "extended", "long"} => d[q + o + 2] = c[p + o + 2]
    BY <1>5, <1>7, <1>11, OperandTaken
  <2>3. row.shape = "indexed" => Mos6809!OffsetBehind(d, q + o) = Mos6809!OffsetBehind(c, p + o)
    <3> SUFFICES ASSUME row.shape = "indexed"
                 PROVE  Mos6809!OffsetBehind(d, q + o) = Mos6809!OffsetBehind(c, p + o)
      OBVIOUS
    <3>1. Mos6809!IndexedExtension(d[q + o + 1]) = e
      BY <1>14, <2>1
    <3>2. CASE e = 0
      BY <1>14, <3>1, <3>2 DEF Mos6809!OffsetBehind
    <3>3. CASE e = 1
      <4>1. d[q + o + 2] = c[p + o + 2]
        BY <1>11, <1>15, <3>3
      <4> QED
        BY <1>14, <3>1, <3>3, <4>1 DEF Mos6809!OffsetBehind
    <3>4. CASE e = 2
      <4>1. d[q + o + 2] = c[p + o + 2] /\ d[q + o + 3] = c[p + o + 3]
        BY <1>11, <1>12, <1>15, <3>4
      <4>2. /\ q + o + 1 + 1 = q + o + 2 /\ q + o + 1 + 2 = q + o + 3
            /\ p + o + 1 + 1 = p + o + 2 /\ p + o + 1 + 2 = p + o + 3
        BY <1>1
      <4>3. Mos6809!BigWord(d, q + o + 1) = Mos6809!BigWord(c, p + o + 1)
        BY <4>1, <4>2 DEF Mos6809!BigWord
      <4> QED
        BY <1>14, <3>1, <3>4, <4>3 DEF Mos6809!OffsetBehind
    <3> QED
      BY <3>2, <3>3, <3>4
  <2> QED
    BY <1>5, <2>1, <2>2, <2>3, TextsAgree
<1> QED
  BY <1>3, <1>6, <1>9, <1>17, <1>19, <1>20

\* It reads the same instruction there.
LEMMA ReadsTheSame ==
  ASSUME NEW c, NEW p, NEW d, NEW q, NEW n, SameBytes(c, p, d, q, n), p < Len(c),
         NEW row \in Mos6809!Claims(c, p), Mos6809!Readable(row, c, p),
         Mos6809!LengthOf(row, c, p) <= n, NEW addr
  PROVE  Mos6809!ReadingOf(row, d, q, addr) = Mos6809!ReadingOf(row, c, p, addr)
<1>1. /\ Mos6809!Readable(row, d, q)
      /\ Mos6809!LengthOf(row, d, q) = Mos6809!LengthOf(row, c, p)
      /\ \A next : Mos6809!OperandText(row, d, q + Len(row.opcode), next)
                    = Mos6809!OperandText(row, c, p + Len(row.opcode), next)
  BY ReadsToo
<1> QED
  BY <1>1, Zenon DEF Mos6809!ReadingOf

\* The parts of a reading.
LEMMA PartsOfReading ==
  ASSUME NEW c, NEW p, NEW row, NEW addr, NEW r, r = Mos6809!ReadingOf(row, c, p, addr)
  PROVE  /\ r.rank = 0
         /\ Mos6809!Readable(row, c, p) => r.length = Mos6809!LengthOf(row, c, p)
         /\ ~Mos6809!Readable(row, c, p) => r.length = 0
<1>1. CASE Mos6809!Readable(row, c, p)
  <2>1. PICK text : r = Mos6809!Reading(0, Mos6809!LengthOf(row, c, p), text)
    BY <1>1, Zenon DEF Mos6809!ReadingOf
  <2>2. r.rank = 0 /\ r.length = Mos6809!LengthOf(row, c, p)
    BY <2>1 DEF Mos6809!Reading
  <2> QED
    BY <1>1, <2>2
<1>2. CASE ~Mos6809!Readable(row, c, p)
  <2>1. PICK text : r = Mos6809!Reading(0, 0, text)
    BY <1>2, Zenon DEF Mos6809!ReadingOf, Mos6809!Refusal
  <2>2. r.rank = 0 /\ r.length = 0
    BY <2>1 DEF Mos6809!Reading
  <2> QED
    BY <1>2, <2>2
<1> QED
  BY <1>1, <1>2

------------------------------------------------------------------------------
(* What the lines of the 6809 were read from *)

\* The line says what row makes of the bytes at its place in the buffer c.
ReadFrom(c, line, row) ==
  /\ row \in Mos6809!Claims(c, line.at) /\ Mos6809!Readable(row, c, line.at)
  /\ line.text = Mos6809!ReadingOf(row, c, line.at, line.addr).text
  /\ line.bytes = SubSeq(c, line.at + 1, line.at + Mos6809!LengthOf(row, c, line.at))

\* The line is a byte that no row reads anything from.
Unreadable(c, line) ==
  /\ \A row \in Mos6809!Claims(c, line.at) : ~Mos6809!Readable(row, c, line.at)
  /\ line.text = Text("byte", <<c[line.at + 1]>>)
  /\ line.bytes = SubSeq(c, line.at + 1, line.at + 1)

\* It is one or the other, and stands at its place's address.
FromCode(c, start, line) ==
  /\ line.at \in Nat /\ line.at < Len(c) /\ line.addr = Wrap16(start + line.at)
  /\ \/ line.kind = "instruction" /\ \E row : ReadFrom(c, line, row)
     \/ line.kind = "data" /\ Unreadable(c, line)

\* The invariant behind CallbackAgrees and TimingAgrees.
Listed6809 == cpu = "6809" => \A k \in DOMAIN out : FromCode(code, origin, out[k])

\* What the decoder finds comes from its rows, and all their readings are found.
LEMMA FoundRead ==
  ASSUME cpu = "6809"
  PROVE  /\ \A r \in Found : \E row \in Mos6809!Claims(code, pos) :
              r = Mos6809!ReadingOf(row, code, pos, AddrAt(pos))
         /\ \A row \in Mos6809!Claims(code, pos) :
              Mos6809!ReadingOf(row, code, pos, AddrAt(pos)) \in Found
<1>1. PICK a : a = AddrAt(pos)
  OBVIOUS
<1>2. PICK rs : rs = Mos6809!Readings(code, pos, a)
  OBVIOUS
<1>3. Readings(code, pos, a) = rs
  BY <1>2 DEF Readings, Z8000s
<1>4. Found = {r \in rs : \A s \in rs : r.rank <= s.rank}
  BY <1>1, <1>3, Zenon DEF Found, First
<1>5. \A r \in rs : \E row \in Mos6809!Claims(code, pos) : r = Mos6809!ReadingOf(row, code, pos, a)
  BY <1>2 DEF Mos6809!Readings
<1>6. \A row \in Mos6809!Claims(code, pos) : Mos6809!ReadingOf(row, code, pos, a) \in rs
  BY <1>2 DEF Mos6809!Readings
<1>7. \A r \in rs : r.rank = 0
  BY <1>5, PartsOfReading
<1>8. Found = rs
  BY <1>4, <1>7
<1> QED
  BY <1>1, <1>5, <1>6, <1>8

\* The line a step of the 6809 pushes is read from the buffer.
LEMMA StepLists ==
  ASSUME TypeOK, cpu = "6809", EmitInstruction \/ EmitData \/ EmitByte
  PROVE  \E n, kind, text : Pushes(n, kind, text) /\ FromCode(code, origin, LineAt(n, kind, text))
<1>1. code \in Seq(Byte) /\ pos \in Nat
  BY CodesAreBytes DEF TypeOK
<1>2. PICK x \in Nat : x = Len(code)
  BY <1>1, LenProperties
<1>3. Unit = 1
  BY DEF Unit, Z8000s
<1>4. ~EmitByte
  BY <1>1, <1>2, <1>3 DEF EmitByte
<1>5. pos + 1 <= Len(code) /\ pos < Len(code)
  <2>1. pos + 1 <= Len(code)
    BY <1>3, <1>4 DEF EmitInstruction, EmitData
  <2> QED
    BY <1>1, <1>2, <2>1
<1>6. CASE EmitInstruction
  <2>1. PICK r \in Found : r.length > 0 /\ Push(r.length, "instruction", r.text)
    BY <1>6 DEF EmitInstruction
  <2>2. r.length \in Nat /\ pos + r.length <= Len(code)
    BY <1>3, <1>5, <2>1, FoundFits
  <2>3. Pushes(r.length, "instruction", r.text)
    BY <2>1, <2>2 DEF Pushes
  <2>4. PICK row \in Mos6809!Claims(code, pos) :
          r = Mos6809!ReadingOf(row, code, pos, AddrAt(pos))
    BY <2>1, FoundRead
  <2>5. Mos6809!Readable(row, code, pos) /\ r.length = Mos6809!LengthOf(row, code, pos)
    BY <2>1, <2>4, PartsOfReading
  <2>6. PICK line : line = LineAt(r.length, "instruction", r.text)
    OBVIOUS
  <2>7. /\ line.at = pos /\ line.addr = AddrAt(pos) /\ line.kind = "instruction"
        /\ line.text = r.text /\ line.bytes = SubSeq(code, pos + 1, pos + r.length)
    BY <2>6 DEF LineAt
  <2>8. ReadFrom(code, line, row)
    BY <2>4, <2>5, <2>7, Zenon DEF ReadFrom
  <2>9. FromCode(code, origin, line)
    BY <1>1, <1>5, <2>7, <2>8, Zenon DEF FromCode, AddrAt
  <2> QED
    BY <2>3, <2>6, <2>9
<1>7. CASE EmitData
  <2>1. Push(1, "data", Text("byte", <<code[pos + 1]>>))
    BY <1>3, <1>7 DEF EmitData, Z8000s
  <2>2. Pushes(1, "data", Text("byte", <<code[pos + 1]>>))
    BY <1>5, <2>1 DEF Pushes
  <2>3. ASSUME NEW row \in Mos6809!Claims(code, pos)
        PROVE  ~Mos6809!Readable(row, code, pos)
    <3>1. PICK r : r = Mos6809!ReadingOf(row, code, pos, AddrAt(pos))
      OBVIOUS
    <3>2. r.length = 0
      BY <1>7, <3>1, FoundRead DEF EmitData
    <3>3. row \in Mos6809!SET6809
      BY <1>1, <1>5, ClaimIsRow
    <3>4. Mos6809!LengthOf(row, code, pos) # 0
      <4>1. Mos6809!LengthOf(row, code, pos) \in 1..5
        BY <1>1, <3>3, LengthBounded DEF Lookahead
      <4> QED
        BY <4>1
    <3> QED
      BY <3>1, <3>2, <3>4, PartsOfReading
  <2>4. PICK line : line = LineAt(1, "data", Text("byte", <<code[pos + 1]>>))
    OBVIOUS
  <2>5. /\ line.at = pos /\ line.addr = AddrAt(pos) /\ line.kind = "data"
        /\ line.text = Text("byte", <<code[pos + 1]>>) /\ line.bytes = SubSeq(code, pos + 1, pos + 1)
    BY <2>4 DEF LineAt
  <2>6. Unreadable(code, line)
    BY <2>3, <2>5, Zenon DEF Unreadable
  <2>7. FromCode(code, origin, line)
    BY <1>1, <1>5, <2>5, <2>6, Zenon DEF FromCode, AddrAt
  <2> QED
    BY <2>2, <2>4, <2>7
<1> QED
  BY <1>4, <1>6, <1>7

\* Every line of the 6809 is the reading of a row that stands at its place,
\* or a byte that no row reads.
THEOREM ListedFromCode == Spec => []Listed6809
<1>1. Init => Listed6809
  <2> SUFFICES ASSUME Init PROVE Listed6809
    OBVIOUS
  <2>1. out = <<>>
    BY DEF Init
  <2> QED
    BY <2>1 DEF Listed6809
<1>2. TypeOK /\ Listed6809 /\ [Next]_vars => Listed6809'
  <2> SUFFICES ASSUME TypeOK, Listed6809, [Next]_vars, cpu' = "6809",
                      NEW k \in DOMAIN out'
               PROVE  FromCode(code', origin', out'[k])
    BY DEF Listed6809
  <2>1. CASE EmitInstruction \/ EmitData \/ EmitByte
    <3>1. cpu = "6809" /\ code' = code /\ origin' = origin
      <4>1. PICK n, kind, text : Pushes(n, kind, text)
        BY <2>1, StepPushes
      <4> QED
        BY <4>1 DEF Pushes, Push
    <3>2. PICK n, kind, text : Pushes(n, kind, text) /\ FromCode(code, origin, LineAt(n, kind, text))
      BY <2>1, <3>1, StepLists
    <3>3. PICK m \in Nat :
            /\ m <= pos /\ m = Len(out) /\ DOMAIN out = 1..m
            /\ out' = [j \in 1..(m + 1) |-> out'[j]]
            /\ out'[m + 1] = LineAt(n, kind, text)
            /\ \A j \in 1..m : out'[j] = out[j]
      BY <3>2, LinePushed
    <3>4. FromCode(code, origin, out'[k])
      <4>1. DOMAIN out' = 1..(m + 1)
        BY <3>3
      <4>2. CASE k = m + 1
        BY <3>2, <3>3, <4>2
      <4>3. CASE k \in 1..m
        BY <3>1, <3>3, <4>3 DEF Listed6809
      <4> QED
        BY <4>1, <4>2, <4>3
    <3> QED
      BY <3>1, <3>4
  <2>2. CASE UNCHANGED vars
    <3>1. cpu = "6809" /\ out' = out /\ code' = code /\ origin' = origin
      BY <2>2 DEF vars
    <3>2. FromCode(code, origin, out'[k])
      BY <3>1 DEF Listed6809
    <3> QED
      BY <3>1, <3>2
  <2> QED
    BY <2>1, <2>2 DEF Next, Return
<1> QED
  BY <1>1, <1>2, TypeCorrect, PTL DEF Spec

------------------------------------------------------------------------------
(* The debugger *)

\* Counting from a line's address, around the end of memory, leads to the
\* bytes behind it.
LEMMA PlaceOfAddress ==
  ASSUME NEW start \in Word16, NEW at \in Nat, NEW i \in Nat, at + i < 65536
  PROVE  Wrap16(Wrap16(Wrap16(start + at) + i) - start) = at + i
<1>1. /\ start \in Int /\ start >= 0 /\ start < 65536
      /\ at \in Int /\ at >= 0 /\ at < 65536
      /\ i \in Int /\ i >= 0 /\ i < 65536
  BY DEF Word16
<1>2. PICK y \in Int : y = at + i /\ y >= 0 /\ y < 65536
  BY <1>1
<1>3. PICK w \in Int : w = (start + at) % 65536
  BY <1>1
<1>4. w >= 0 /\ w < 65536 /\ (w = start + at \/ w = start + at - 65536)
  BY <1>1, <1>3
<1>5. PICK v \in Int : v = (w + i) % 65536
  BY <1>1
<1>6. v >= 0 /\ v < 65536 /\ (v = w + i \/ v = w + i - 65536)
  BY <1>1, <1>4, <1>5
<1>7. PICK z \in Int : z = v - start
  BY <1>1
<1>8. z = y \/ z = y - 65536
  BY <1>1, <1>2, <1>4, <1>6, <1>7
<1>9. z % 65536 = y
  BY <1>2, <1>8
<1> QED
  BY <1>2, <1>3, <1>5, <1>7, <1>9 DEF Wrap16

\* The place the address of byte i of a line leads back to.
BackTo(start, at, i) == Wrap16(Wrap16(Wrap16(start + at) + i) - start)

\* It is byte i's.
LEMMA PlaceOf ==
  ASSUME NEW start \in Word16, NEW at \in Nat, NEW i \in Nat, at + i < 65536
  PROVE  BackTo(start, at, i) = at + i
BY PlaceOfAddress DEF BackTo

\* A function of the first m numbers is a sequence.
LEMMA FirstNumbers ==
  ASSUME NEW S, NEW m \in Nat, NEW f \in [1..m -> S]
  PROVE  f \in Seq(S) /\ Len(f) = m
<1>1. f \in Seq(S) /\ DOMAIN f = 1..m
  BY SeqDef
<1> QED
  BY <1>1, LenProperties

\* What decode_one_6809 fetches.
Fetch(addr) == [k \in 1..Lookahead |-> Read(Wrap16(addr + (k - 1)))]

\* It fetches five bytes.
LEMMA FetchesBytes ==
  ASSUME TypeOK, NEW addr \in Int
  PROVE  Fetch(addr) \in Seq(Byte) /\ Len(Fetch(addr)) = 5
<1>1. code \in Seq(Byte) /\ origin \in Int
  BY CodesAreBytes, OriginsAreWords, WordIsInt DEF TypeOK
<1>2. PICK x \in Nat : x = Len(code)
  BY <1>1, LenProperties
<1>3. ASSUME NEW a \in Int PROVE Read(a) \in Byte
  <2>1. PICK p \in Int : p = (a - origin) % 65536
    BY <1>1
  <2>2. p \in Nat
    BY <1>1, <2>1
  <2>3. p < Len(code) => code[p + 1] \in Byte
    BY <1>1, <1>2, <2>2, ElementOfSeq
  <2>4. Read(a) = IF p < Len(code) THEN code[p + 1] ELSE Fill
    BY <2>1 DEF Read, Wrap16
  <2> QED
    BY <2>3, <2>4, FillIsByte
<1>4. ASSUME NEW k \in 1..5 PROVE Read(Wrap16(addr + (k - 1))) \in Byte
  <2>1. Wrap16(addr + (k - 1)) \in Int
    BY DEF Wrap16
  <2> QED
    BY <1>3, <2>1
<1>5. Fetch(addr) \in [1..5 -> Byte]
  BY <1>4 DEF Fetch, Lookahead
<1> QED
  BY <1>5, FirstNumbers

\* They are the bytes of the buffer, as far as it goes.
LEMMA Fetched ==
  ASSUME TypeOK, cpu = "6809", NEW at \in Nat, NEW n \in 1..5, at + n <= Len(code)
  PROVE  SameBytes(code, at, Fetch(Wrap16(origin + at)), 0, n)
<1>1. code \in Seq(Byte) /\ origin \in Word16 /\ origin \in Int /\ Len(code) <= 65536
  BY CodesAreBytes, OriginsAreWords, WordIsInt, MemoryHoldsBuffers DEF TypeOK
<1>2. PICK x \in Nat : x = Len(code) /\ x <= 65536 /\ at + n <= x
  BY <1>1, LenProperties
<1>3. PICK addr \in Int : addr = Wrap16(origin + at)
  BY <1>1 DEF Wrap16
<1>4. Fetch(addr) \in Seq(Byte) /\ Len(Fetch(addr)) = 5
  BY FetchesBytes
<1>5. ASSUME NEW k \in 1..n PROVE code[at + k] = Fetch(addr)[0 + k]
  <2>1. PICK i \in Nat : i = k - 1 /\ at + i < x /\ at + i < 65536
    BY <1>2
  <2>2. Fetch(addr)[k] = Read(Wrap16(addr + i))
    BY <2>1 DEF Fetch, Lookahead
  <2>3. Wrap16(Wrap16(addr + i) - origin) = at + i
    <3>1. BackTo(origin, at, i) = at + i
      BY <1>1, <2>1, PlaceOf
    <3> QED
      BY <1>3, <3>1, Zenon DEF BackTo
  <2>4. Read(Wrap16(addr + i)) = code[at + i + 1]
    BY <1>2, <2>1, <2>3 DEF Read
  <2>5. at + i + 1 = at + k /\ 0 + k = k
    BY <2>1
  <2> QED
    BY <2>2, <2>4, <2>5
<1>6. n \in Nat /\ 0 \in Nat /\ 0 + n <= 5
  OBVIOUS
<1> QED
  BY <1>1, <1>3, <1>4, <1>5, <1>6 DEF SameBytes

\* The debugger sees what the listing says: decode_one_6809, asked at a line's
\* address, gives its length and text, for every buffer that fits the memory.
THEOREM CallbackAgreesAlways == Spec => []CallbackAgrees
<1>1. TypeOK /\ Listed6809 => CallbackAgrees
  <2> SUFFICES ASSUME TypeOK, Listed6809, cpu = "6809", NEW k \in DOMAIN out,
                      out[k].kind = "instruction" \/ out[k].at + Lookahead <= Len(code)
               PROVE  [text |-> out[k].text, len |-> Len(out[k].bytes)] \in decode_one_6809(out[k].addr)
    BY DEF CallbackAgrees
  <2>1. PICK line : line = out[k]
    OBVIOUS
  <2>2. FromCode(code, origin, line)
    BY <2>1 DEF Listed6809
  <2>3. PICK at \in Nat : at = line.at /\ at < Len(code)
    BY <2>2 DEF FromCode
  <2>4. PICK addr : addr = line.addr /\ addr = Wrap16(origin + at)
    BY <2>2, <2>3 DEF FromCode
  <2>5. code \in Seq(Byte)
    BY CodesAreBytes DEF TypeOK
  <2>6. PICK x \in Nat : x = Len(code)
    BY <2>5, LenProperties
  <2>7. PICK buf : buf = Fetch(addr)
    OBVIOUS
  <2>8. PICK found : found = {r \in Mos6809!Readings(buf, 0, addr) : r.length > 0}
    OBVIOUS
  <2>9. decode_one_6809(addr) =
          IF found = {} THEN {[text |-> Text("byte", <<buf[1]>>), len |-> 1]}
          ELSE {[text |-> r.text, len |-> r.length] : r \in found}
    <3>1. \A r : r \in Readings(buf, 0, addr) <=> r \in Mos6809!Readings(buf, 0, addr)
      BY DEF Readings, Z8000s
    <3>2. found = {r \in Readings(buf, 0, addr) : r.length > 0}
      BY <2>8, <3>1
    <3> QED
      BY <2>7, <3>2, Zenon DEF decode_one_6809, Fetch
  <2>10. CASE line.kind = "instruction"
    <3>1. PICK row : ReadFrom(code, line, row)
      BY <2>2, <2>10 DEF FromCode
    <3>2. /\ row \in Mos6809!Claims(code, at) /\ Mos6809!Readable(row, code, at)
          /\ line.text = Mos6809!ReadingOf(row, code, at, addr).text
          /\ line.bytes = SubSeq(code, at + 1, at + Mos6809!LengthOf(row, code, at))
      BY <2>3, <2>4, <3>1 DEF ReadFrom
    <3>3. PICK n \in 1..5 : n = Mos6809!LengthOf(row, code, at)
      BY <2>3, <2>5, <3>2, ClaimIsRow, LengthBounded DEF Lookahead
    <3>4. at + n <= Len(code)
      BY <3>2, <3>3 DEF Mos6809!Readable
    <3>5. SameBytes(code, at, buf, 0, n)
      BY <2>4, <2>7, <3>4, Fetched
    <3>6. PICK r : r = Mos6809!ReadingOf(row, code, at, addr)
      OBVIOUS
    <3>7. Mos6809!ReadingOf(row, buf, 0, addr) = r
      <4>1. Mos6809!LengthOf(row, code, at) <= n
        BY <3>3
      <4>2. Mos6809!ReadingOf(row, buf, 0, addr) = Mos6809!ReadingOf(row, code, at, addr)
        BY <2>3, <3>2, <3>5, <4>1, ReadsTheSame
      <4> QED
        BY <3>6, <4>2
    <3>8. row \in Mos6809!Claims(buf, 0)
      BY <2>3, <3>2, <3>3, <3>5, ReadsToo
    <3>9. r \in Mos6809!Readings(buf, 0, addr)
      BY <3>7, <3>8 DEF Mos6809!Readings
    <3>10. r.length = n
      BY <3>2, <3>3, <3>6, PartsOfReading
    <3>11. r \in found
      BY <2>8, <3>3, <3>9, <3>10
    <3>12. Len(line.bytes) = n
      BY <2>5, <3>2, <3>3, <3>4, BytesCounted
    <3>13. [text |-> r.text, len |-> r.length] \in decode_one_6809(addr)
      BY <2>9, <3>11
    <3> QED
      BY <2>1, <2>4, <3>2, <3>6, <3>10, <3>12, <3>13
  <2>11. CASE line.kind # "instruction"
    <3>1. Unreadable(code, line) /\ at + 5 <= Len(code)
      BY <2>1, <2>2, <2>3, <2>11 DEF FromCode, Lookahead
    <3>2. SameBytes(code, at, buf, 0, 5)
      BY <2>4, <2>7, <3>1, Fetched
    <3>3. SameBytes(buf, 0, code, at, 5) /\ buf \in Seq(Byte) /\ 0 < Len(buf) /\ buf[1] = code[at + 1]
      <4>1. SameBytes(buf, 0, code, at, 5)
        BY <3>2, SameBack
      <4>2. buf \in Seq(Byte) /\ 0 + 5 <= Len(buf) /\ \A j \in 1..5 : buf[0 + j] = code[at + j]
        BY <4>1 DEF SameBytes
      <4>3. 0 < Len(buf)
        <5>1. PICK y \in Nat : y = Len(buf)
          BY <4>2, LenProperties
        <5> QED
          BY <4>2, <5>1
      <4>4. buf[0 + 1] = code[at + 1]
        BY <4>2
      <4> QED
        BY <4>1, <4>2, <4>3, <4>4
    <3>4. ASSUME NEW r \in found PROVE FALSE
      <4>1. PICK row \in Mos6809!Claims(buf, 0) : r = Mos6809!ReadingOf(row, buf, 0, addr)
        BY <2>8 DEF Mos6809!Readings
      <4>2. r.length > 0
        BY <2>8
      <4>3. Mos6809!Readable(row, buf, 0)
        BY <4>1, <4>2, PartsOfReading
      <4>4. PICK n \in 1..5 : n = Mos6809!LengthOf(row, buf, 0)
        BY <3>3, ClaimIsRow, LengthBounded DEF Lookahead
      <4>5. row \in Mos6809!Claims(code, at) /\ Mos6809!Readable(row, code, at)
        BY <3>3, <4>3, <4>4, ReadsToo
      <4> QED
        BY <2>3, <3>1, <4>5 DEF Unreadable
    <3>5. found = {}
      BY <3>4
    <3>6. line.text = Text("byte", <<buf[1]>>) /\ line.bytes = SubSeq(code, at + 1, at + 1)
      BY <2>3, <3>1, <3>3 DEF Unreadable
    <3>7. Len(line.bytes) = 1
      <4>1. at + 1 <= Len(code)
        BY <2>3, <2>6
      <4> QED
        BY <2>5, <3>6, <4>1, BytesCounted
    <3> QED
      BY <2>1, <2>4, <2>9, <3>5, <3>6, <3>7
  <2> QED
    BY <2>10, <2>11
<1> QED
  BY <1>1, TypeCorrect, ListedFromCode, PTL

------------------------------------------------------------------------------
(* The timing table *)

\* Rows whose opcodes stand at the same place have the same opcode length and
\* the same shape.
LEMMA OneShape ==
  ASSUME NEW c \in Seq(Byte), NEW p \in Nat, p < Len(c),
         NEW row \in Mos6809!Claims(c, p), NEW other \in Mos6809!Claims(c, p),
         Len(row.opcode) <= Len(other.opcode)
  PROVE  Len(row.opcode) = Len(other.opcode) /\ row.shape = other.shape
<1>1. PICK x \in Nat : x = Len(c)
  BY LenProperties
<1>2. PICK o \in 1..2 : o = Len(row.opcode) /\ p + o <= x
  BY <1>1, ClaimIsRow
<1>3. PICK m \in 1..2 : m = Len(other.opcode) /\ p + m <= x
  BY <1>1, ClaimIsRow
<1>4. /\ row \in Mos6809!SET6809 /\ row.opcode \in Seq(Byte)
      /\ row.opcode = SubSeq(c, p + 1, p + o)
  BY <1>2, ClaimIsRow
<1>5. /\ other \in Mos6809!SET6809 /\ other.opcode \in Seq(Byte)
      /\ other.opcode = SubSeq(c, p + 1, p + m)
  BY <1>3, ClaimIsRow
<1>6. o <= m
  BY <1>2, <1>3
<1>7. SubSeq(c, p + 1, p + o) = SubSeq(SubSeq(c, p + 1, p + m), 1, o)
  BY <1>1, <1>2, <1>3, <1>6, FrontOfSlice
<1>8. Begins(row.opcode, other.opcode)
  BY <1>2, <1>3, <1>4, <1>5, <1>6, <1>7, Zenon DEF Begins
<1> QED
  BY <1>4, <1>5, <1>8, RowsOf6809

\* A mode the decoder takes has as many bytes behind its postbyte as the timing
\* table says.
LEMMA CostIsExtension ==
  ASSUME NEW post \in Byte, Mos6809!IndexedDefined(post)
  PROVE  Mos6809!indexed_cost(post) = {Mos6809!IndexedExtension(post)}
<1>1. CASE post < 128
  <2>1. Mos6809!IndexedExtension(post) = 0
    BY <1>1 DEF Mos6809!IndexedExtension
  <2>2. Mos6809!indexed_cost(post) = {0}
    <3>1. ~(post >= 128) /\ ~(post = \h9F)
      BY <1>1 DEF Byte
    <3> QED
      BY <1>1, <3>1, Zenon DEF Mos6809!indexed_cost
  <2> QED
    BY <2>1, <2>2
<1>2. CASE post >= 128
  <2>1. PICK low \in Int, a \in Int, h \in Int, mode \in Int :
          /\ low = post % 32 /\ post = 32 * a + low /\ 0 <= low /\ low < 32
          /\ mode = post % 16 /\ low = 16 * h + mode /\ 0 <= mode /\ mode < 16
          /\ (h = 0 \/ h = 1)
    BY DEF Byte
  <2>2. Mos6809!Indirect(post) <=> h = 1
    BY <1>2, <2>1 DEF Mos6809!Indirect, Mos6809!HasBit, Byte
  <2>3. \/ mode \in {1, 3, 4, 5, 6, 8, 9, 11, 12, 13}
        \/ mode \in {0, 2} /\ h = 0
        \/ post = 159 /\ mode = 15 /\ low = 31
    BY <1>2, <2>1, <2>2 DEF Mos6809!IndexedDefined
  <2>4. Mos6809!IndexedExtension(post) =
          IF mode \in {8, 12} THEN 1 ELSE IF mode \in {9, 13, 15} THEN 2 ELSE 0
    BY <1>2, <2>1 DEF Mos6809!IndexedExtension
  <2>5. CASE mode \in {8, 12}
    <3>1. low \in {8, 12, 24, 28}
      BY <2>1, <2>5
    <3>2. Mos6809!indexed_cost(post) = {1}
      BY <1>2, <2>1, <3>1 DEF Mos6809!indexed_cost
    <3> QED
      BY <2>4, <2>5, <3>2
  <2>6. CASE mode \in {9, 13}
    <3>1. low \in {9, 13, 25, 29}
      BY <2>1, <2>6
    <3>2. Mos6809!indexed_cost(post) = {2}
      BY <1>2, <2>1, <3>1 DEF Mos6809!indexed_cost
    <3> QED
      BY <2>4, <2>6, <3>2
  <2>7. CASE mode = 15
    <3>1. post = 159 /\ low = 31
      BY <2>3, <2>7
    <3>2. post % 32 = 31
      BY <2>1, <3>1
    <3>3. ~(post < 128) /\ post = \h9F
      BY <3>1
    <3>4. /\ post % 32 \notin {0, 1, 2, 3, 4, 5, 6, \h0B, \h11, \h13, \h14, \h15, \h16, \h1B}
          /\ post % 32 \notin {\h08, \h0C, \h18, \h1C}
          /\ post % 32 \notin {\h09, \h0D, \h19, \h1D}
      BY <3>2
    <3>5. Mos6809!indexed_cost(post) = {2}
      BY <3>3, <3>4, Zenon DEF Mos6809!indexed_cost
    <3> QED
      BY <2>4, <2>7, <3>5
  <2>8. CASE mode \notin {8, 9, 12, 13, 15}
    <3>1. low \in {0, 1, 2, 3, 4, 5, 6, 11, 17, 19, 20, 21, 22, 27}
      BY <2>1, <2>3, <2>8
    <3>2. /\ ~(post < 128) /\ post >= 128 /\ post # \h9F
          /\ post % 32 \in {0, 1, 2, 3, 4, 5, 6, \h0B, \h11, \h13, \h14, \h15, \h16, \h1B}
          /\ post % 32 \notin {\h08, \h0C, \h18, \h1C}
          /\ post % 32 \notin {\h09, \h0D, \h19, \h1D}
      BY <1>2, <2>1, <3>1
    <3>3. Mos6809!indexed_cost(post) = {0}
      BY <3>2, Zenon DEF Mos6809!indexed_cost
    <3> QED
      BY <2>4, <2>8, <3>3
  <2> QED
    BY <2>5, <2>6, <2>7, <2>8
<1> QED
  BY <1>1, <1>2 DEF Byte

\* A bit is one or none.
LEMMA BitIsBit ==
  ASSUME NEW v \in Nat, NEW n \in 0..7
  PROVE  Mos6809!BitOf(v, n) \in {0, 1}
<1>1. PICK w \in Int : w = v \div <<1, 2, 4, 8, 16, 32, 64, 128>>[n + 1]
  <2>1. PICK z \in {1, 2, 4, 8, 16, 32, 64, 128} : z = <<1, 2, 4, 8, 16, 32, 64, 128>>[n + 1]
    OBVIOUS
  <2>2. v \div z \in Int
    BY <2>1
  <2> QED
    BY <2>1, <2>2
<1>2. w % 2 \in {0, 1}
  BY <1>1
<1> QED
  BY <1>1, <1>2, Zenon DEF Mos6809!BitOf

\* A push moves the bytes of the registers it names.
LEMMA ListMoves ==
  ASSUME NEW mask \in Nat, NEW row
  PROVE  Mos6809!transferred_bytes(mask) = Mos6809!ListedBytes(row, mask)
<1> DEFINE b(n) == Mos6809!BitOf(mask, n)
           names == Mos6809!stack_regs(row.mnemonic \in {"pshu", "pulu"})
           listed(n) == IF b(n) = 1 THEN Mos6809!WidthOf(names[n + 1]) ELSE 0
<1>1. \A n \in 0..7 : b(n) = 0 \/ b(n) = 1
  BY BitIsBit
<1>2. \A n \in 0..3 : Mos6809!WidthOf(names[n + 1]) = 1
  BY DEF Mos6809!stack_regs, Mos6809!WidthOf
<1>3. \A n \in 4..7 : Mos6809!WidthOf(names[n + 1]) = 2
  BY DEF Mos6809!stack_regs, Mos6809!WidthOf
<1> HIDE DEF b, names
<1>4. \A n \in 0..3 : listed(n) = b(n)
  BY <1>1, <1>2
<1>5. \A n \in 4..7 : listed(n) = 2 * b(n)
  BY <1>1, <1>3
<1> HIDE DEF listed
<1>6. /\ b(0) \in Int /\ b(1) \in Int /\ b(2) \in Int /\ b(3) \in Int
      /\ b(4) \in Int /\ b(5) \in Int /\ b(6) \in Int /\ b(7) \in Int
  BY <1>1
<1>7. listed(0) + listed(1) + listed(2) + listed(3) + listed(4) + listed(5) + listed(6) + listed(7)
        = b(0) + b(1) + b(2) + b(3) + 2 * (b(4) + b(5) + b(6) + b(7))
  BY <1>4, <1>5, <1>6
<1>8. /\ 0 + 1 = 1 /\ 0 + 2 = 2 /\ 0 + 3 = 3 /\ 4 + 1 = 5 /\ 4 + 2 = 6 /\ 4 + 3 = 7
  OBVIOUS
<1>9. Mos6809!transferred_bytes(mask) = b(0) + b(1) + b(2) + b(3) + 2 * (b(4) + b(5) + b(6) + b(7))
  BY <1>8, Zenon DEF b, Mos6809!transferred_bytes, Mos6809!OnesFrom
<1>10. Mos6809!ListedBytes(row, mask) =
         listed(0) + listed(1) + listed(2) + listed(3) + listed(4) + listed(5) + listed(6) + listed(7)
  BY Zenon DEF b, names, listed, Mos6809!ListedBytes
<1> QED
  BY <1>7, <1>9, <1>10

\* The timing tables and the decoder agree on what follows an opcode, whatever
\* is listed: indexed_cost and stack_effects count just the bytes it takes.
THEOREM TimingAgreesAlways == Spec => []TimingAgrees
<1>1. TypeOK /\ Listed6809 => TimingAgrees
  <2> SUFFICES ASSUME TypeOK, Listed6809, cpu = "6809", NEW k \in DOMAIN out,
                      out[k].kind = "instruction", NEW row \in Mos6809!Claims(out[k].bytes, 0)
               PROVE  LET post == out[k].bytes[Len(row.opcode) + 1]
                      IN  /\ row.shape = "indexed" =>
                               Mos6809!indexed_cost(post) = {Len(out[k].bytes) - Len(row.opcode) - 1}
                          /\ row.shape = "stack" =>
                               Mos6809!transferred_bytes(post) = Mos6809!ListedBytes(row, post)
    BY DEF TimingAgrees
  <2>1. PICK line : line = out[k]
    OBVIOUS
  <2>2. FromCode(code, origin, line)
    BY <2>1 DEF Listed6809
  <2>3. PICK at \in Nat : at = line.at /\ at < Len(code)
    BY <2>2 DEF FromCode
  <2>4. code \in Seq(Byte)
    BY CodesAreBytes DEF TypeOK
  <2>5. PICK x \in Nat : x = Len(code)
    BY <2>4, LenProperties
  <2>6. PICK other : ReadFrom(code, line, other)
    BY <2>1, <2>2 DEF FromCode
  <2>7. /\ other \in Mos6809!Claims(code, at) /\ Mos6809!Readable(other, code, at)
        /\ line.bytes = SubSeq(code, at + 1, at + Mos6809!LengthOf(other, code, at))
    BY <2>3, <2>6 DEF ReadFrom
  <2>8. PICK l \in 1..5 : l = Mos6809!LengthOf(other, code, at)
    BY <2>3, <2>4, <2>7, ClaimIsRow, LengthBounded DEF Lookahead
  <2>9. at + l <= Len(code) /\ at + l <= x
    BY <2>5, <2>7, <2>8 DEF Mos6809!Readable
  <2>10. PICK bytes : bytes = line.bytes
    OBVIOUS
  <2>11. bytes \in Seq(Byte) /\ Len(bytes) = l
    <3>1. bytes = SubSeq(code, at + 1, at + l)
      BY <2>7, <2>8, <2>10, Zenon
    <3>2. l \in Nat
      OBVIOUS
    <3>3. SubSeq(code, at + 1, at + l) \in Seq(Byte) /\ Len(SubSeq(code, at + 1, at + l)) = l
      BY <2>4, <2>9, <3>2, BytesCounted
    <3> QED
      BY <3>1, <3>3, Zenon
  <2>12. \A j \in 1..l : bytes[j] = code[at + j]
    BY <2>4, <2>7, <2>8, <2>9, <2>10, SubSeqAt
  <2>13. SameBytes(bytes, 0, code, at, l)
    <3>1. \A j \in 1..l : bytes[0 + j] = code[at + j]
      BY <2>12
    <3>2. l \in Nat /\ 0 \in Nat /\ 0 + l <= l
      OBVIOUS
    <3> QED
      BY <2>4, <2>9, <2>11, <3>1, <3>2 DEF SameBytes
  \* The row that claims the line's bytes claims those of the buffer.
  <2>14. row \in Mos6809!Claims(bytes, 0)
    BY <2>1, <2>10
  <2>15. PICK o \in 1..2 : o = Len(row.opcode) /\ o <= l
    BY <2>11, <2>14, ClaimIsRow
  <2>16. row \in Mos6809!Claims(code, at)
    BY <2>11, <2>13, <2>14, <2>15, ClaimsToo
  <2>17. Len(other.opcode) = o /\ row.shape = other.shape
    <3>1. PICK m \in 1..2 : m = Len(other.opcode)
      BY <2>3, <2>4, <2>7, ClaimIsRow
    <3>2. o <= m \/ m <= o
      BY <3>1
    <3> QED
      BY <2>3, <2>4, <2>7, <2>15, <2>16, <3>1, <3>2, OneShape
  <2>18. l = o + Mos6809!OperandLen(other, code, at + o)
    BY <2>8, <2>17, Zenon DEF Mos6809!LengthOf
  <2>19. other.shape \in {"inherent", "imm8", "imm16", "direct", "extended", "indexed", "short", "long",
                         "transfer", "stack"}
    BY <2>3, <2>4, <2>7, ClaimIsRow, RowsOf6809
  <2>20. PICK post : post = bytes[o + 1]
    OBVIOUS
  <2>21. PICK e \in 0..2 : e = IF at + o < Len(code) THEN Mos6809!IndexedExtension(code[at + o + 1]) ELSE 0
    BY ExtensionBounded
  <2>22. l >= o + 1 => post = code[at + o + 1] /\ post \in Byte
    <3> SUFFICES ASSUME l >= o + 1 PROVE post = code[at + o + 1] /\ post \in Byte
      OBVIOUS
    <3>1. o + 1 \in 1..l
      OBVIOUS
    <3>2. bytes[o + 1] = code[at + (o + 1)] /\ bytes[o + 1] \in Byte
      BY <2>11, <2>12, <3>1, ElementOfSeq
    <3>3. at + (o + 1) = at + o + 1
      OBVIOUS
    <3> QED
      BY <2>20, <3>2, <3>3
  <2>23. ASSUME row.shape = "indexed"
         PROVE  Mos6809!indexed_cost(post) = {l - o - 1}
    <3>1. Mos6809!OperandLen(other, code, at + o) = 1 + e
      <4>1. other.shape = "indexed"
        BY <2>17, <2>23
      <4> QED
        BY <2>19, <2>21, <4>1, OperandTaken
    <3>2. l = o + 1 + e
      BY <2>18, <3>1
    <3>3. l >= o + 1 /\ at + o < x
      BY <2>9, <3>2
    <3>4. e = Mos6809!IndexedExtension(post)
      BY <2>5, <2>21, <2>22, <3>3
    <3>5. Mos6809!IndexedDefined(post)
      BY <2>7, <2>17, <2>22, <2>23, <3>3 DEF Mos6809!Readable
    <3>6. Mos6809!indexed_cost(post) = {e}
      BY <2>22, <3>3, <3>4, <3>5, CostIsExtension
    <3>7. l - o - 1 = e
      BY <3>2
    <3> QED
      BY <3>6, <3>7
  <2>24. ASSUME row.shape = "stack"
         PROVE  Mos6809!transferred_bytes(post) = Mos6809!ListedBytes(row, post)
    <3>1. Mos6809!OperandLen(other, code, at + o) = 1
      <4>1. other.shape = "stack"
        BY <2>17, <2>24
      <4> QED
        BY <2>19, <4>1, OperandTaken
    <3>2. l >= o + 1
      BY <2>18, <3>1
    <3>3. post \in Nat
      BY <2>22, <3>2 DEF Byte
    <3> QED
      BY <3>3, ListMoves
  <2>25. post = out[k].bytes[Len(row.opcode) + 1] /\ Len(out[k].bytes) = l /\ Len(row.opcode) = o
    BY <2>1, <2>10, <2>11, <2>15, <2>20
  <2> QED
    BY <2>23, <2>24, <2>25, Zenon
<1> QED
  BY <1>1, TypeCorrect, ListedFromCode, PTL

------------------------------------------------------------------------------
(* One reading: only the rank of a row matters *)

\* What OneReading says of two readings, the first of a rank tried first.
SameLength(r, s) == s.rank = r.rank \/ r.length = 0 => s.length = r.length

\* All rows of the 6809 that stand at a place read as many bytes.
LEMMA One6809 ==
  ASSUME NEW c \in Seq(Byte), NEW p \in Nat, p < Len(c), NEW addr,
         NEW r \in Mos6809!Readings(c, p, addr), NEW s \in Mos6809!Readings(c, p, addr)
  PROVE  s.length = r.length
<1>1. PICK row \in Mos6809!Claims(c, p) : r = Mos6809!ReadingOf(row, c, p, addr)
  BY DEF Mos6809!Readings
<1>2. PICK other \in Mos6809!Claims(c, p) : s = Mos6809!ReadingOf(other, c, p, addr)
  BY DEF Mos6809!Readings
<1>3. PICK o \in 1..2, m \in 1..2 : o = Len(row.opcode) /\ m = Len(other.opcode)
  BY ClaimIsRow
<1>4. o = m /\ row.shape = other.shape
  <2>1. o <= m \/ m <= o
    OBVIOUS
  <2> QED
    BY <1>3, <2>1, OneShape
<1>5. Mos6809!OperandLen(row, c, p + o) = Mos6809!OperandLen(other, c, p + o)
  BY <1>4, Zenon DEF Mos6809!OperandLen
<1>6. Mos6809!LengthOf(row, c, p) = Mos6809!LengthOf(other, c, p)
  BY <1>3, <1>4, <1>5, Zenon DEF Mos6809!LengthOf
<1>7. Mos6809!Readable(row, c, p) <=> Mos6809!Readable(other, c, p)
  BY <1>3, <1>4, <1>6, Zenon DEF Mos6809!Readable
<1> QED
  BY <1>1, <1>2, <1>6, <1>7, PartsOfReading

\* The words of a row lie from its base up to the size of its fields.
LEMMA WordOfRow ==
  ASSUME NEW word \in Nat, NEW bits \in 0..12, NEW base \in Nat,
         word - (word % 2^bits) = base
  PROVE  base <= word /\ word < base + 2^bits
<1>1. PICK a \in Nat \ {0} : a = 2^bits
  <2>1. /\ 2^0 = 1 /\ 2^1 = 2 /\ 2^2 = 4 /\ 2^3 = 8 /\ 2^4 = 16 /\ 2^5 = 32 /\ 2^6 = 64 /\ 2^7 = 128
        /\ 2^8 = 256 /\ 2^9 = 512 /\ 2^10 = 1024 /\ 2^11 = 2048 /\ 2^12 = 4096
    OBVIOUS
  <2>2. \/ bits = 0 \/ bits = 1 \/ bits = 2 \/ bits = 3 \/ bits = 4 \/ bits = 5 \/ bits = 6 \/ bits = 7
        \/ bits = 8 \/ bits = 9 \/ bits = 10 \/ bits = 11 \/ bits = 12
    OBVIOUS
  <2>3. CASE bits = 0
    BY <2>1, <2>3
  <2>4. CASE bits = 1
    BY <2>1, <2>4
  <2>5. CASE bits = 2
    BY <2>1, <2>5
  <2>6. CASE bits = 3
    BY <2>1, <2>6
  <2>7. CASE bits = 4
    BY <2>1, <2>7
  <2>8. CASE bits = 5
    BY <2>1, <2>8
  <2>9. CASE bits = 6
    BY <2>1, <2>9
  <2>10. CASE bits = 7
    BY <2>1, <2>10
  <2>11. CASE bits = 8
    BY <2>1, <2>11
  <2>12. CASE bits = 9
    BY <2>1, <2>12
  <2>13. CASE bits = 10
    BY <2>1, <2>13
  <2>14. CASE bits = 11
    BY <2>1, <2>14
  <2>15. CASE bits = 12
    BY <2>1, <2>15
  <2> QED
    BY <2>2, <2>3, <2>4, <2>5, <2>6, <2>7, <2>8, <2>9, <2>10, <2>11, <2>12, <2>13, <2>14, <2>15, Zenon
<1>2. PICK z \in Int : z = word % a /\ 0 <= z /\ z < a
  BY <1>1
<1>3. word - z = base
  BY <1>1, <1>2
<1> QED
  BY <1>1, <1>2, <1>3

\* Rows that claim one word meet.
LEMMA RowsMeet ==
  ASSUME NEW word \in Nat, NEW base \in Nat, NEW other \in Nat,
         NEW bits \in 0..12, NEW others \in 0..12,
         word - (word % 2^bits) = base, word - (word % 2^others) = other
  PROVE  Meet(base, bits, other, others)
<1>1. base <= word /\ word < base + 2^bits
  BY WordOfRow
<1>2. other <= word /\ word < other + 2^others
  BY WordOfRow
<1>3. PICK a \in Int, b \in Int : a = 2^bits /\ b = 2^others
  OBVIOUS
<1>4. base < other + b /\ other < base + a
  BY <1>1, <1>2, <1>3
<1> QED
  BY <1>3, <1>4 DEF Meet

\* The rows of the PDP-11 that claim a word are alike but for the name.
LEMMA OnePdp11 ==
  ASSUME NEW c \in Seq(Byte), NEW p \in Nat, p + 2 <= Len(c), NEW addr,
         NEW r \in Pdp11!Readings(c, p, addr), NEW s \in Pdp11!Readings(c, p, addr)
  PROVE  s.length = r.length
<1>1. PICK word \in Nat : word = Pdp11!LittleWord(c, p)
  <2>1. PICK lo \in Byte, hi \in Byte : lo = c[p + 1] /\ hi = c[p + 2]
    <3>1. PICK x \in Nat : x = Len(c)
      BY LenProperties
    <3> QED
      BY <3>1, ElementOfSeq
  <2>2. Pdp11!LittleWord(c, p) = lo + 256 * hi
    BY <2>1, Zenon DEF Pdp11!LittleWord, Pdp11!WordOf
  <2> QED
    BY <2>2 DEF Byte
<1>2. PICK row \in Pdp11!Claims(word) : r = Pdp11!ReadingOf(row, c, p, addr)
  BY <1>1 DEF Pdp11!Readings
<1>3. PICK other \in Pdp11!Claims(word) : s = Pdp11!ReadingOf(other, c, p, addr)
  BY <1>1 DEF Pdp11!Readings
<1>4. /\ row \in Pdp11!INSTRUCTIONS /\ row.base \in Nat /\ Pdp11!FieldBits[row.class] \in 0..12
      /\ word - (word % 2^Pdp11!FieldBits[row.class]) = row.base
  BY RowsOfPdp11 DEF Pdp11!Claims
<1>5. /\ other \in Pdp11!INSTRUCTIONS /\ other.base \in Nat /\ Pdp11!FieldBits[other.class] \in 0..12
      /\ word - (word % 2^Pdp11!FieldBits[other.class]) = other.base
  BY RowsOfPdp11 DEF Pdp11!Claims
<1>7. Meet(row.base, Pdp11!FieldBits[row.class], other.base, Pdp11!FieldBits[other.class])
  BY <1>4, <1>5, RowsMeet
<1>8. /\ row.class = other.class /\ Pdp11!Fields(row) = Pdp11!Fields(other)
      /\ (row.mnemonic \in {"JMP", "WRTLCK"} <=> other.mnemonic \in {"JMP", "WRTLCK"})
  BY <1>4, <1>5, <1>7, RowsOfPdp11
<1>9. PICK n : n = Len(Pdp11!Fields(row)) /\ n = Len(Pdp11!Fields(other))
  BY <1>8
<1>10. PICK e : e = Pdp11!Extensions(row, word, n)
  OBVIOUS
<1>11. Pdp11!Extensions(other, word, n) = e
  BY <1>8, <1>10, Zenon DEF Pdp11!Extensions
<1>12. PICK illegal : illegal = (row.mnemonic \in {"JMP", "WRTLCK"} /\ (word % 64) \div 8 = 0)
  OBVIOUS
<1>13. (illegal \/ p + (2 + 2 * e) > Len(c)) =>
         r = Pdp11!Refusal(Pdp11!FieldBits[row.class]) /\ s = Pdp11!Refusal(Pdp11!FieldBits[other.class])
  BY <1>1, <1>2, <1>3, <1>8, <1>9, <1>10, <1>11, <1>12, Zenon DEF Pdp11!ReadingOf
<1>14. ~(illegal \/ p + (2 + 2 * e) > Len(c)) =>
         \E rank, text, rank2, text2 :
           r = Pdp11!Reading(rank, 2 + 2 * e, text) /\ s = Pdp11!Reading(rank2, 2 + 2 * e, text2)
  BY <1>1, <1>2, <1>3, <1>8, <1>9, <1>10, <1>11, <1>12, Zenon DEF Pdp11!ReadingOf
<1>15. \A rank : Pdp11!Refusal(rank).length = 0
  BY DEF Pdp11!Reading, Pdp11!Refusal, Pdp11!Text
<1>16. \A rank, text : Pdp11!Reading(rank, 2 + 2 * e, text).length = 2 + 2 * e
  BY DEF Pdp11!Reading
<1> QED
  BY <1>13, <1>14, <1>15, <1>16, Zenon

\* Those of the TMS9900 are of one class.
LEMMA OneTms9900 ==
  ASSUME NEW c \in Seq(Byte), NEW p \in Nat, p + 2 <= Len(c), NEW addr,
         NEW r \in Tms9900!Readings(c, p, addr), NEW s \in Tms9900!Readings(c, p, addr)
  PROVE  s.length = r.length
<1>1. PICK word \in Nat : word = Tms9900!BigWord(c, p)
  <2>1. PICK lo \in Byte, hi \in Byte : lo = c[p + 2] /\ hi = c[p + 1]
    <3>1. PICK x \in Nat : x = Len(c)
      BY LenProperties
    <3> QED
      BY <3>1, ElementOfSeq
  <2>2. Tms9900!BigWord(c, p) = lo + 256 * hi
    BY <2>1, Zenon DEF Tms9900!BigWord, Tms9900!WordOf
  <2> QED
    BY <2>2 DEF Byte
<1>2. PICK row \in Tms9900!Claims(word) : r = Tms9900!ReadingOf(row, c, p, addr)
  BY <1>1 DEF Tms9900!Readings
<1>3. PICK other \in Tms9900!Claims(word) : s = Tms9900!ReadingOf(other, c, p, addr)
  BY <1>1 DEF Tms9900!Readings
<1>4. /\ row \in Tms9900!INSTRUCTIONS /\ row.base \in Nat /\ Tms9900!FieldBits[row.class] \in 0..12
      /\ word - (word % 2^Tms9900!FieldBits[row.class]) = row.base
  BY RowsOfTms9900 DEF Tms9900!Claims
<1>5. /\ other \in Tms9900!INSTRUCTIONS /\ other.base \in Nat /\ Tms9900!FieldBits[other.class] \in 0..12
      /\ word - (word % 2^Tms9900!FieldBits[other.class]) = other.base
  BY RowsOfTms9900 DEF Tms9900!Claims
<1>7. Meet(row.base, Tms9900!FieldBits[row.class], other.base, Tms9900!FieldBits[other.class])
  BY <1>4, <1>5, RowsMeet
<1>8. row.class = other.class
  BY <1>4, <1>5, <1>7, RowsOfTms9900
<1>9. PICK n : n = Len(Tms9900!Fields[row.class])
  OBVIOUS
<1>10. PICK e : e = Tms9900!Extensions(row.class, word, n)
  OBVIOUS
<1>11. (p + (2 + 2 * e) > Len(c)) =>
         r = Tms9900!Refusal(Tms9900!FieldBits[row.class]) /\ s = Tms9900!Refusal(Tms9900!FieldBits[row.class])
  BY <1>1, <1>2, <1>3, <1>8, <1>9, <1>10, Zenon DEF Tms9900!ReadingOf
<1>12. ~(p + (2 + 2 * e) > Len(c)) =>
         \E rank, text, rank2, text2 :
           r = Tms9900!Reading(rank, 2 + 2 * e, text) /\ s = Tms9900!Reading(rank2, 2 + 2 * e, text2)
  BY <1>1, <1>2, <1>3, <1>8, <1>9, <1>10, Zenon DEF Tms9900!ReadingOf
<1>13. \A rank : Tms9900!Refusal(rank).length = 0
  BY DEF Tms9900!Reading, Tms9900!Refusal, Tms9900!Text
<1>14. \A rank, text : Tms9900!Reading(rank, 2 + 2 * e, text).length = 2 + 2 * e
  BY DEF Tms9900!Reading
<1> QED
  BY <1>11, <1>12, <1>13, <1>14, Zenon

\* Of the byte CPUs, rows of one rank are of one length, and one that has
\* nothing to read is never refused.
LEMMA OneByteCpu ==
  ASSUME NEW c \in Seq(Byte), NEW p \in Nat, p < Len(c), NEW addr, NEW chip \in Bytes!CPUS,
         NEW r \in Bytes!Readings(chip, c, p, addr), NEW s \in Bytes!Readings(chip, c, p, addr),
         r.rank <= s.rank
  PROVE  SameLength(r, s)
<1>1. c[p + 1] \in Byte
  BY LenProperties, ElementOfSeq
<1>2. PICK x \in Nat : x = Len(c)
  BY LenProperties
<1>3. PICK row \in Bytes!Claims(chip, c, p) : r = Bytes!ReadingOf(row, c, p, addr)
  BY DEF Bytes!Readings
<1>4. PICK other \in Bytes!Claims(chip, c, p) : s = Bytes!ReadingOf(other, c, p, addr)
  BY DEF Bytes!Readings
<1>5. row \in Bytes!Tables[chip] /\ other \in Bytes!Tables[chip]
  BY <1>1 DEF Bytes!Claims, Bytes!StartingWith, Bytes!Byte, Byte
<1>6. PICK o \in Nat : o = Len(row.opcode) /\ row.opcode = SubSeq(c, p + 1, p + o) /\ p + o <= x
  BY <1>2, <1>5, RowsOfByteCpus, LenProperties DEF Bytes!Claims
<1>7. PICK m \in Nat : m = Len(other.opcode) /\ other.opcode = SubSeq(c, p + 1, p + m) /\ p + m <= x
  BY <1>2, <1>5, RowsOfByteCpus, LenProperties DEF Bytes!Claims
<1>8. Begins(row.opcode, other.opcode) \/ Begins(other.opcode, row.opcode)
  <2>1. CASE o <= m
    <3>1. SubSeq(c, p + 1, p + o) = SubSeq(SubSeq(c, p + 1, p + m), 1, o)
      BY <1>2, <1>7, <2>1, FrontOfSlice
    <3> QED
      BY <1>6, <1>7, <2>1, <3>1, Zenon DEF Begins
  <2>2. CASE m <= o
    <3>1. SubSeq(c, p + 1, p + m) = SubSeq(SubSeq(c, p + 1, p + o), 1, m)
      BY <1>2, <1>6, <2>2, FrontOfSlice
    <3> QED
      BY <1>6, <1>7, <2>2, <3>1, Zenon DEF Begins
  <2> QED
    BY <2>1, <2>2
<1>9. /\ r.rank = row.rank
      /\ r.length = IF p + Bytes!RowLen(row) > Len(c) THEN 0 ELSE Bytes!RowLen(row)
  BY <1>3 DEF Bytes!ReadingOf, Bytes!Reading
<1>10. /\ s.rank = other.rank
       /\ s.length = IF p + Bytes!RowLen(other) > Len(c) THEN 0 ELSE Bytes!RowLen(other)
  BY <1>4 DEF Bytes!ReadingOf, Bytes!Reading
<1>11. CASE row.rank = other.rank
  <2>1. Bytes!RowLen(row) = Bytes!RowLen(other)
    BY <1>5, <1>8, <1>11, RowsOfByteCpus
  <2> QED
    BY <1>9, <1>10, <2>1, Zenon DEF SameLength
<1>12. CASE row.rank # other.rank
  <2>1. row.slots = <<>> /\ o # 0
    <3>1. row.slots = <<>>
      BY <1>5, <1>8, <1>9, <1>10, <1>12, RowsOfByteCpus
    <3>2. row.opcode \in Seq(Byte) /\ row.opcode # <<>>
      BY <1>5, RowsOfByteCpus
    <3> QED
      BY <1>6, <3>1, <3>2, EmptySeq
  <2>2. Bytes!RowLen(row) = o
    <3>1. Bytes!Before(row, 0) = 0
      <4>1. Bytes!Cardinality({}) = 0
        BY FS_EmptySet DEF Bytes!Cardinality, Cardinality
      <4>2. {k \in 1..0 : row.slots[k] \in Bytes!Wide} = {}
        OBVIOUS
      <4> QED
        BY <4>1, <4>2 DEF Bytes!Before
    <3>2. Len(row.slots) = 0
      BY <2>1
    <3>3. Bytes!RowLen(row) = o + 0
      BY <1>6, <3>1, <3>2, Zenon DEF Bytes!RowLen
    <3> QED
      BY <3>3
  <2>3. r.length # 0
    BY <1>2, <1>6, <1>9, <2>1, <2>2
  <2> QED
    BY <1>9, <1>10, <1>12, <2>3 DEF SameLength
<1> QED
  BY <1>11, <1>12

\* A field of four zero bits is zero.
LEMMA ZeroBits ==
  ASSUME NEW word \in Nat, NEW shift \in {0, 4},
         \A i \in shift .. shift + 3 : Z8000!BitAt(word, i) = 0
  PROVE  (word \div 2^shift) % 2^4 = 0
<1>1. /\ 2^0 = 1 /\ 2^1 = 2 /\ 2^2 = 4 /\ 2^3 = 8 /\ 2^4 = 16 /\ 2^5 = 32 /\ 2^6 = 64 /\ 2^7 = 128
  OBVIOUS
<1>2. CASE shift = 0
  <2>1. /\ (word \div 2^0) % 2 = 0 /\ (word \div 2^1) % 2 = 0
        /\ (word \div 2^2) % 2 = 0 /\ (word \div 2^3) % 2 = 0
    BY <1>2 DEF Z8000!BitAt
  <2>2. word % 2 = 0 /\ (word \div 2) % 2 = 0 /\ (word \div 4) % 2 = 0 /\ (word \div 8) % 2 = 0
    BY <1>1, <2>1
  <2>3. (word \div 1) % 16 = 0
    BY <2>2
  <2> QED
    BY <1>1, <1>2, <2>3, Zenon
<1>3. CASE shift = 4
  <2>1. /\ (word \div 2^4) % 2 = 0 /\ (word \div 2^5) % 2 = 0
        /\ (word \div 2^6) % 2 = 0 /\ (word \div 2^7) % 2 = 0
    BY <1>3 DEF Z8000!BitAt
  <2>2. /\ (word \div 16) % 2 = 0 /\ (word \div 32) % 2 = 0
        /\ (word \div 64) % 2 = 0 /\ (word \div 128) % 2 = 0
    BY <1>1, <2>1
  <2>3. (word \div 16) % 16 = 0
    BY <2>2
  <2> QED
    BY <1>1, <1>3, <2>3, Zenon
<1> QED
  BY <1>2, <1>3

\* The decoders refuse a field that may not be zero and is.
LEMMA LegalIsNotZero ==
  ASSUME NEW slot, NEW n, NEW c, NEW q, NEW seg,
         slot.kind \in NeverZero,
         Z8000!Legal(slot, n, c, q, seg)
  PROVE  n # 0
<1>1. CASE slot.kind = "pointer"
  <2>1. /\ slot.kind # "register" /\ slot.kind # "block pointer" /\ slot.kind # "port pointer"
        /\ slot.kind # "flags" /\ slot.kind # "bit" /\ slot.kind # "interrupts"
        /\ slot.kind # "control register" /\ slot.kind # "indexed" /\ slot.kind # "address"
        /\ slot.kind # "immediate" /\ slot.kind # "left" /\ slot.kind # "right"
    BY <1>1
  <2> QED
    BY <1>1, <2>1, Zenon DEF Z8000!Legal
<1>2. CASE slot.kind = "indexed"
  <2>1. /\ slot.kind # "register" /\ slot.kind # "block pointer" /\ slot.kind # "port pointer"
        /\ slot.kind # "flags" /\ slot.kind # "bit" /\ slot.kind # "interrupts"
        /\ slot.kind # "control register" /\ slot.kind # "pointer" /\ slot.kind # "address"
        /\ slot.kind # "immediate" /\ slot.kind # "left" /\ slot.kind # "right"
    BY <1>2
  <2> QED
    BY <1>2, <2>1, Zenon DEF Z8000!Legal
<1>3. CASE slot.kind \in {"port pointer", "flags"}
  <2>1. /\ slot.kind # "register" /\ slot.kind # "block pointer" /\ slot.kind # "pointer"
        /\ slot.kind # "bit" /\ slot.kind # "interrupts"
        /\ slot.kind # "control register" /\ slot.kind # "indexed" /\ slot.kind # "address"
        /\ slot.kind # "immediate" /\ slot.kind # "left" /\ slot.kind # "right"
    BY <1>3
  <2> QED
    BY <1>3, <2>1, Zenon DEF Z8000!Legal
<1> QED
  BY <1>1, <1>2, <1>3 DEF NeverZero

\* A count is of one sign.
LEMMA CountHasSign ==
  ASSUME NEW left, NEW right, NEW n, NEW m, NEW c, NEW q, NEW seg,
         left.kind = "left", right.kind = "right", left.size = right.size,
         Z8000!Legal(left, n, c, q, seg), Z8000!Legal(right, m, c, q, seg)
  PROVE  FALSE
<1>1. /\ Z8000!ShiftCountLegal(Z8000!BigWord(c, q), left.size)
      /\ Z8000!ShiftCount(Z8000!BigWord(c, q), left.size) >= 0
  <2>1. /\ left.kind # "register" /\ left.kind # "block pointer" /\ left.kind # "pointer"
        /\ left.kind \notin {"port pointer", "flags"} /\ left.kind # "bit" /\ left.kind # "interrupts"
        /\ left.kind # "control register" /\ left.kind # "indexed" /\ left.kind # "address"
        /\ left.kind # "immediate" /\ left.kind # "right"
    OBVIOUS
  <2> QED
    BY <2>1, Zenon DEF Z8000!Legal
<1>2. Z8000!ShiftCount(Z8000!BigWord(c, q), right.size) < 0
  <2>1. /\ right.kind # "register" /\ right.kind # "block pointer" /\ right.kind # "pointer"
        /\ right.kind \notin {"port pointer", "flags"} /\ right.kind # "bit" /\ right.kind # "interrupts"
        /\ right.kind # "control register" /\ right.kind # "indexed" /\ right.kind # "address"
        /\ right.kind # "immediate" /\ right.kind # "left"
    OBVIOUS
  <2> QED
    BY <2>1, Zenon DEF Z8000!Legal
<1>3. PICK count : count = Z8000!ShiftCount(Z8000!BigWord(c, q), left.size)
  OBVIOUS
<1>4. PICK limit : count \in -limit..limit
  BY <1>1, <1>3, Zenon DEF Z8000!ShiftCountLegal
<1>5. count >= 0 /\ count < 0
  BY <1>1, <1>2, <1>3, Zenon
<1> QED
  BY <1>4, <1>5

\* Rows that are apart do not both claim.
LEMMA ApartIsNotBoth ==
  ASSUME NEW seg, NEW c \in Seq(Byte), NEW p \in Nat, p + 2 <= Len(c),
         NEW row \in Z8000!Claims(c, p, seg), NEW other \in Z8000!Claims(c, p, seg),
         1 \in DOMAIN other.words, Z8000Apart(row, other)
  PROVE  FALSE
<1>1. Z8000!Matches(row, c, p) /\ Z8000!Matches(other, c, p)
  BY DEF Z8000!Claims
<1>2. /\ \A s \in DOMAIN row.slots :
           Z8000!Legal(row.slots[s], Z8000!Field(c, p, row.slots[s]), c, p + 2 * Len(row.words), seg)
      /\ \A s \in DOMAIN other.slots :
           Z8000!Legal(other.slots[s], Z8000!Field(c, p, other.slots[s]), c, p + 2 * Len(other.words), seg)
  BY DEF Z8000!Claims
<1>3. CASE \E w \in DOMAIN row.words \cap DOMAIN other.words :
             \E i \in Z8000!Fixed(row, w) \cap Z8000!Fixed(other, w) :
               Z8000!BitAt(row.words[w], i) # Z8000!BitAt(other.words[w], i)
  BY <1>1, <1>3, Zenon DEF Z8000!Matches
<1>4. CASE \E s \in DOMAIN row.slots :
             /\ row.slots[s].kind \in NeverZero
             /\ row.slots[s].word = 1 /\ row.slots[s].shift \in {0, 4} /\ row.slots[s].width = 4
             /\ \A i \in row.slots[s].shift .. row.slots[s].shift + 3 :
                  i \in Z8000!Fixed(other, 1) /\ Z8000!BitAt(other.words[1], i) = 0
  <2>1. PICK s \in DOMAIN row.slots :
             /\ row.slots[s].kind \in NeverZero
             /\ row.slots[s].word = 1 /\ row.slots[s].shift \in {0, 4} /\ row.slots[s].width = 4
             /\ \A i \in row.slots[s].shift .. row.slots[s].shift + 3 :
                  i \in Z8000!Fixed(other, 1) /\ Z8000!BitAt(other.words[1], i) = 0
    BY <1>4, Zenon
  <2>2. PICK slot : slot = row.slots[s]
    OBVIOUS
  <2>3. PICK word \in Nat : word = Z8000!BigWord(c, p)
    <3>1. PICK lo \in Byte, hi \in Byte : lo = c[p + 2] /\ hi = c[p + 1]
      <4>1. PICK x \in Nat : x = Len(c)
        BY LenProperties
      <4> QED
        BY <4>1, ElementOfSeq
    <3>2. Z8000!BigWord(c, p) = lo + 256 * hi
      BY <3>1, Zenon DEF Z8000!BigWord, Z8000!WordOf
    <3> QED
      BY <3>2 DEF Byte
  <2>4. p + 2 * (1 - 1) = p
    OBVIOUS
  <2>5. \A i \in slot.shift .. slot.shift + 3 : Z8000!BitAt(word, i) = 0
    BY <1>1, <2>1, <2>2, <2>3, <2>4, Zenon DEF Z8000!Matches
  <2>6. (word \div 2^slot.shift) % 2^4 = 0
    BY <2>1, <2>2, <2>5, ZeroBits
  <2>7. Z8000!Field(c, p, slot) = 0
    BY <2>1, <2>2, <2>3, <2>4, <2>6, Zenon DEF Z8000!Field
  <2>8. PICK n, q : n = 0 /\ Z8000!Legal(slot, n, c, q, seg)
    BY <1>2, <2>2, <2>7, Zenon
  <2>9. slot.kind \in NeverZero
    BY <2>1, <2>2
  <2>10. n # 0
    BY <2>8, <2>9, LegalIsNotZero
  <2> QED
    BY <2>8, <2>10
<1>5. CASE /\ Len(row.words) = Len(other.words)
           /\ \E s \in DOMAIN row.slots, t \in DOMAIN other.slots :
                /\ row.slots[s].kind = "left" /\ other.slots[t].kind = "right"
                /\ row.slots[s].size = other.slots[t].size
  <2>1. PICK s \in DOMAIN row.slots, t \in DOMAIN other.slots :
                /\ row.slots[s].kind = "left" /\ other.slots[t].kind = "right"
                /\ row.slots[s].size = other.slots[t].size
    BY <1>5
  <2>2. PICK q : q = p + 2 * Len(row.words) /\ q = p + 2 * Len(other.words)
    BY <1>5
  <2>3. /\ Z8000!Legal(row.slots[s], Z8000!Field(c, p, row.slots[s]), c, q, seg)
        /\ Z8000!Legal(other.slots[t], Z8000!Field(c, p, other.slots[t]), c, q, seg)
    BY <1>2, <2>2, Zenon
  <2> QED
    BY <2>1, <2>3, CountHasSign
<1> QED
  BY <1>3, <1>4, <1>5, Zenon DEF Z8000Apart

\* One row of the Z8000 claims the bytes.
LEMMA OneZ8000 ==
  ASSUME NEW seg \in BOOLEAN, NEW c \in Seq(Byte), NEW p \in Nat, p + 2 <= Len(c), NEW addr,
         NEW r \in Z8000!Readings(c, p, addr, seg), NEW s \in Z8000!Readings(c, p, addr, seg)
  PROVE  s = r
<1>1. PICK row \in Z8000!Claims(c, p, seg) : r = Z8000!ReadingOf(row, c, p, addr, seg)
  BY DEF Z8000!Readings
<1>2. PICK other \in Z8000!Claims(c, p, seg) : s = Z8000!ReadingOf(other, c, p, addr, seg)
  BY DEF Z8000!Readings
<1>3. PICK b \in Byte : b = c[p + 1]
  <2>1. PICK x \in Nat : x = Len(c)
    BY LenProperties
  <2> QED
    BY <2>1, ElementOfSeq
<1>4. row \in Z8000!StartingWith[seg][b] /\ other \in Z8000!StartingWith[seg][b]
  BY <1>3 DEF Z8000!Claims
<1>5. row \in Z8000!Rows[seg] /\ other \in Z8000!Rows[seg]
  BY <1>4, <1>3 DEF Z8000!StartingWith, Z8000!Byte, Byte
<1>6. 1 \in DOMAIN row.words /\ 1 \in DOMAIN other.words
  BY <1>5, RowsOfZ8000
<1>7. row = other
  <2>1. SUFFICES ASSUME row # other PROVE FALSE
    OBVIOUS
  <2>2. Z8000Apart(row, other) \/ Z8000Apart(other, row)
    BY <1>4, <2>1, RowsOfZ8000
  <2> QED
    BY <1>6, <2>2, ApartIsNotBoth
<1> QED
  BY <1>1, <1>2, <1>7

(***************************************************************************)
(* Only the rank of a row decides what the bytes at the cursor read as,    *)
(* and of the Z8000's decoders none but one reads them.                    *)
(***************************************************************************)
THEOREM OneReadingAlways == Spec => []OneReading
<1>1. TypeOK => OneReading
  <2> SUFFICES ASSUME TypeOK, pos + Unit <= Len(code),
                      NEW r \in First(Readings(code, pos, AddrAt(pos))),
                      NEW s \in Readings(code, pos, AddrAt(pos))
               PROVE  SameLength(r, s) /\ (cpu \in Z8000s => s = r)
    BY Zenon DEF OneReading, SameLength
  <2>1. code \in Seq(Byte) /\ pos \in Nat /\ cpu \in DOMAIN Codes
    BY CodesAreBytes DEF TypeOK
  <2>2. PICK l \in Nat : l = Len(code)
    BY <2>1, LenProperties
  <2>3. PICK a : a = AddrAt(pos)
    OBVIOUS
  <2>4. r \in Readings(code, pos, a) /\ s \in Readings(code, pos, a) /\ r.rank <= s.rank
    BY <2>3 DEF First
  <2>5. pos < Len(code)
    BY <2>1, <2>2 DEF Unit
  <2>6. CASE cpu = "6809"
    <3>1. r \in Mos6809!Readings(code, pos, a) /\ s \in Mos6809!Readings(code, pos, a)
      BY <2>4, <2>6 DEF Readings, Z8000s
    <3>2. s.length = r.length
      BY <2>1, <2>5, <3>1, One6809
    <3> QED
      BY <2>6, <3>2 DEF SameLength, Z8000s
  <2>7. CASE cpu = "pdp11"
    <3>1. r \in Pdp11!Readings(code, pos, a) /\ s \in Pdp11!Readings(code, pos, a)
      BY <2>4, <2>7 DEF Readings, Z8000s
    <3>2. pos + 2 <= Len(code)
      BY <2>7 DEF Unit
    <3>3. s.length = r.length
      BY <2>1, <3>1, <3>2, OnePdp11
    <3> QED
      BY <2>7, <3>3 DEF SameLength, Z8000s
  <2>8. CASE cpu = "tms9900"
    <3>1. r \in Tms9900!Readings(code, pos, a) /\ s \in Tms9900!Readings(code, pos, a)
      BY <2>4, <2>8 DEF Readings, Z8000s
    <3>2. pos + 2 <= Len(code)
      BY <2>8 DEF Unit
    <3>3. s.length = r.length
      BY <2>1, <3>1, <3>2, OneTms9900
    <3> QED
      BY <2>8, <3>3 DEF SameLength, Z8000s
  <2>9. CASE cpu \in Z8000s
    <3>1. /\ r \in Z8000!Readings(code, pos, a, cpu = "z8001")
          /\ s \in Z8000!Readings(code, pos, a, cpu = "z8001")
      BY <2>4, <2>9 DEF Readings, Z8000s
    <3>2. PICK seg \in BOOLEAN : seg = (cpu = "z8001")
      OBVIOUS
    <3>3. pos + 2 <= Len(code)
      BY <2>9 DEF Unit
    <3>4. s = r
      BY <2>1, <3>1, <3>2, <3>3, OneZ8000
    <3> QED
      BY <3>4, Zenon DEF SameLength
  <2>10. CASE cpu \notin {"6809", "pdp11", "tms9900"} \cup Z8000s
    <3>1. r \in Bytes!Readings(cpu, code, pos, a) /\ s \in Bytes!Readings(cpu, code, pos, a)
      BY <2>4, <2>10 DEF Readings
    <3>2. cpu \in Bytes!CPUS
      BY <2>1, <2>10, CpusAreKnown
    <3>3. SameLength(r, s)
      BY <2>1, <2>4, <2>5, <3>1, <3>2, OneByteCpu
    <3> QED
      BY <2>10, <3>3
  <2> QED
    BY <2>6, <2>7, <2>8, <2>9, <2>10
<1> QED
  BY TypeCorrect, <1>1, PTL

(***************************************************************************)
(* The round trip of the CPUs over byte tables: what a slot's text says,   *)
(* what the assembler makes of it, and the row it finds.                   *)
(***************************************************************************)

\* The operators of Words, as the byte CPUs see them.
LEMMA SameWords ==
  /\ \A v : Bytes!LoByte(v) = LoByte(v) /\ Bytes!HiByte(v) = HiByte(v) /\ Bytes!AsI8(v) = AsI8(v)
  /\ \A v : Bytes!Wrap16(v) = Wrap16(v) /\ Bytes!AsI16(v) = AsI16(v)
  /\ \A v, w : Bytes!WordOf(v, w) = WordOf(v, w)
  /\ \A v, w : Bytes!Distance(v, w) = AsI16(Wrap16(v - w))
  /\ Bytes!Byte = Byte
BY DEF Bytes!LoByte, LoByte, Bytes!HiByte, HiByte, Bytes!AsI8, AsI8, Bytes!Wrap16, Wrap16,
       Bytes!AsI16, AsI16, Bytes!WordOf, WordOf, Bytes!Byte, Byte, Bytes!Distance

\* How many bytes a slot of each kind has.
SlotSize(slot) == IF slot \in Bytes!Wide THEN 2 ELSE 1

\* Each slot follows on the one before.
LEMMA BeforeNext ==
  ASSUME NEW row, NEW n \in Nat
  PROVE  /\ Bytes!Before(row, 0) = 0
         /\ Bytes!Before(row, n) \in Nat
         /\ Bytes!Before(row, n + 1) = Bytes!Before(row, n) + SlotSize(row.slots[n + 1])
<1> DEFINE T(m) == {s \in 1..m : row.slots[s] \in Bytes!Wide}
<1>1. \A m \in Nat : IsFiniteSet(T(m)) /\ Cardinality(T(m)) \in Nat
  <2> SUFFICES ASSUME NEW m \in Nat PROVE IsFiniteSet(T(m)) /\ Cardinality(T(m)) \in Nat
    OBVIOUS
  <2>1. IsFiniteSet(1..m)
    BY FS_Interval
  <2>2. T(m) \in SUBSET (1..m)
    OBVIOUS
  <2> QED
    BY <2>1, <2>2, FS_Subset, FS_CardinalityType
<1>2. \A m : Bytes!Before(row, m) = m + Cardinality(T(m))
  BY DEF Bytes!Before, Bytes!Cardinality, Cardinality
<1>3. Bytes!Before(row, 0) = 0
  <2>1. T(0) = {}
    OBVIOUS
  <2>2. Cardinality({}) = 0
    BY FS_EmptySet
  <2>3. Bytes!Before(row, 0) = 0 + Cardinality(T(0))
    BY <1>2
  <2> QED
    BY <2>1, <2>2, <2>3
<1>4. CASE row.slots[n + 1] \in Bytes!Wide
  <2>1. T(n + 1) = T(n) \cup {n + 1}
    BY <1>4
  <2>2. n + 1 \notin T(n)
    OBVIOUS
  <2>3. Cardinality(T(n + 1)) = Cardinality(T(n)) + 1
    BY <1>1, <2>1, <2>2, FS_AddElement
  <2>4. SlotSize(row.slots[n + 1]) = 2
    BY <1>4 DEF SlotSize
  <2> HIDE DEF T
  <2>5. Bytes!Before(row, n) = n + Cardinality(T(n)) /\ Bytes!Before(row, n + 1) = (n + 1) + Cardinality(T(n + 1))
    BY <1>2
  <2>6. PICK k \in Nat : k = Cardinality(T(n))
    BY <1>1
  <2> QED
    BY <1>3, <2>3, <2>4, <2>5, <2>6
<1>5. CASE row.slots[n + 1] \notin Bytes!Wide
  <2>1. T(n + 1) = T(n)
    BY <1>5
  <2>4. SlotSize(row.slots[n + 1]) = 1
    BY <1>5 DEF SlotSize
  <2> HIDE DEF T
  <2>5. Bytes!Before(row, n) = n + Cardinality(T(n)) /\ Bytes!Before(row, n + 1) = (n + 1) + Cardinality(T(n + 1))
    BY <1>2
  <2>6. PICK k \in Nat : k = Cardinality(T(n))
    BY <1>1
  <2> QED
    BY <1>3, <2>1, <2>4, <2>5, <2>6
<1> QED
  BY <1>4, <1>5

\* The bytes of a slot's value, in the slot's order.
SlotBytes(slot, v) ==
  IF slot \in {"word", "abs"} THEN <<LoByte(v), HiByte(v)>>
  ELSE IF slot \in Bytes!Wide THEN <<HiByte(v), LoByte(v)>>
  ELSE <<v>>

\* The value of a slot is a byte or a word, and its bytes those it was read from.
LEMMA ValueRead ==
  ASSUME NEW slot, NEW c \in Seq(Byte), NEW q \in Nat, q + SlotSize(slot) <= Len(c)
  PROVE  /\ slot \in Bytes!Wide => Bytes!Value(slot, c, q) \in Word16
         /\ slot \notin Bytes!Wide => Bytes!Value(slot, c, q) \in Byte
         /\ SlotBytes(slot, Bytes!Value(slot, c, q)) = Slice(c, q, q + SlotSize(slot))
<1>1. CASE slot \notin Bytes!Wide
  <2>1. slot \notin {"word", "abs"} /\ SlotSize(slot) = 1
    BY <1>1 DEF SlotSize, Bytes!Wide
  <2>2. Bytes!Value(slot, c, q) = c[q + 1]
    BY <1>1, <2>1 DEF Bytes!Value
  <2>3. SlotBytes(slot, c[q + 1]) = <<c[q + 1]>>
    BY <1>1, <2>1 DEF SlotBytes
  <2> QED
    BY <1>1, <2>1, <2>2, <2>3, OneByte DEF Slice
<1>2. CASE slot \in Bytes!Wide
  <2>1. SlotSize(slot) = 2
    BY <1>2 DEF SlotSize
  <2>2. c[q + 1] \in Byte /\ c[q + 2] \in Byte /\ Slice(c, q, q + 2) = <<c[q + 1], c[q + 2]>>
    BY <2>1, TwoBytes DEF Slice
  <2>3. CASE slot \in {"word", "abs"}
    <3>1. PICK v : v = WordOf(c[q + 1], c[q + 2])
      OBVIOUS
    <3>2. Bytes!Value(slot, c, q) = v
      BY <2>3, <3>1, SameWords DEF Bytes!Value, Bytes!LittleWord
    <3>3. v \in Word16 /\ LoByte(v) = c[q + 1] /\ HiByte(v) = c[q + 2]
      BY <2>2, <3>1, WordRoundTrip
    <3> QED
      BY <1>2, <2>1, <2>2, <2>3, <3>2, <3>3 DEF SlotBytes
  <2>4. CASE slot \notin {"word", "abs"}
    <3>1. PICK v : v = WordOf(c[q + 2], c[q + 1])
      OBVIOUS
    <3>2. Bytes!Value(slot, c, q) = v
      BY <1>2, <2>4, <3>1, SameWords DEF Bytes!Value, Bytes!BigWord
    <3>3. v \in Word16 /\ LoByte(v) = c[q + 2] /\ HiByte(v) = c[q + 1]
      BY <2>2, <3>1, WordRoundTrip
    <3> QED
      BY <1>2, <2>1, <2>2, <2>4, <3>2, <3>3 DEF SlotBytes
  <2> QED
    BY <2>3, <2>4
<1> QED
  BY <1>1, <1>2

\* An operand has its syntax; one of one number has that.
LEMMA OperandSyntax ==
  ASSUME NEW syntax, NEW numbers
  PROVE  Bytes!Operand(syntax, numbers).syntax = syntax
BY DEF Bytes!Operand

LEMMA OperandParts ==
  ASSUME NEW syntax, NEW n
  PROVE  Bytes!Operand(syntax, <<n>>).syntax = syntax /\ Bytes!Operand(syntax, <<n>>).numbers[1] = n
BY DEF Bytes!Operand

\* A byte as a displacement, and a displacement of seven bits.
LEMMA DisplacementKept ==
  ASSUME NEW v \in Byte, NEW base \in Int
  PROVE  /\ AsI8(v) \in -128..127 /\ LoByte(AsI8(v)) = v
         /\ AsI16(Wrap16(Wrap16(base + AsI8(v)) - base)) = AsI8(v)
         /\ AsI16(Wrap16(Wrap16(base + AsI8(v)) - Wrap16(base))) = AsI8(v)
<1>1. AsI8(v) \in -128..127 /\ LoByte(AsI8(v)) = v
  BY SignedByteRoundTrip
<1>2. AsI8(v) \in Int /\ AsI16(Wrap16(AsI8(v))) = AsI8(v)
  BY <1>1, ByteIsSignedWord
<1>3. AsI16(Wrap16(Wrap16(base + AsI8(v)) - base)) = AsI8(v)
  BY <1>2, OffsetOfWideTarget
<1>4. AsI16(Wrap16(Wrap16(base + AsI8(v)) - Wrap16(base))) = AsI8(v)
  BY <1>1, BranchRoundTrip
<1> QED
  BY <1>1, <1>3, <1>4

LEMMA ShortDisplacementKept ==
  ASSUME NEW v \in Byte, NEW base \in Int
  PROVE  LET d == Bytes!AsI7(v % 128)
         IN  /\ d \in -64..63 /\ d % 128 = v % 128
             /\ AsI16(Wrap16(Wrap16(base + d) - Wrap16(base))) = d
             /\ v = (v % 128) + (IF Bytes!HasBit(v, 128) THEN 128 ELSE 0)
<1>1. PICK n \in Int : n = v /\ 0 <= n /\ n < 256
  BY DEF Byte
<1>2. PICK r \in Int, k \in Int : r = n % 128 /\ k = n \div 128
  BY <1>1
<1>3. 0 <= r /\ r < 128 /\ (k = 0 \/ k = 1) /\ n = 128 * k + r
  BY <1>1, <1>2
<1>4. PICK d \in -64..63 : d = Bytes!AsI7(r) /\ d % 128 = r
  <2>1. CASE r < 64
    <3>1. Bytes!AsI7(r) = r
      BY <1>3, <2>1 DEF Bytes!AsI7
    <3> QED
      BY <1>3, <2>1, <3>1
  <2>2. CASE r >= 64
    <3>1. Bytes!AsI7(r) = r - 128
      BY <1>3, <2>2 DEF Bytes!AsI7
    <3>2. (r - 128) % 128 = r /\ r - 128 \in -64..63
      BY <1>3, <2>2
    <3> QED
      BY <3>1, <3>2
  <2> QED
    BY <1>3, <2>1, <2>2
<1>5. AsI16(Wrap16(Wrap16(base + d) - Wrap16(base))) = d
  <2>1. d \in -128..127
    OBVIOUS
  <2> QED
    BY <2>1, BranchRoundTrip
<1>6. Bytes!HasBit(v, 128) <=> k = 1
  BY <1>1, <1>2, <1>3, SMTT(30) DEF Bytes!HasBit
<1> QED
  BY <1>1, <1>2, <1>3, <1>4, <1>5, <1>6

\* What the slots of a row lay down for what they show is what they read: those
\* of one byte.
LEMMA NarrowKept ==
  ASSUME NEW row, NEW slot, slot \in Narrow, NEW v, v \in Byte, NEW addr, addr \in Int,
         NEW next, next \in Int, row.opcode[1] \in Byte
  PROVE  Bytes!Laid(row, slot, Bytes!Shown(row, slot, v, addr, next), addr, next) = {<<v>>}
<1>1. /\ AsI8(v) \in -128..127 /\ LoByte(AsI8(v)) = v /\ LoByte(v) = v
      /\ v \in Int /\ 0 <= v /\ v < 256
  <2>1. v \in Int /\ 0 <= v /\ v < 256
    BY DEF Byte
  <2>2. AsI8(v) \in -128..127 /\ LoByte(AsI8(v)) = v /\ LoByte(v) = v
    BY SignedByteRoundTrip, ByteRoundTrip
  <2> QED
    BY <2>1, <2>2
<1>2. CASE slot = "byte"
  <2>1. Bytes!Shown(row, slot, v, addr, next) = Bytes!Operand("n", <<v>>)
    BY <1>2, SMTT(20) DEF Bytes!Shown
  <2>2. PICK op : op = Bytes!Operand("n", <<v>>) /\ op.syntax = "n" /\ op.numbers[1] = v
    BY OperandParts
  <2>3. Bytes!Laid(row, slot, op, addr, next) = {<<v>>}
    BY <1>2, <2>2, SMTT(20) DEF Bytes!Laid, Bytes!Byte, Byte
  <2> QED
    BY <2>1, <2>2, <2>3
<1>3. CASE slot = "disp"
  <2>1. Bytes!Shown(row, slot, v, addr, next) = Bytes!Operand("n", <<AsI8(v)>>)
    BY <1>3, SameWords, SMTT(20) DEF Bytes!Shown
  <2>2. PICK op : op = Bytes!Operand("n", <<AsI8(v)>>) /\ op.syntax = "n" /\ op.numbers[1] = AsI8(v)
    BY OperandParts
  <2>3. Bytes!Laid(row, slot, op, addr, next) = {<<LoByte(AsI8(v))>>}
    BY <1>1, <1>3, <2>2, SameWords, SMTT(20) DEF Bytes!Laid
  <2> QED
    BY <1>1, <2>1, <2>2, <2>3
<1>4. CASE slot = "e-disp" /\ v = 128
  <2>1. Bytes!Shown(row, slot, v, addr, next) = Bytes!Operand("e", <<>>)
    BY <1>4, SMTT(20) DEF Bytes!Shown
  <2>2. PICK op : op = Bytes!Operand("e", <<>>) /\ op.syntax = "e"
    BY OperandSyntax
  <2>3. Bytes!Laid(row, slot, op, addr, next) = {<<128>>}
    BY <1>4, <2>2, SMTT(20) DEF Bytes!Laid
  <2> QED
    BY <1>4, <2>1, <2>2, <2>3
<1>5. CASE slot = "e-disp" /\ v # 128
  <2>1. Bytes!Shown(row, slot, v, addr, next) = Bytes!Operand("n", <<AsI8(v)>>)
    BY <1>5, SameWords, SMTT(20) DEF Bytes!Shown
  <2>2. PICK op : op = Bytes!Operand("n", <<AsI8(v)>>) /\ op.syntax = "n" /\ op.numbers[1] = AsI8(v)
    BY OperandParts
  <2>3. Bytes!Laid(row, slot, op, addr, next) = {<<LoByte(AsI8(v))>>}
    BY <1>1, <1>5, <2>2, SameWords, SMTT(20) DEF Bytes!Laid
  <2> QED
    BY <1>1, <2>1, <2>2, <2>3
<1>6. CASE slot = "rel"
  <2>1. PICK n : n = Wrap16(next + AsI8(v))
    OBVIOUS
  <2>2. Bytes!Shown(row, slot, v, addr, next) = Bytes!Operand("n", <<n>>)
    BY <1>6, <2>1, SameWords, SMTT(20) DEF Bytes!Shown
  <2>3. PICK op : op = Bytes!Operand("n", <<n>>) /\ op.syntax = "n" /\ op.numbers[1] = n
    BY OperandParts
  <2>4. AsI16(Wrap16(n - next)) = AsI8(v)
    BY <2>1, DisplacementKept
  <2>5. Bytes!Distance(n, next) = AsI8(v)
    BY <2>4, SameWords
  <2>6. Bytes!Laid(row, slot, op, addr, next) = {<<LoByte(AsI8(v))>>}
    BY <1>1, <1>6, <2>3, <2>5, SameWords, SMTT(20) DEF Bytes!Laid
  <2> QED
    BY <1>1, <2>2, <2>3, <2>6
<1>7. CASE slot = "offset"
  <2>1. PICK n : n = Wrap16(addr + 1 + AsI8(v))
    OBVIOUS
  <2>2. Bytes!Shown(row, slot, v, addr, next) = Bytes!Operand("n", <<n>>)
    BY <1>7, <2>1, SameWords, SMTT(20) DEF Bytes!Shown
  <2>3. PICK op : op = Bytes!Operand("n", <<n>>) /\ op.syntax = "n" /\ op.numbers[1] = n
    BY OperandParts
  <2>4. AsI16(Wrap16(n - Wrap16(addr + 1))) = AsI8(v)
    <3>1. PICK b \in Int : b = addr + 1
      OBVIOUS
    <3>2. n = Wrap16(b + AsI8(v))
      BY <2>1, <3>1
    <3> QED
      BY <3>1, <3>2, DisplacementKept
  <2>5. Bytes!Distance(n, Bytes!Wrap16(addr + 1)) = AsI8(v)
    BY <2>4, SameWords
  <2>6. Bytes!Laid(row, slot, op, addr, next) = {<<LoByte(AsI8(v))>>}
    BY <1>1, <1>7, <2>3, <2>5, SameWords, SMTT(20) DEF Bytes!Laid
  <2> QED
    BY <1>1, <2>2, <2>3, <2>6
<1>8. CASE slot = "page"
  <2>1. PICK n : n = addr - (addr % 256) + v
    OBVIOUS
  <2>2. Bytes!Shown(row, slot, v, addr, next) = Bytes!Operand("n", <<n>>)
    BY <1>8, <2>1, SMTT(20) DEF Bytes!Shown, Bytes!OnPage
  <2>3. PICK op : op = Bytes!Operand("n", <<n>>) /\ op.syntax = "n" /\ op.numbers[1] = n
    BY OperandParts
  <2>4. LoByte(n) = v
    BY <1>1, <2>1 DEF LoByte
  <2>5. Bytes!Laid(row, slot, op, addr, next) = {<<LoByte(n)>>}
    BY <1>8, <2>3, SameWords, SMTT(20) DEF Bytes!Laid
  <2> QED
    BY <2>2, <2>3, <2>4, <2>5
<1>9. CASE slot = "low11"
  <2>1. PICK k \in Int : k = row.opcode[1] \div 32
    BY DEF Byte
  <2>2. PICK n : n = 256 * k + v
    OBVIOUS
  <2>3. Bytes!Shown(row, slot, v, addr, next) = Bytes!Operand("n", <<n>>)
    BY <1>9, <2>1, <2>2, SMTT(20) DEF Bytes!Shown
  <2>4. PICK op : op = Bytes!Operand("n", <<n>>) /\ op.syntax = "n" /\ op.numbers[1] = n
    BY OperandParts
  <2>5. LoByte(n) = v /\ n \div 256 = k
    BY <1>1, <2>1, <2>2 DEF LoByte
  <2>6. Bytes!Laid(row, slot, op, addr, next) = {<<LoByte(n)>>}
    BY <1>9, <2>1, <2>4, <2>5, SameWords, SMTT(20) DEF Bytes!Laid
  <2> QED
    BY <2>3, <2>4, <2>5, <2>6
<1>10. CASE slot = "zp"
  <2>1. Bytes!Shown(row, slot, v, addr, next) = Bytes!Operand("n", <<v>>)
    BY <1>10, SMTT(20) DEF Bytes!Shown
  <2>2. PICK op : op = Bytes!Operand("n", <<v>>) /\ op.syntax = "n" /\ op.numbers[1] = v
    BY OperandParts
  <2>3. Bytes!Laid(row, slot, op, addr, next) = {<<v>>}
    BY <1>1, <1>10, <2>2, SMTT(20) DEF Bytes!Laid
  <2> QED
    BY <2>1, <2>2, <2>3
<1>11. CASE slot = "rel7"
  <2>1. PICK d : d = Bytes!AsI7(v % 128)
    OBVIOUS
  <2>2. PICK n : n = Wrap16(addr + 2 + d)
    OBVIOUS
  <2>3. PICK y : y = Bytes!Starred(v, 128)
    OBVIOUS
  <2>4. Bytes!Shown(row, slot, v, addr, next) = Bytes!Operand(y, <<n>>)
    BY <1>11, <2>1, <2>2, <2>3, SameWords, SMTT(20) DEF Bytes!Shown
  <2>5. PICK op : op = Bytes!Operand(y, <<n>>) /\ op.syntax = y /\ op.numbers[1] = n
    BY OperandParts
  <2>6. PICK b \in Int : b = addr + 2 /\ n = Wrap16(b + d)
    BY <2>2
  <2>7. /\ d \in -64..63 /\ d % 128 = v % 128
        /\ AsI16(Wrap16(n - Wrap16(addr + 2))) = d
        /\ v = (v % 128) + (IF Bytes!HasBit(v, 128) THEN 128 ELSE 0)
    BY <2>1, <2>6, ShortDisplacementKept
  <2>8. Bytes!Distance(n, Bytes!Wrap16(addr + 2)) = d
    BY <2>7, SameWords
  <2>9. (y = "n" /\ ~Bytes!HasBit(v, 128)) \/ (y = "*n" /\ Bytes!HasBit(v, 128))
    BY <2>3 DEF Bytes!Starred
  <2>10. Bytes!Laid(row, slot, op, addr, next) = {<<(d % 128) + (IF y = "*n" THEN 128 ELSE 0)>>}
    BY <1>11, <2>5, <2>7, <2>8, <2>9, SMTT(20) DEF Bytes!Laid
  <2>11. (d % 128) + (IF y = "*n" THEN 128 ELSE 0) = v
    BY <2>7, <2>9
  <2> QED
    BY <2>4, <2>5, <2>10, <2>11
<1> QED
  BY <1>2, <1>3, <1>4, <1>5, <1>6, <1>7, <1>8, <1>9, <1>10, <1>11 DEF Narrow

\* The bytes of a word without its highest bit, and of one that has it.
LEMMA HighBit ==
  ASSUME NEW v \in Word16
  PROVE  /\ v % 32768 \in Nat /\ v % 32768 < 32768
         /\ v = (v % 32768) + (IF Bytes!HasBit(v, 32768) THEN 32768 ELSE 0)
<1>1. v \in Int /\ 0 <= v /\ v < 65536
  BY SMTT(60) DEF Word16
<1>2. PICK r \in Int, k \in Int : r = v % 32768 /\ k = v \div 32768
  BY <1>1
<1>3. 0 <= r /\ r < 32768 /\ (k = 0 \/ k = 1) /\ v = 32768 * k + r
  BY <1>1, <1>2
<1>4. Bytes!HasBit(v, 32768) <=> k = 1
  BY <1>2, <1>3 DEF Bytes!HasBit
<1> QED
  BY <1>2, <1>3, <1>4

\* Those of two bytes.
LEMMA WideKept ==
  ASSUME NEW row, NEW slot \in Bytes!Wide, NEW v \in Word16, NEW addr, NEW next,
         slot = "memref" => Bytes!IndexControl(row, v) = 0 /\ v % 32768 < 8192
  PROVE  Bytes!Laid(row, slot, Bytes!Shown(row, slot, v, addr, next), addr, next) = {SlotBytes(slot, v)}
<1>1. /\ Bytes!LittleBytes(v) = <<LoByte(v), HiByte(v)>>
      /\ Bytes!BigBytes(v) = <<HiByte(v), LoByte(v)>>
  BY SameWords DEF Bytes!LittleBytes, Bytes!BigBytes
<1>2. SlotBytes(slot, v) = IF slot \in {"word", "abs"} THEN Bytes!LittleBytes(v) ELSE Bytes!BigBytes(v)
  BY <1>1 DEF SlotBytes
<1>3. CASE slot \in {"word", "WORD"}
  <2>1. Bytes!Shown(row, slot, v, addr, next) = Bytes!Operand("n", <<v>>)
    BY <1>3, SMTT(20) DEF Bytes!Shown
  <2>2. PICK op : op = Bytes!Operand("n", <<v>>) /\ op.syntax = "n" /\ op.numbers[1] = v
    BY OperandParts
  <2>3. slot = "word" => Bytes!Laid(row, slot, op, addr, next) = {Bytes!LittleBytes(v)}
    BY <2>2, SMTT(20) DEF Bytes!Laid
  <2>4. slot = "WORD" => Bytes!Laid(row, slot, op, addr, next) = {Bytes!BigBytes(v)}
    BY <2>2, SMTT(20) DEF Bytes!Laid
  <2> QED
    BY <1>2, <1>3, <2>1, <2>2, <2>3, <2>4
<1>4. CASE slot = "abs"
  <2>1. PICK y : y = Bytes!AbsForced(v)
    OBVIOUS
  <2>2. Bytes!Shown(row, slot, v, addr, next) = Bytes!Operand(y, <<v>>)
    BY <1>4, <2>1, SMTT(20) DEF Bytes!Shown
  <2>3. PICK op : op = Bytes!Operand(y, <<v>>) /\ op.syntax = y /\ op.numbers[1] = v
    BY OperandParts
  <2>4. v \in Int /\ (v >= 256 \/ y = "a:n")
    BY <2>1, WordIsInt DEF Bytes!AbsForced
  <2>5. Bytes!Laid(row, slot, op, addr, next) = {Bytes!LittleBytes(v)}
    BY <1>4, <2>3, <2>4, SMTT(20) DEF Bytes!Laid
  <2> QED
    BY <1>2, <1>4, <2>2, <2>3, <2>5
<1>5. CASE slot \in {"abs15", "memref"}
  <2>1. PICK y : y = Bytes!Starred(v, 32768)
    OBVIOUS
  <2>2. PICK n \in Nat : n = v % 32768 /\ n < 32768 /\ (slot = "memref" => n < 8192)
    BY HighBit
  <2>3. Bytes!Shown(row, slot, v, addr, next) = Bytes!Operand(y, <<n>>)
    BY <1>5, <2>1, <2>2, SMTT(20) DEF Bytes!Shown
  <2>4. PICK op : op = Bytes!Operand(y, <<n>>) /\ op.syntax = y /\ op.numbers[1] = n
    BY OperandParts
  <2>5. (y = "n" /\ ~Bytes!HasBit(v, 32768)) \/ (y = "*n" /\ Bytes!HasBit(v, 32768))
    BY <2>1 DEF Bytes!Starred
  <2>6. Bytes!Laid(row, slot, op, addr, next) = {Bytes!BigBytes(n + (IF y = "*n" THEN 32768 ELSE 0))}
    <3>1. slot = "abs15" =>
            Bytes!Laid(row, slot, op, addr, next) = {Bytes!BigBytes(n + (IF y = "*n" THEN 32768 ELSE 0))}
      BY <2>2, <2>4, <2>5, SMTT(20) DEF Bytes!Laid
    <3>2. slot = "memref" =>
            Bytes!Laid(row, slot, op, addr, next) = {Bytes!BigBytes(n + (IF y = "*n" THEN 32768 ELSE 0))}
      BY <2>2, <2>4, <2>5, SMTT(20) DEF Bytes!Laid
    <3> QED
      BY <1>5, <3>1, <3>2
  <2>7. n + (IF y = "*n" THEN 32768 ELSE 0) = v
    BY <2>2, <2>5, HighBit
  <2> QED
    BY <1>2, <1>5, <2>3, <2>4, <2>6, <2>7
<1> QED
  BY <1>3, <1>4, <1>5 DEF Bytes!Wide

\* A slot of another row that stands apart takes nothing.
LEMMA ApartTakesNothing ==
  ASSUME NEW row, NEW other, NEW s, SlotApart(row, other, s), NEW addr, NEW next, NEW after,
         NEW v, row.slots[s] \in Bytes!Wide => v \in Word16, row.slots[s] \in Narrow => v \in Byte,
         row.opcode[1] \in Byte
  PROVE  Bytes!Laid(other, other.slots[s], Bytes!Shown(row, row.slots[s], v, addr, next), addr, after) = {}
<1>1. CASE row.slots[s] = "zp" /\ other.slots[s] = "abs"
  <2>1. v \in Int /\ 0 <= v /\ v < 256
    BY <1>1 DEF Narrow, Byte
  <2>2. Bytes!Shown(row, "zp", v, addr, next) = Bytes!Operand("n", <<v>>)
    BY SMTT(20) DEF Bytes!Shown
  <2>3. PICK op : op = Bytes!Operand("n", <<v>>) /\ op.syntax = "n" /\ op.numbers[1] = v
    BY OperandParts
  <2>4. Bytes!Laid(other, "abs", op, addr, after) = {}
    BY <2>1, <2>3, SMTT(20) DEF Bytes!Laid
  <2> QED
    BY <1>1, <2>2, <2>3, <2>4
<1>2. CASE row.slots[s] = "abs" /\ other.slots[s] = "zp"
  <2>1. v \in Int
    BY <1>2, WordIsInt DEF Bytes!Wide
  <2>2. PICK y : y = Bytes!AbsForced(v)
    OBVIOUS
  <2>3. Bytes!Shown(row, "abs", v, addr, next) = Bytes!Operand(y, <<v>>)
    BY <2>2, SMTT(20) DEF Bytes!Shown
  <2>4. PICK op : op = Bytes!Operand(y, <<v>>) /\ op.syntax = y /\ op.numbers[1] = v
    BY OperandParts
  <2>5. y = "a:n" \/ ~(v < 256)
    BY <2>2 DEF Bytes!AbsForced
  <2>6. Bytes!Laid(other, "zp", op, addr, after) = {}
    BY <2>1, <2>4, <2>5, SMTT(20) DEF Bytes!Laid
  <2> QED
    BY <1>2, <2>3, <2>4, <2>6
<1>3. CASE row.slots[s] = "low11" /\ other.slots[s] = "low11" /\ row.opcode[1] \div 32 # other.opcode[1] \div 32
  <2>1. v \in Int /\ 0 <= v /\ v < 256
    BY <1>3 DEF Narrow, Byte
  <2>2. PICK k \in Int : k = row.opcode[1] \div 32
    BY DEF Byte
  <2>3. PICK n \in Int : n = 256 * k + v
    BY <2>1
  <2>4. Bytes!Shown(row, "low11", v, addr, next) = Bytes!Operand("n", <<n>>)
    BY <2>2, <2>3, SMTT(20) DEF Bytes!Shown
  <2>5. PICK op : op = Bytes!Operand("n", <<n>>) /\ op.syntax = "n" /\ op.numbers[1] = n
    BY OperandParts
  <2>6. n \div 256 = k
    <3>1. PICK u \in 0..255 : u = v
      BY <2>1
    <3>2. (256 * k + u) \div 256 = k
      BY <2>2
    <3> QED
      BY <2>3, <3>1, <3>2
  <2>7. n \div 256 # other.opcode[1] \div 32
    BY <1>3, <2>2, <2>6
  <2>8. Bytes!Laid(other, "low11", op, addr, after) = {}
    BY <2>5, <2>7, SMTT(20) DEF Bytes!Laid
  <2> QED
    BY <1>3, <2>4, <2>5, <2>8
<1> QED
  BY <1>1, <1>2, <1>3 DEF SlotApart

\* The shape of a row.
LEMMA ByteRow ==
  ASSUME NEW chip \in Bytes!CPUS, NEW row \in Bytes!Tables[chip]
  PROVE  /\ row.opcode \in Seq(Byte) /\ Len(row.opcode) \in Nat /\ Len(row.opcode) >= 1
         /\ row.opcode[1] \in Byte
         /\ Len(row.slots) \in 0..3 /\ DOMAIN row.slots = 1..Len(row.slots)
         /\ \A s \in 1..Len(row.slots) : row.slots[s] \in Bytes!Wide \cup Narrow
<1>1. row.opcode \in Seq(Byte) /\ row.opcode # <<>> /\ row.slots \in Seq(STRING)
  BY RowsOfByteCpus
<1>2. PICK o \in Nat : o = Len(row.opcode)
  BY <1>1, LenProperties
<1>3. o >= 1
  BY <1>1, <1>2, EmptySeq
<1>4. row.opcode[1] \in Byte
  BY <1>1, <1>2, <1>3, ElementOfSeq
<1>5. PICK n \in Nat : n = Len(row.slots) /\ DOMAIN row.slots = 1..n
  BY <1>1, LenProperties
<1>6. Len(row.slots) <= 3 /\ \A s \in DOMAIN row.slots : row.slots[s] \in Bytes!Wide \cup Narrow
  BY SlotsOfByteCpus
<1>7. n <= 3 /\ \A s \in 1..n : row.slots[s] \in Bytes!Wide \cup Narrow
  BY <1>5, <1>6
<1>8. Len(row.slots) \in 0..3 /\ DOMAIN row.slots = 1..Len(row.slots)
  <2>1. n \in 0..3
    BY <1>7
  <2> QED
    BY <1>5, <2>1, Zenon
<1>9. \A s \in 1..Len(row.slots) : row.slots[s] \in Bytes!Wide \cup Narrow
  BY <1>5, <1>7
<1> QED
  BY <1>1, <1>2, <1>3, <1>4, <1>8, <1>9

\* A row whose slot is a memory reference.
IsMemref(row) == row.slots = <<"memref">>

\* One that is not indexed and has no bits its text leaves out, or another row.
SaysAll(row, c, p) ==
  IsMemref(row) =>
    LET v == Bytes!Value("memref", c, p + 1)
    IN  Bytes!IndexControl(row, v) = 0 /\ v % 32768 < 8192

OperandsOf(row, c, p, addr) == [s \in DOMAIN row.slots |-> Bytes!OperandOf(row, s, c, p, addr)]

\* A memory reference is the only slot, behind an opcode of one byte.
LEMMA MemrefAlone ==
  ASSUME NEW chip \in Bytes!CPUS, NEW row \in Bytes!Tables[chip], NEW s \in 1..Len(row.slots), row.slots[s] = "memref"
  PROVE  chip = "s2650" /\ IsMemref(row) /\ Len(row.opcode) = 1 /\ s = 1
<1>1. DOMAIN row.slots = 1..Len(row.slots)
  BY ByteRow
<1>2. chip = "s2650" /\ row.slots = <<"memref">> /\ Len(row.opcode) = 1
  BY <1>1, SlotsOfByteCpus
<1>3. s = 1
  BY <1>2
<1> QED
  BY <1>2, <1>3, Zenon DEF IsMemref

\* What a slot lays down is what stands at its place.
LEMMA SlotLaid ==
  ASSUME NEW chip \in Bytes!CPUS, NEW row \in Bytes!Tables[chip],
         NEW c \in Seq(Byte), NEW p \in Nat, NEW addr \in Int, SaysAll(row, c, p),
         NEW s \in 1..Len(row.slots),
         NEW q \in Nat, q = p + Len(row.opcode) + Bytes!Before(row, s - 1),
         NEW r \in Nat, r = q + SlotSize(row.slots[s]), r <= Len(c)
  PROVE  Bytes!LaidAt(row, s, OperandsOf(row, c, p, addr), addr) = {Slice(c, q, r)}
<1>1. PICK slot : slot = row.slots[s]
  OBVIOUS
<1>2. slot \in Bytes!Wide \cup Narrow /\ row.opcode[1] \in Byte /\ s \in DOMAIN row.slots
  BY <1>1, ByteRow
<1>3. PICK v : v = Bytes!Value(slot, c, q)
  OBVIOUS
<1>4. /\ slot \in Bytes!Wide => v \in Word16
      /\ slot \notin Bytes!Wide => v \in Byte
      /\ SlotBytes(slot, v) = Slice(c, q, r)
  BY <1>1, <1>3, ValueRead
<1>5. PICK l \in Nat : l = Bytes!RowLen(row)
  <2>1. PICK n \in Nat : n = Len(row.slots)
    BY ByteRow
  <2>2. Bytes!Before(row, n) \in Nat /\ Len(row.opcode) \in Nat
    BY BeforeNext, ByteRow
  <2> QED
    BY <2>1, <2>2 DEF Bytes!RowLen
<1>6. PICK next : next = Bytes!NextAddr(row, addr)
  OBVIOUS
<1>7. next \in Int
  <2>1. next = Wrap16(addr + l)
    BY <1>5, <1>6, SameWords DEF Bytes!NextAddr
  <2> QED
    BY <2>1, WrapIsWord
<1>8. PICK op : op = Bytes!Shown(row, slot, v, addr, next)
  OBVIOUS
<1>9. OperandsOf(row, c, p, addr)[s] = op
  BY <1>1, <1>2, <1>3, <1>6, <1>8 DEF OperandsOf, Bytes!OperandOf
<1>10. ~(s > Len(row.slots))
  BY ByteRow
<1>11. Bytes!LaidAt(row, s, OperandsOf(row, c, p, addr), addr) = Bytes!Laid(row, slot, op, addr, next)
  BY <1>1, <1>6, <1>9, <1>10, Zenon DEF Bytes!LaidAt
<1>12. Bytes!Laid(row, slot, op, addr, next) = {SlotBytes(slot, v)}
  <2>1. CASE slot \in Bytes!Wide
    <3>1. slot = "memref" => Bytes!IndexControl(row, v) = 0 /\ v % 32768 < 8192
      <4> SUFFICES ASSUME slot = "memref" PROVE Bytes!IndexControl(row, v) = 0 /\ v % 32768 < 8192
        OBVIOUS
      <4>1. IsMemref(row) /\ Len(row.opcode) = 1 /\ s = 1
        BY <1>1, MemrefAlone
      <4>2. q = p + 1
        <5>1. Bytes!Before(row, 0) = 0
          BY BeforeNext
        <5>2. s - 1 = 0
          BY <4>1
        <5>3. q = p + 1 + 0
          BY <4>1, <5>1, <5>2
        <5> QED
          BY <5>3
      <4> QED
        BY <1>3, <4>1, <4>2 DEF SaysAll
    <3> QED
      BY <1>4, <1>8, <2>1, <3>1, WideKept
  <2>2. CASE slot \notin Bytes!Wide
    <3>1. Bytes!Laid(row, slot, op, addr, next) = {<<v>>}
      <4>1. slot \in Narrow
        BY <1>2, <2>2
      <4>3. v \in Byte
        BY <1>4, <2>2
      <4>4. row.opcode[1] \in Byte
        BY <1>2
      <4>2. Bytes!Laid(row, slot, Bytes!Shown(row, slot, v, addr, next), addr, next) = {<<v>>}
        BY <1>7, <4>1, <4>3, <4>4, NarrowKept, SMTT(60)
      <4> QED
        BY <1>8, <4>2
    <3>2. SlotBytes(slot, v) = <<v>>
      BY <2>2 DEF SlotBytes, Bytes!Wide
    <3> QED
      BY <3>1, <3>2
  <2> QED
    BY <2>1, <2>2
<1> QED
  BY <1>4, <1>11, <1>12

\* Where the slots of a row start and how far they reach.
Places(row, p, q0, q1, q2, q3) ==
  LET start(s) == p + Len(row.opcode) + Bytes!Before(row, s - 1)
      n == Len(row.slots)
  IN  /\ q0 = p + Len(row.opcode) /\ q3 = p + Bytes!RowLen(row)
      /\ n >= 1 => q0 = start(1) /\ q1 = q0 + SlotSize(row.slots[1])
      /\ n >= 2 => q1 = start(2) /\ q2 = q1 + SlotSize(row.slots[2])
      /\ n >= 3 => q2 = start(3) /\ q3 = q2 + SlotSize(row.slots[3])
      /\ n < 1 => q1 = q0
      /\ n < 2 => q2 = q1
      /\ n < 3 => q3 = q2

LEMMA SlotPlaces ==
  ASSUME NEW chip \in Bytes!CPUS, NEW row \in Bytes!Tables[chip], NEW p \in Nat
  PROVE  \E q0, q1, q2, q3 \in Nat :
           /\ Places(row, p, q0, q1, q2, q3)
           /\ p <= q0 /\ q0 <= q1 /\ q1 <= q2 /\ q2 <= q3
<1>1. PICK o \in Nat, n \in 0..3 : o = Len(row.opcode) /\ n = Len(row.slots)
  BY ByteRow
<1>2. PICK z1 \in 1..2, z2 \in 1..2, z3 \in 1..2 :
        z1 = SlotSize(row.slots[1]) /\ z2 = SlotSize(row.slots[2]) /\ z3 = SlotSize(row.slots[3])
  BY DEF SlotSize
<1>3. PICK b0 \in Nat, b1 \in Nat, b2 \in Nat, b3 \in Nat :
        /\ b0 = Bytes!Before(row, 0) /\ b1 = Bytes!Before(row, 1)
        /\ b2 = Bytes!Before(row, 2) /\ b3 = Bytes!Before(row, 3)
  BY BeforeNext
<1>4. b0 = 0 /\ b1 = z1 /\ b2 = z1 + z2 /\ b3 = z1 + z2 + z3
  <2>1. 0 + 1 = 1 /\ 1 + 1 = 2 /\ 2 + 1 = 3
    OBVIOUS
  <2>2. b0 = 0 /\ b1 = b0 + z1
    BY <1>2, <1>3, <2>1, BeforeNext
  <2>3. b2 = b1 + z2
    BY <1>2, <1>3, <2>1, BeforeNext
  <2>4. b3 = b2 + z3
    BY <1>2, <1>3, <2>1, BeforeNext
  <2> QED
    BY <2>2, <2>3, <2>4
<1>5. PICK b \in Nat : b = Bytes!Before(row, n)
  BY BeforeNext
<1>6. Bytes!RowLen(row) = o + b
  BY <1>1, <1>5 DEF Bytes!RowLen
<1>7. PICK q0 \in Nat, q1 \in Nat, q2 \in Nat, q3 \in Nat :
        /\ q0 = p + o /\ q3 = p + (o + b)
        /\ q1 = IF n >= 1 THEN q0 + z1 ELSE q0
        /\ q2 = IF n >= 2 THEN q1 + z2 ELSE q1
  OBVIOUS
<1>8. /\ p <= q0 /\ q0 <= q1 /\ q1 <= q2 /\ q2 <= q3
      /\ n >= 1 => q0 = p + o + b0 /\ q1 = q0 + z1
      /\ n >= 2 => q1 = p + o + b1 /\ q2 = q1 + z2
      /\ n >= 3 => q2 = p + o + b2 /\ q3 = q2 + z3
      /\ (n < 1 => q1 = q0) /\ (n < 2 => q2 = q1) /\ (n < 3 => q3 = q2)
  <2>1. CASE n = 0
    <3>1. b = 0
      BY <1>3, <1>4, <1>5, <2>1
    <3> QED
      BY <1>4, <1>7, <2>1, <3>1
  <2>2. CASE n = 1
    <3>1. b = z1
      BY <1>3, <1>4, <1>5, <2>2
    <3> QED
      BY <1>4, <1>7, <2>2, <3>1
  <2>3. CASE n = 2
    <3>1. b = z1 + z2
      BY <1>3, <1>4, <1>5, <2>3
    <3> QED
      BY <1>4, <1>7, <2>3, <3>1
  <2>4. CASE n = 3
    <3>1. b = z1 + z2 + z3
      BY <1>3, <1>4, <1>5, <2>4
    <3> QED
      BY <1>4, <1>7, <2>4, <3>1
  <2> QED
    BY <2>1, <2>2, <2>3, <2>4
<1>9. 1 - 1 = 0 /\ 2 - 1 = 1 /\ 3 - 1 = 2
  OBVIOUS
<1>10. Places(row, p, q0, q1, q2, q3)
  BY <1>1, <1>2, <1>3, <1>6, <1>7, <1>8, <1>9, ZenonT(60) DEF Places
<1> QED
  BY <1>8, <1>10

\* Of one front and one back there is one whole, and of no back none.
LEMMA FollowedOne ==
  ASSUME NEW x, NEW y
  PROVE  Bytes!Followed({x}, {y}) = {x \o y}
BY DEF Bytes!Followed

LEMMA FollowedNone ==
  ASSUME NEW S, NEW T, S = {} \/ T = {}
  PROVE  Bytes!Followed(S, T) = {}
BY DEF Bytes!Followed

\* What a row lays down is what it was read from.
LEMMA RowLaid ==
  ASSUME NEW chip \in Bytes!CPUS, NEW row \in Bytes!Tables[chip],
         NEW c \in Seq(Byte), NEW p \in Nat, NEW addr \in Int, SaysAll(row, c, p),
         p + Bytes!RowLen(row) <= Len(c),
         row.opcode = SubSeq(c, p + 1, p + Len(row.opcode))
  PROVE  Bytes!Encoded(row, OperandsOf(row, c, p, addr), addr) = {SubSeq(c, p + 1, p + Bytes!RowLen(row))}
<1>1. PICK q0, q1, q2, q3 \in Nat :
        /\ Places(row, p, q0, q1, q2, q3)
        /\ p <= q0 /\ q0 <= q1 /\ q1 <= q2 /\ q2 <= q3
  BY SlotPlaces
<1>2. PICK n \in 0..3 : n = Len(row.slots)
  BY ByteRow
<1>3. q0 = p + Len(row.opcode) /\ q3 = p + Bytes!RowLen(row)
  BY <1>1 DEF Places
<1>4. p <= q1 /\ p <= q2 /\ q0 <= Len(c) /\ q1 <= Len(c) /\ q2 <= Len(c) /\ q3 <= Len(c)
  <2>1. PICK x \in Nat : x = Len(c)
    BY LenProperties
  <2> QED
    BY <1>1, <1>3, <2>1
<1>5. PICK ops : ops = OperandsOf(row, c, p, addr)
  OBVIOUS
<1>6. \A y \in Nat : Slice(c, y, y) = <<>>
  BY SubSeqEmpty DEF Slice
<1>7. Bytes!LaidAt(row, 1, ops, addr) = {Slice(c, q0, q1)}
  <2>1. CASE n >= 1
    <3>1. /\ q0 = p + Len(row.opcode) + Bytes!Before(row, 1 - 1)
          /\ q1 = q0 + SlotSize(row.slots[1])
      BY <1>1, <1>2, <2>1 DEF Places
    <3>2. 1 \in 1..Len(row.slots)
      BY <1>2, <2>1
    <3> QED
      BY <1>4, <1>5, <3>1, <3>2, SlotLaid
  <2>2. CASE n < 1
    <3>1. q1 = q0
      BY <1>1, <1>2, <2>2 DEF Places
    <3>2. Bytes!LaidAt(row, 1, ops, addr) = {<<>>}
      BY <1>2, <2>2 DEF Bytes!LaidAt
    <3> QED
      BY <1>6, <3>1, <3>2
  <2> QED
    BY <2>1, <2>2
<1>8. Bytes!LaidAt(row, 2, ops, addr) = {Slice(c, q1, q2)}
  <2>1. CASE n >= 2
    <3>1. /\ q1 = p + Len(row.opcode) + Bytes!Before(row, 2 - 1)
          /\ q2 = q1 + SlotSize(row.slots[2])
      BY <1>1, <1>2, <2>1 DEF Places
    <3>2. 2 \in 1..Len(row.slots)
      BY <1>2, <2>1
    <3> QED
      BY <1>4, <1>5, <3>1, <3>2, SlotLaid
  <2>2. CASE n < 2
    <3>1. q2 = q1
      BY <1>1, <1>2, <2>2 DEF Places
    <3>2. Bytes!LaidAt(row, 2, ops, addr) = {<<>>}
      BY <1>2, <2>2 DEF Bytes!LaidAt
    <3> QED
      BY <1>6, <3>1, <3>2
  <2> QED
    BY <2>1, <2>2
<1>9. Bytes!LaidAt(row, 3, ops, addr) = {Slice(c, q2, q3)}
  <2>1. CASE n >= 3
    <3>1. /\ q2 = p + Len(row.opcode) + Bytes!Before(row, 3 - 1)
          /\ q3 = q2 + SlotSize(row.slots[3])
      BY <1>1, <1>2, <2>1 DEF Places
    <3>2. 3 \in 1..Len(row.slots)
      BY <1>2, <2>1
    <3> QED
      BY <1>4, <1>5, <3>1, <3>2, SlotLaid
  <2>2. CASE n < 3
    <3>1. q3 = q2
      BY <1>1, <1>2, <2>2 DEF Places
    <3>2. Bytes!LaidAt(row, 3, ops, addr) = {<<>>}
      BY <1>2, <2>2 DEF Bytes!LaidAt
    <3> QED
      BY <1>6, <3>1, <3>2
  <2> QED
    BY <2>1, <2>2
<1>10. row.opcode = Slice(c, p, q0)
  BY <1>3 DEF Slice
<1>11. Slice(c, p, q0) \o Slice(c, q0, q1) = Slice(c, p, q1)
  BY <1>1, <1>4, Adjacent
<1>12. Slice(c, p, q1) \o Slice(c, q1, q2) = Slice(c, p, q2)
  BY <1>1, <1>4, Adjacent
<1>13. Slice(c, p, q2) \o Slice(c, q2, q3) = Slice(c, p, q3)
  BY <1>1, <1>4, Adjacent
<1>14. Bytes!Encoded(row, ops, addr) = {row.opcode \o Slice(c, q0, q1) \o Slice(c, q1, q2) \o Slice(c, q2, q3)}
  <2>1. PICK x, y, z : x = Slice(c, q0, q1) /\ y = Slice(c, q1, q2) /\ z = Slice(c, q2, q3)
    OBVIOUS
  <2>2. Bytes!LaidAt(row, 1, ops, addr) = {x} /\ Bytes!LaidAt(row, 2, ops, addr) = {y} /\ Bytes!LaidAt(row, 3, ops, addr) = {z}
    BY <1>7, <1>8, <1>9, <2>1
  <2>3. /\ Bytes!Followed({row.opcode}, {x}) = {row.opcode \o x}
        /\ Bytes!Followed({row.opcode \o x}, {y}) = {row.opcode \o x \o y}
        /\ Bytes!Followed({row.opcode \o x \o y}, {z}) = {row.opcode \o x \o y \o z}
    BY FollowedOne, Zenon
  <2>4. Bytes!Encoded(row, ops, addr) = {row.opcode \o x \o y \o z}
    BY <2>2, <2>3, Zenon DEF Bytes!Encoded
  <2> QED
    BY <2>1, <2>4
<1>15. row.opcode \o Slice(c, q0, q1) \o Slice(c, q1, q2) \o Slice(c, q2, q3) = Slice(c, p, q3)
  BY <1>10, <1>11, <1>12, <1>13, Zenon
<1> QED
  BY <1>3, <1>5, <1>14, <1>15, Zenon DEF Slice

\* Every slot lies within the instruction, and its value is what it can hold.
LEMMA SlotWithin ==
  ASSUME NEW chip \in Bytes!CPUS, NEW row \in Bytes!Tables[chip],
         NEW c \in Seq(Byte), NEW p \in Nat, p + Bytes!RowLen(row) <= Len(c),
         NEW s \in 1..Len(row.slots)
  PROVE  \E v : /\ v = Bytes!Value(row.slots[s], c, p + Len(row.opcode) + Bytes!Before(row, s - 1))
                /\ row.slots[s] \in Bytes!Wide => v \in Word16
                /\ row.slots[s] \notin Bytes!Wide => v \in Byte
<1>1. PICK q0, q1, q2, q3 \in Nat :
        /\ Places(row, p, q0, q1, q2, q3)
        /\ p <= q0 /\ q0 <= q1 /\ q1 <= q2 /\ q2 <= q3
  BY SlotPlaces
<1>2. PICK n \in 0..3 : n = Len(row.slots)
  BY ByteRow
<1>3. q1 <= Len(c) /\ q2 <= Len(c) /\ q3 <= Len(c)
  <2>1. PICK x \in Nat : x = Len(c)
    BY LenProperties
  <2>2. q3 = p + Bytes!RowLen(row)
    BY <1>1 DEF Places
  <2> QED
    BY <1>1, <2>1, <2>2
<1>4. \E q \in Nat : q = p + Len(row.opcode) + Bytes!Before(row, s - 1) /\ q + SlotSize(row.slots[s]) <= Len(c)
  <2>1. CASE s = 1
    <3>1. n >= 1
      BY <1>2, <2>1
    <3>2. q0 = p + Len(row.opcode) + Bytes!Before(row, s - 1) /\ q1 = q0 + SlotSize(row.slots[s])
      BY <1>1, <1>2, <2>1, <3>1 DEF Places
    <3> QED
      BY <1>1, <1>3, <3>2
  <2>2. CASE s = 2
    <3>1. n >= 2
      BY <1>2, <2>2
    <3>2. q1 = p + Len(row.opcode) + Bytes!Before(row, s - 1) /\ q2 = q1 + SlotSize(row.slots[s])
      BY <1>1, <1>2, <2>2, <3>1 DEF Places
    <3> QED
      BY <1>1, <1>3, <3>2
  <2>3. CASE s = 3
    <3>1. n >= 3
      BY <1>2, <2>3
    <3>2. q2 = p + Len(row.opcode) + Bytes!Before(row, s - 1) /\ q3 = q2 + SlotSize(row.slots[s])
      BY <1>1, <1>2, <2>3, <3>1 DEF Places
    <3> QED
      BY <1>1, <1>3, <3>2
  <2> QED
    BY <1>2, <2>1, <2>2, <2>3
<1>5. PICK q \in Nat : q = p + Len(row.opcode) + Bytes!Before(row, s - 1) /\ q + SlotSize(row.slots[s]) <= Len(c)
  BY <1>4
<1> QED
  BY <1>5, ValueRead

\* A row that stands apart makes nothing of the text.
LEMMA OtherLaysNothing ==
  ASSUME NEW chip \in Bytes!CPUS, NEW row \in Bytes!Tables[chip], NEW other \in Bytes!Tables[chip],
         NEW c \in Seq(Byte), NEW p \in Nat, NEW addr \in Int,
         p + Bytes!RowLen(row) <= Len(c),
         Len(row.slots) = Len(other.slots), NEW s \in DOMAIN row.slots, SlotApart(row, other, s)
  PROVE  Bytes!Encoded(other, OperandsOf(row, c, p, addr), addr) = {} /\ ~IsMemref(other)
<1>1. s \in 1..Len(row.slots) /\ s \in {1, 2, 3} /\ ~(s > Len(other.slots)) /\ row.opcode[1] \in Byte
  <2>1. s \in 1..Len(row.slots) /\ row.opcode[1] \in Byte
    BY ByteRow
  <2>2. PICK n \in 0..3 : n = Len(row.slots) /\ n = Len(other.slots)
    BY ByteRow
  <2> QED
    BY <2>1, <2>2
<1>2. PICK v : /\ v = Bytes!Value(row.slots[s], c, p + Len(row.opcode) + Bytes!Before(row, s - 1))
               /\ row.slots[s] \in Bytes!Wide => v \in Word16
               /\ row.slots[s] \notin Bytes!Wide => v \in Byte
  BY <1>1, SlotWithin
<1>3. row.slots[s] \in Narrow => v \in Byte
  BY <1>2 DEF Narrow, Bytes!Wide
<1>4. PICK ops : ops = OperandsOf(row, c, p, addr)
  OBVIOUS
<1>5. PICK next, after : next = Bytes!NextAddr(row, addr) /\ after = Bytes!NextAddr(other, addr)
  OBVIOUS
<1>6. ops[s] = Bytes!Shown(row, row.slots[s], v, addr, next)
  BY <1>2, <1>4, <1>5 DEF OperandsOf, Bytes!OperandOf
<1>7. Bytes!Laid(other, other.slots[s], Bytes!Shown(row, row.slots[s], v, addr, next), addr, after) = {}
  BY <1>1, <1>2, <1>3, ApartTakesNothing
<1>8. Bytes!LaidAt(other, s, ops, addr) = {}
  BY <1>1, <1>5, <1>6, <1>7, Zenon DEF Bytes!LaidAt
<1>9. Bytes!Encoded(other, ops, addr) = {}
  <2>1. CASE s = 1
    BY <1>8, <2>1, FollowedNone DEF Bytes!Encoded
  <2>2. CASE s = 2
    BY <1>8, <2>2, FollowedNone DEF Bytes!Encoded
  <2>3. CASE s = 3
    BY <1>8, <2>3, FollowedNone DEF Bytes!Encoded
  <2> QED
    BY <1>1, <2>1, <2>2, <2>3
<1>10. other.slots # <<"memref">>
  <2>1. other.slots[s] \in {"abs", "zp", "low11"}
    BY DEF SlotApart
  <2>2. s = 1 => other.slots[s] # "memref"
    BY <2>1
  <2>3. other.slots = <<"memref">> => s = 1
    <3> SUFFICES ASSUME other.slots = <<"memref">> PROVE s = 1
      OBVIOUS
    <3>1. Len(other.slots) = 1
      OBVIOUS
    <3> QED
      BY <1>1, <3>1
  <2> QED
    BY <2>2, <2>3
<1> QED
  BY <1>4, <1>9, <1>10 DEF IsMemref

\* The rows an assembler finds for a name.
LEMMA NamedRows ==
  ASSUME NEW chip \in Bytes!CPUS, NEW row \in Bytes!Tables[chip], NEW x
  PROVE  x \in Bytes!Named[chip][row.name] <=> x \in Bytes!Tables[chip] /\ x.name = row.name
<1>1. row.name \in {y.name : y \in Bytes!Tables[chip]}
  OBVIOUS
<1>2. Bytes!Named[chip] = [n \in {y.name : y \in Bytes!Tables[chip]} |-> {y \in Bytes!Tables[chip] : y.name = n}]
  BY DEF Bytes!Named
<1>3. Bytes!Named[chip][row.name] = {y \in Bytes!Tables[chip] : y.name = row.name}
  BY <1>1, <1>2, Zenon
<1> QED
  BY <1>3

\* What they make of a text, one row at a time.
LEMMA AssembledByRow ==
  ASSUME NEW chip, NEW text, NEW addr, NEW e, NEW name, text.name = name, NEW ops, text.operands = ops
  PROVE  e \in Bytes!Assembled(chip, text, addr)
           <=> \E x \in Bytes!Named[chip][name] :
                 e \in Bytes!Encoded(x, ops, addr) \/ (IsMemref(x) /\ e \in Bytes!Indexed(x, ops[1]))
<1>1. e \in Bytes!Assembled(chip, text, addr)
        <=> \E x \in Bytes!Named[chip][text.name] :
              \/ e \in Bytes!Encoded(x, text.operands, addr)
              \/ x.slots = <<"memref">> /\ e \in Bytes!Indexed(x, text.operands[1])
  BY Zenon DEF Bytes!Assembled
<1> QED
  BY <1>1, Zenon DEF IsMemref

\* How indexed operands are written.
LEMMA Indexings ==
  /\ Bytes!Indexing(0)[1] = "n r3+" /\ Bytes!Indexing(0)[2] = "n r3-" /\ Bytes!Indexing(0)[3] = "n r3"
  /\ Bytes!Indexing(1)[1] = "*n r3+" /\ Bytes!Indexing(1)[2] = "*n r3-" /\ Bytes!Indexing(1)[3] = "*n r3"
BY DEF Bytes!Indexing

\* An operand that is not indexed is not taken for one that is.
LEMMA NotIndexed ==
  ASSUME NEW row, NEW operand, operand.syntax \in {"n", "*n"}
  PROVE  Bytes!Indexed(row, operand) = {}
<1>1. ASSUME NEW w \in (1..3) \X (0..1) PROVE operand.syntax # Bytes!Indexing(w[2])[w[1]]
  <2>1. w[1] \in {1, 2, 3} /\ w[2] \in {0, 1}
    BY <1>1
  <2> QED
    BY <2>1, Indexings
<1> QED
  BY <1>1 DEF Bytes!Indexed

\* An instruction that row reads at offset p, and its bytes.
ReadAt(chip, row, c, p, bytes) ==
  /\ row \in Bytes!Tables[chip] /\ c \in Seq(Byte) /\ p \in Nat
  /\ p + Bytes!RowLen(row) <= Len(c) /\ row.opcode = SubSeq(c, p + 1, p + Len(row.opcode))
  /\ bytes = SubSeq(c, p + 1, p + Bytes!RowLen(row))

\* A plain reference's operand.
LEMMA PlainOperand ==
  ASSUME NEW chip \in Bytes!CPUS, NEW row \in Bytes!Tables[chip], NEW c, NEW p, NEW addr,
         IsMemref(row), Len(row.opcode) = 1, p \in Nat,
         NEW v, v = Bytes!Value("memref", c, p + 1),
         NEW w, w = Bytes!IndexControl(row, v),
         NEW op, op = OperandsOf(row, c, p, addr)[1]
  PROVE  /\ w # 0 => op.syntax = Bytes!Indexing(v \div 32768)[w] /\ op.numbers[1] = v % 8192
         /\ w = 0 => op.syntax = Bytes!Starred(v, 32768) /\ op.numbers[1] = v % 32768
<1>1. DOMAIN row.slots = {1} /\ row.slots[1] = "memref"
  BY DEF IsMemref
<1>2. p + Len(row.opcode) + Bytes!Before(row, 1 - 1) = p + 1
  <2>1. Bytes!Before(row, 0) = 0 /\ 1 - 1 = 0
    BY BeforeNext
  <2> QED
    BY <2>1
<1>3. PICK next : next = Bytes!NextAddr(row, addr)
  OBVIOUS
<1>4. OperandsOf(row, c, p, addr)[1] = Bytes!Shown(row, "memref", v, addr, next)
  BY <1>1, <1>2, <1>3 DEF OperandsOf, Bytes!OperandOf
<1>5. PICK i, y, m, n :
        /\ i = Bytes!Indexing(v \div 32768)[w] /\ y = Bytes!Starred(v, 32768)
        /\ m = v % 32768 /\ n = v % 8192
  OBVIOUS
<1>6. w # 0 => op = Bytes!Operand(i, <<n>>)
  <2>1. w # 0 => Bytes!Shown(row, "memref", v, addr, next) = Bytes!Operand(i, <<n>>)
    BY <1>5, SMTT(20) DEF Bytes!Shown
  <2> QED
    BY <1>4, <2>1, Zenon
<1>7. w = 0 => op = Bytes!Operand(y, <<m>>)
  <2>1. w = 0 => Bytes!Shown(row, "memref", v, addr, next) = Bytes!Operand(y, <<m>>)
    BY <1>5, SMTT(20) DEF Bytes!Shown
  <2> QED
    BY <1>4, <2>1, Zenon
<1>8. w # 0 => op.syntax = i /\ op.numbers[1] = n
  BY <1>6, OperandParts
<1>9. w = 0 => op.syntax = y /\ op.numbers[1] = m
  BY <1>7, OperandParts
<1> QED
  BY <1>5, <1>8, <1>9

\* What says all comes back as its bytes.
LEMMA PlainAssembles ==
  ASSUME NEW chip \in Bytes!CPUS, NEW row, NEW c, NEW p, NEW bytes, ReadAt(chip, row, c, p, bytes),
         NEW addr \in Int, SaysAll(row, c, p)
  PROVE  Bytes!Assembled(chip, Bytes!TextOf(row, c, p, addr), addr) = {bytes}
<1>1. /\ row \in Bytes!Tables[chip] /\ c \in Seq(Byte) /\ p \in Nat
      /\ p + Bytes!RowLen(row) <= Len(c) /\ row.opcode = SubSeq(c, p + 1, p + Len(row.opcode))
      /\ bytes = SubSeq(c, p + 1, p + Bytes!RowLen(row))
  BY DEF ReadAt
<1>2. PICK ops : ops = OperandsOf(row, c, p, addr)
  OBVIOUS
<1>3. Bytes!NameOf(row, c, p) = row.name
  BY DEF Bytes!NameOf, SaysAll, IsMemref
<1>4. PICK text : text = Bytes!TextOf(row, c, p, addr)
  OBVIOUS
<1>5. text.name = row.name /\ text.operands = ops
  BY <1>2, <1>3, <1>4 DEF Bytes!TextOf, Bytes!Text, OperandsOf
<1>6. Bytes!Encoded(row, ops, addr) = {bytes}
  BY <1>1, <1>2, RowLaid
<1>7. ASSUME NEW x \in Bytes!Named[chip][row.name], x # row
      PROVE  Bytes!Encoded(x, ops, addr) = {} /\ ~IsMemref(x)
  <2>1. x \in Bytes!Tables[chip] /\ x.name = row.name
    BY <1>1, <1>7, NamedRows
  <2>2. PICK s \in DOMAIN row.slots : SlotApart(row, x, s) /\ Len(row.slots) = Len(x.slots)
    BY <1>1, <1>7, <2>1, NamesOfByteCpus
  <2> QED
    BY <1>1, <1>2, <2>1, <2>2, OtherLaysNothing
<1>8. IsMemref(row) => Bytes!Indexed(row, ops[1]) = {}
  <2> SUFFICES ASSUME IsMemref(row) PROVE Bytes!Indexed(row, ops[1]) = {}
    OBVIOUS
  <2>1. PICK v, w : v = Bytes!Value("memref", c, p + 1) /\ w = Bytes!IndexControl(row, v)
    OBVIOUS
  <2>2. w = 0
    BY <2>1 DEF SaysAll
  <2>3. Len(row.opcode) = 1
    <3>1. 1 \in 1..Len(row.slots) /\ row.slots[1] = "memref"
      BY DEF IsMemref
    <3>2. \A s \in 1..Len(row.slots) : row.slots[s] = "memref" => Len(row.opcode) = 1
      BY <1>1, MemrefAlone
    <3> QED
      BY <3>1, <3>2
  <2>4. ops[1].syntax = Bytes!Starred(v, 32768)
    BY <1>1, <1>2, <2>1, <2>2, <2>3, PlainOperand
  <2>5. ops[1].syntax \in {"n", "*n"}
    BY <2>4 DEF Bytes!Starred
  <2> QED
    BY <2>5, NotIndexed
<1>9. row \in Bytes!Named[chip][row.name]
  BY <1>1, NamedRows
<1>10. ASSUME NEW e PROVE e \in Bytes!Assembled(chip, text, addr) <=> e = bytes
  <2>1. e \in Bytes!Assembled(chip, text, addr)
          <=> \E x \in Bytes!Named[chip][row.name] :
                e \in Bytes!Encoded(x, ops, addr) \/ (IsMemref(x) /\ e \in Bytes!Indexed(x, ops[1]))
    BY <1>5, AssembledByRow, Zenon
  <2>2. ASSUME e \in Bytes!Assembled(chip, text, addr) PROVE e = bytes
    <3>1. PICK x \in Bytes!Named[chip][row.name] :
            e \in Bytes!Encoded(x, ops, addr) \/ (IsMemref(x) /\ e \in Bytes!Indexed(x, ops[1]))
      BY <2>1, <2>2
    <3>2. x = row
      BY <1>7, <3>1
    <3> QED
      BY <1>6, <1>8, <3>1, <3>2
  <2>3. ASSUME e = bytes PROVE e \in Bytes!Assembled(chip, text, addr)
    BY <1>6, <1>9, <2>1, <2>3
  <2> QED
    BY <2>2, <2>3
<1> QED
  BY <1>4, <1>10

\* No two ways of indexing are written the same.
LEMMA IndexingOnce ==
  ASSUME NEW i \in 1..3, NEW j \in 1..3, NEW bit \in 0..1, NEW other \in 0..1,
         Bytes!Indexing(bit)[i] = Bytes!Indexing(other)[j]
  PROVE  i = j /\ bit = other
<1>1. i \in {1, 2, 3} /\ j \in {1, 2, 3} /\ bit \in {0, 1} /\ other \in {0, 1}
  OBVIOUS
<1> QED
  BY <1>1, Indexings

\* A word in the parts an indexed reference has.
LEMMA IndexedWord ==
  ASSUME NEW v \in Word16
  PROVE  /\ (v \div 8192) % 4 \in 0..3 /\ v % 8192 \in Nat /\ v \div 32768 \in 0..1
         /\ v = (v % 8192) + 8192 * ((v \div 8192) % 4) + 32768 * (v \div 32768)
<1>1. v \in Int /\ 0 <= v /\ v < 65536
  BY SMTT(60) DEF Word16
<1>2. PICK r \in Int, k \in Int : r = v % 8192 /\ k = v \div 8192
  BY <1>1
<1>3. 0 <= r /\ r < 8192 /\ 0 <= k /\ k < 8 /\ v = 8192 * k + r
  BY <1>1, <1>2
<1>4. PICK w \in Int, h \in Int : w = k % 4 /\ h = k \div 4
  BY <1>3
<1>5. 0 <= w /\ w < 4 /\ (h = 0 \/ h = 1) /\ k = 4 * h + w
  BY <1>3, <1>4
<1>6. v \div 32768 = h
  <2>1. v = 32768 * h + (8192 * w + r)
    BY <1>3, <1>5
  <2>2. 0 <= 8192 * w + r /\ 8192 * w + r < 32768
    BY <1>3, <1>5
  <2> QED
    BY <1>1, <1>5, <2>1, <2>2
<1> QED
  BY <1>2, <1>3, <1>4, <1>5, <1>6

\* The bytes of a memory reference: an opcode of one byte and a word.
Reference(opcode, v) == <<opcode>> \o Bytes!BigBytes(v)

LEMMA MemrefBytes ==
  ASSUME NEW chip \in Bytes!CPUS, NEW row, NEW c, NEW p, NEW bytes, ReadAt(chip, row, c, p, bytes),
         IsMemref(row), NEW v, v = Bytes!Value("memref", c, p + 1)
  PROVE  /\ v \in Word16 /\ bytes = Reference(row.opcode[1], v)
         /\ row.opcode[1] \in Byte /\ Len(row.opcode) = 1 /\ chip = "s2650"
         /\ bytes \in Seq(Byte) /\ bytes[1] = row.opcode[1] /\ bytes[2] = HiByte(v) /\ Len(bytes) = 3
<1>1. /\ row \in Bytes!Tables[chip] /\ c \in Seq(Byte) /\ p \in Nat
      /\ p + Bytes!RowLen(row) <= Len(c) /\ row.opcode = SubSeq(c, p + 1, p + Len(row.opcode))
      /\ bytes = SubSeq(c, p + 1, p + Bytes!RowLen(row))
  BY DEF ReadAt
<1>2. Len(row.slots) = 1 /\ row.slots[1] = "memref" /\ 1 \in 1..Len(row.slots)
  BY DEF IsMemref
<1>3. chip = "s2650" /\ Len(row.opcode) = 1
  <2>1. \A s \in 1..Len(row.slots) : row.slots[s] = "memref" => chip = "s2650" /\ Len(row.opcode) = 1
    BY <1>1, MemrefAlone
  <2> QED
    BY <1>2, <2>1
<1>4. SlotSize("memref") = 2
  BY DEF SlotSize, Bytes!Wide
<1>5. Bytes!RowLen(row) = 3
  <2>1. Bytes!Before(row, 0 + 1) = Bytes!Before(row, 0) + SlotSize(row.slots[0 + 1]) /\ Bytes!Before(row, 0) = 0
    BY BeforeNext
  <2>2. 0 + 1 = 1
    OBVIOUS
  <2>3. Bytes!Before(row, 1) = 2
    BY <1>2, <1>4, <2>1, <2>2
  <2> QED
    BY <1>2, <1>3, <2>3 DEF Bytes!RowLen
<1>6. PICK m \in Nat : m = Len(c) /\ p + 3 <= m
  BY <1>1, <1>5, LenProperties
<1>7. PICK q \in Nat, r \in Nat : q = p + 1 /\ r = p + 3 /\ r = q + 2 /\ p <= q /\ q <= r /\ r <= Len(c)
  BY <1>1, <1>6
<1>8. v \in Word16 /\ SlotBytes("memref", v) = Slice(c, q, r)
  <2>1. "memref" \in Bytes!Wide /\ q + SlotSize("memref") <= Len(c) /\ v = Bytes!Value("memref", c, q)
    BY <1>4, <1>7 DEF Bytes!Wide
  <2>2. v \in Word16 /\ SlotBytes("memref", v) = Slice(c, q, q + SlotSize("memref"))
    BY <1>1, <2>1, ValueRead
  <2> QED
    BY <1>4, <1>7, <2>2
<1>9. SlotBytes("memref", v) = <<HiByte(v), LoByte(v)>>
  BY DEF SlotBytes, Bytes!Wide
<1>10. Slice(c, p, q) = <<c[p + 1]>> /\ c[p + 1] \in Byte
  BY <1>1, <1>7, OneByte DEF Slice
<1>11. row.opcode = <<c[p + 1]>> /\ row.opcode[1] = c[p + 1]
  <2>1. row.opcode = Slice(c, p, q)
    BY <1>1, <1>3, <1>7 DEF Slice
  <2> QED
    BY <1>10, <2>1
<1>12. bytes = Slice(c, p, q) \o Slice(c, q, r)
  <2>1. Slice(c, p, q) \o Slice(c, q, r) = Slice(c, p, r)
    BY <1>1, <1>7, Adjacent
  <2>2. bytes = Slice(c, p, r)
    BY <1>1, <1>5, <1>7 DEF Slice
  <2> QED
    BY <2>1, <2>2
<1>13. Slice(c, q, r) = <<c[p + 2], c[p + 3]>>
  <2>1. Slice(c, q, q + 2) = <<c[q + 1], c[q + 2]>>
    BY <1>1, <1>7, TwoBytes DEF Slice
  <2>2. q + 1 = p + 2 /\ q + 2 = p + 3
    BY <1>1, <1>7
  <2> QED
    BY <1>7, <2>1, <2>2
<1>14. bytes \in Seq(Byte) /\ Len(bytes) = 3 /\ bytes[1] = c[p + 1] /\ bytes[2] = c[p + 2]
  <2>1. bytes = SubSeq(c, p + 1, p + 3) /\ p + 3 <= Len(c)
    BY <1>1, <1>5, <1>6
  <2>2. \A n \in Nat : p + n <= Len(c) =>
          SubSeq(c, p + 1, p + n) \in Seq(Byte) /\ Len(SubSeq(c, p + 1, p + n)) = n
    BY <1>1, BytesCounted
  <2>3. \A n \in Nat : p + n <= Len(c) => \A k \in 1..n : SubSeq(c, p + 1, p + n)[k] = c[p + k]
    BY <1>1, SubSeqAt
  <2> QED
    BY <2>1, <2>2, <2>3
<1>15. HiByte(v) = c[p + 2]
  <2>1. <<HiByte(v), LoByte(v)>> = <<c[p + 2], c[p + 3]>>
    BY <1>8, <1>9, <1>13
  <2> QED
    BY <2>1
<1>16. bytes = Reference(row.opcode[1], v)
  <2>1. Bytes!BigBytes(v) = <<HiByte(v), LoByte(v)>>
    BY SameWords DEF Bytes!BigBytes
  <2> QED
    BY <1>8, <1>9, <1>10, <1>11, <1>12, <2>1, Zenon DEF Reference
<1> QED
  BY <1>3, <1>8, <1>10, <1>11, <1>14, <1>15, <1>16

\* No two memory references have the same name.
LEMMA MemrefsApart ==
  ASSUME NEW chip \in Bytes!CPUS, NEW row \in Bytes!Tables[chip], NEW other \in Bytes!Tables[chip],
         row.name = other.name, IsMemref(row)
  PROVE  row = other
<1>1. ASSUME NEW s \in DOMAIN row.slots PROVE ~SlotApart(row, other, s)
  <2>1. s = 1 /\ row.slots[1] = "memref"
    BY <1>1 DEF IsMemref
  <2>2. row.slots[s] = "memref"
    BY <2>1
  <2> QED
    BY <2>2 DEF SlotApart
<1> QED
  BY <1>1, NamesOfByteCpus

LEMMA LaidAtSlot ==
  ASSUME NEW row, NEW ops, NEW addr, NEW s, ~(s > Len(row.slots)),
         Bytes!Laid(row, row.slots[s], ops[s], addr, Bytes!NextAddr(row, addr)) = {}
  PROVE  Bytes!LaidAt(row, s, ops, addr) = {}
BY Zenon DEF Bytes!LaidAt

\* A memory reference lays nothing down for an operand that is not plain, or
\* that is out of its reach.
LEMMA MemrefTakesNothing ==
  ASSUME NEW row, IsMemref(row), NEW ops, NEW addr,
         ops[1].syntax \notin {"n", "*n"} \/ ~(ops[1].numbers[1] < 8192)
  PROVE  Bytes!Encoded(row, ops, addr) = {}
<1>1. PICK op, next : op = ops[1] /\ next = Bytes!NextAddr(row, addr)
  OBVIOUS
<1>2. Bytes!Laid(row, "memref", op, addr, next) = {}
  <2>1. CASE op.syntax \notin {"n", "*n"}
    <3>1. op.syntax # "n" /\ op.syntax # "*n"
      BY <2>1
    <3> QED
      BY <3>1, SMTT(20) DEF Bytes!Laid
  <2>2. CASE ~(op.numbers[1] < 8192)
    <3>1. PICK n : n = op.numbers[1] /\ ~(n < 8192)
      BY <2>2
    <3> QED
      BY <3>1, SMTT(20) DEF Bytes!Laid
  <2> QED
    BY <1>1, <2>1, <2>2
<1>3. Len(row.slots) = 1 /\ row.slots[1] = "memref" /\ ~(1 > Len(row.slots))
  BY DEF IsMemref
<1>4. Bytes!Laid(row, row.slots[1], ops[1], addr, Bytes!NextAddr(row, addr)) = {}
  BY <1>1, <1>2, <1>3
<1>5. Bytes!LaidAt(row, 1, ops, addr) = {}
  BY <1>3, <1>4, LaidAtSlot
<1> QED
  BY <1>5, FollowedNone DEF Bytes!Encoded

\* There is one way of indexing with each control and each bit.
LEMMA PairThere ==
  ASSUME NEW x \in 1..3, NEW y \in 0..1
  PROVE  \E u \in (1..3) \X (0..1) : u[1] = x /\ u[2] = y
<1>1. <<x, y>> \in (1..3) \X (0..1) /\ <<x, y>>[1] = x /\ <<x, y>>[2] = y
  OBVIOUS
<1> QED
  BY <1>1, Zenon

LEMMA SamePair ==
  ASSUME NEW u \in (1..3) \X (0..1), NEW w \in (1..3) \X (0..1), u[1] = w[1], u[2] = w[2]
  PROVE  u = w
OBVIOUS

\* The one way there is to lay an indexed reference down.
LEMMA IndexedOnce ==
  ASSUME NEW row, row.name[2] = "r0", NEW op, NEW w \in 1..3, NEW bit \in 0..1,
         op.syntax = Bytes!Indexing(bit)[w],
         NEW v, v = op.numbers[1] + 8192 * w + 32768 * bit
  PROVE  Bytes!Indexed(row, op) = {Reference(row.opcode[1] + 3, v)}
<1> DEFINE word(x) == op.numbers[1] + 8192 * x[1] + 32768 * x[2]
           fits(x) == row.name[2] = "r0" /\ op.syntax = Bytes!Indexing(x[2])[x[1]]
<1>1. ASSUME NEW e
      PROVE  e \in Bytes!Indexed(row, op)
               <=> \E x \in (1..3) \X (0..1) : fits(x) /\ e = Reference(row.opcode[1] + 3, word(x))
  BY SMTT(30) DEF Bytes!Indexed, Reference
<1>2. PICK u \in (1..3) \X (0..1) : u[1] = w /\ u[2] = bit
  BY PairThere
<1>3. word(u) = v /\ fits(u)
  BY <1>2
<1>4. ASSUME NEW x \in (1..3) \X (0..1), fits(x) PROVE x = u
  <2>1. x[1] \in 1..3 /\ x[2] \in 0..1
    BY <1>4
  <2>2. Bytes!Indexing(bit)[w] = Bytes!Indexing(x[2])[x[1]]
    BY <1>4
  <2>3. w = x[1] /\ bit = x[2]
    BY <2>1, <2>2, IndexingOnce
  <2> QED
    BY <1>2, <1>4, <2>3, SamePair
<1> HIDE DEF word, fits
<1>5. ASSUME NEW e PROVE e \in Bytes!Indexed(row, op) <=> e = Reference(row.opcode[1] + 3, v)
  <2>1. ASSUME e \in Bytes!Indexed(row, op) PROVE e = Reference(row.opcode[1] + 3, v)
    <3>1. PICK x \in (1..3) \X (0..1) : fits(x) /\ e = Reference(row.opcode[1] + 3, word(x))
      BY <1>1, <2>1
    <3>2. x = u
      BY <1>4, <3>1
    <3> QED
      BY <1>3, <3>1, <3>2
  <2>2. ASSUME e = Reference(row.opcode[1] + 3, v) PROVE e \in Bytes!Indexed(row, op)
    <3>1. e = Reference(row.opcode[1] + 3, word(u))
      BY <1>3, <2>2
    <3> QED
      BY <1>1, <1>2, <1>3, <3>1
  <2> QED
    BY <2>1, <2>2
<1> QED
  BY <1>5

\* The row of register 0 that has the name of an indexed reference.
LEMMA RowOfR0 ==
  ASSUME NEW chip \in Bytes!CPUS, NEW row \in Bytes!Tables[chip], row.name[2] = "r3", IsMemref(row)
  PROVE  \E other \in Bytes!Tables[chip] :
           /\ other.name = <<row.name[1], "r0">> /\ other.slots = <<"memref">>
           /\ other.opcode = <<row.opcode[1] - 3>>
<1>1. 1 \in DOMAIN row.slots /\ row.slots[1] = "memref"
  BY DEF IsMemref
<1> QED
  BY <1>1, SlotsOfByteCpus, Zenon

\* An indexed reference comes back as its bytes, by the opcode of register 0.
LEMMA IndexedAssembles ==
  ASSUME NEW chip \in Bytes!CPUS, NEW row, NEW c, NEW p, NEW bytes, ReadAt(chip, row, c, p, bytes),
         NEW addr \in Int, IsMemref(row), NEW v, v = Bytes!Value("memref", c, p + 1),
         Bytes!IndexControl(row, v) # 0
  PROVE  Bytes!Assembled(chip, Bytes!TextOf(row, c, p, addr), addr) = {bytes}
<1>1. row \in Bytes!Tables[chip] /\ c \in Seq(Byte) /\ p \in Nat
  BY DEF ReadAt
<1>2. /\ v \in Word16 /\ bytes = Reference(row.opcode[1], v)
      /\ row.opcode[1] \in Byte /\ Len(row.opcode) = 1
  BY MemrefBytes
<1>3. PICK w : w = Bytes!IndexControl(row, v)
  OBVIOUS
<1>4. row.name[2] = "r3" /\ w = (v \div 8192) % 4 /\ w # 0
  BY <1>3 DEF Bytes!IndexControl
<1>5. w \in 1..3
  <2>1. w \in 0..3
    BY <1>2, <1>4, IndexedWord
  <2> QED
    BY <1>4, <2>1
<1>6. PICK bit \in 0..1 : bit = v \div 32768
  BY <1>2, IndexedWord
<1>7. PICK ops : ops = OperandsOf(row, c, p, addr)
  OBVIOUS
<1>8. PICK n \in Nat : n = v % 8192
  BY <1>2, IndexedWord
<1>9. ops[1].syntax = Bytes!Indexing(bit)[w] /\ ops[1].numbers[1] = n
  <2>1. PICK op : op = OperandsOf(row, c, p, addr)[1]
    OBVIOUS
  <2>2. op.syntax = Bytes!Indexing(v \div 32768)[w] /\ op.numbers[1] = v % 8192
    BY <1>1, <1>2, <1>3, <1>4, <2>1, PlainOperand
  <2> QED
    BY <1>6, <1>7, <1>8, <2>1, <2>2
<1>10. PICK row0 \in Bytes!Tables[chip] :
         row0.name = <<row.name[1], "r0">> /\ row0.slots = <<"memref">> /\ row0.opcode = <<row.opcode[1] - 3>>
  <2>1. row.name[2] = "r3"
    BY <1>4
  <2> QED
    BY <1>1, <2>1, RowOfR0, Zenon
<1>11. PICK text : text = Bytes!TextOf(row, c, p, addr)
  OBVIOUS
<1>12. text.name = row0.name /\ text.operands = ops
  <2>1. Bytes!NameOf(row, c, p) = row0.name
    BY <1>10 DEF Bytes!NameOf, IsMemref
  <2> QED
    BY <1>7, <1>11, <2>1 DEF Bytes!TextOf, Bytes!Text, OperandsOf
<1>13. IsMemref(row0) /\ row0.name[2] = "r0"
  BY <1>10 DEF IsMemref
<1>14. \A x : x \in Bytes!Named[chip][row0.name] <=> x = row0
  <2>1. ASSUME NEW x \in Bytes!Named[chip][row0.name] PROVE x = row0
    <3>1. x \in Bytes!Tables[chip] /\ x.name = row0.name
      BY <2>1, NamedRows
    <3> QED
      BY <1>13, <3>1, MemrefsApart
  <2>2. row0 \in Bytes!Named[chip][row0.name]
    BY NamedRows
  <2> QED
    BY <2>1, <2>2
<1>15. Bytes!Indexing(bit)[w] \notin {"n", "*n"}
  <2>1. w \in {1, 2, 3} /\ bit \in {0, 1}
    BY <1>5
  <2> QED
    BY <2>1, Indexings
<1>16. Bytes!Encoded(row0, ops, addr) = {}
  BY <1>9, <1>13, <1>15, MemrefTakesNothing
<1>17. v = n + 8192 * w + 32768 * bit
  BY <1>2, <1>4, <1>6, <1>8, IndexedWord
<1>18. Bytes!Indexed(row0, ops[1]) = {bytes}
  <2>1. PICK op : op = ops[1]
    OBVIOUS
  <2>2. op.syntax = Bytes!Indexing(bit)[w] /\ v = op.numbers[1] + 8192 * w + 32768 * bit
    BY <1>9, <1>17, <2>1
  <2>3. Bytes!Indexed(row0, op) = {Reference(row0.opcode[1] + 3, v)}
    BY <1>5, <1>13, <2>2, IndexedOnce
  <2>4. row0.opcode[1] + 3 = row.opcode[1]
    BY <1>2, <1>10 DEF Byte
  <2> QED
    BY <1>2, <2>1, <2>3, <2>4
<1>19. ASSUME NEW e PROVE e \in Bytes!Assembled(chip, text, addr) <=> e = bytes
  <2>1. e \in Bytes!Assembled(chip, text, addr)
          <=> \E x \in Bytes!Named[chip][row0.name] :
                e \in Bytes!Encoded(x, ops, addr) \/ (IsMemref(x) /\ e \in Bytes!Indexed(x, ops[1]))
    BY <1>12, AssembledByRow
  <2> QED
    BY <1>13, <1>14, <1>16, <1>18, <2>1
<1> QED
  BY <1>11, <1>19

\* The index control of a word is in its high byte.
LEMMA ControlInHighByte ==
  ASSUME NEW v \in Word16
  PROVE  (HiByte(v) \div 32) % 4 = (v \div 8192) % 4 /\ ((v \div 8192) % 4 = 0 => v % 32768 < 8192)
<1>1. v \in Int /\ 0 <= v /\ v < 65536
  BY SMTT(60) DEF Word16
<1>2. PICK h \in Int, l \in Int : h = v \div 256 /\ l = v % 256
  BY <1>1
<1>3. 0 <= l /\ l < 256 /\ 0 <= h /\ h < 256 /\ v = 256 * h + l
  BY <1>1, <1>2
<1>4. HiByte(v) = h
  BY <1>1, <1>2, <1>3 DEF HiByte
<1>5. PICK k \in Int, r \in Int : k = h \div 32 /\ r = h % 32
  BY <1>3
<1>6. 0 <= r /\ r < 32 /\ 0 <= k /\ k < 8 /\ h = 32 * k + r
  BY <1>3, <1>5
<1>7. v \div 8192 = k /\ v % 8192 = 256 * r + l
  <2>1. v = 8192 * k + (256 * r + l)
    BY <1>3, <1>6
  <2>2. PICK m \in 0..8191 : m = 256 * r + l
    BY <1>3, <1>6
  <2> QED
    BY <1>1, <1>6, <2>1, <2>2
<1>8. k % 4 = 0 => v % 32768 < 8192
  <2> SUFFICES ASSUME k % 4 = 0 PROVE v % 32768 < 8192
    OBVIOUS
  <2>1. k = 0 \/ k = 4
    BY <1>6
  <2>2. PICK m \in 0..8191 : m = 256 * r + l
    BY <1>3, <1>6
  <2>3. v = 8192 * k + m
    BY <1>3, <1>6, <2>2
  <2>4. v = m \/ v = 32768 + m
    BY <2>1, <2>3
  <2> QED
    BY <2>2, <2>4
<1> QED
  BY <1>4, <1>5, <1>7, <1>8

\* A row claims the bytes that its opcode begins.
LEMMA ClaimedByRow ==
  ASSUME NEW chip \in Bytes!CPUS, NEW row \in Bytes!Tables[chip], Len(row.opcode) = 1,
         NEW c \in Seq(Byte), NEW p \in Nat, p + 1 <= Len(c), c[p + 1] = row.opcode[1]
  PROVE  row \in Bytes!Claims(chip, c, p)
<1>1. PICK b \in Byte : b = row.opcode[1] /\ b = c[p + 1]
  BY ByteRow
<1>2. row \in Bytes!StartingWith[chip][b]
  BY <1>1 DEF Bytes!StartingWith, Bytes!Byte, Byte
<1>3. row.opcode = <<b>>
  BY <1>1, ByteRow
<1>4. SubSeq(c, p + 1, p + 1) = <<b>>
  BY <1>1, OneByte
<1>5. row.opcode = SubSeq(c, p + 1, p + Len(row.opcode)) /\ p + Len(row.opcode) <= Len(c)
  BY <1>3, <1>4
<1> QED
  BY <1>1, <1>2, <1>5 DEF Bytes!Claims

\* A reference with bits its text leaves out: no row takes the text.
LEMMA UnsaidAssembles ==
  ASSUME NEW chip \in Bytes!CPUS, NEW row, NEW c, NEW p, NEW bytes, ReadAt(chip, row, c, p, bytes),
         NEW addr \in Int, IsMemref(row), NEW v, v = Bytes!Value("memref", c, p + 1),
         Bytes!IndexControl(row, v) = 0, ~(v % 32768 < 8192)
  PROVE  /\ Bytes!Assembled(chip, Bytes!TextOf(row, c, p, addr), addr) = {}
         /\ chip = "s2650" /\ Bytes!Unsaid(chip, bytes)
<1>1. row \in Bytes!Tables[chip] /\ c \in Seq(Byte) /\ p \in Nat
  BY DEF ReadAt
<1>2. /\ v \in Word16 /\ row.opcode[1] \in Byte /\ Len(row.opcode) = 1
      /\ chip = "s2650" /\ bytes \in Seq(Byte) /\ bytes[1] = row.opcode[1] /\ bytes[2] = HiByte(v)
      /\ Len(bytes) = 3
  BY MemrefBytes
<1>3. PICK ops : ops = OperandsOf(row, c, p, addr)
  OBVIOUS
<1>4. ops[1].syntax \in {"n", "*n"} /\ ops[1].numbers[1] = v % 32768
  <2>1. ops[1].syntax = Bytes!Starred(v, 32768) /\ ops[1].numbers[1] = v % 32768
    BY <1>1, <1>2, <1>3, PlainOperand
  <2> QED
    BY <2>1 DEF Bytes!Starred
<1>5. PICK text : text = Bytes!TextOf(row, c, p, addr)
  OBVIOUS
<1>6. text.name = row.name /\ text.operands = ops
  <2>1. Bytes!NameOf(row, c, p) = row.name
    BY DEF Bytes!NameOf
  <2> QED
    BY <1>3, <1>5, <2>1 DEF Bytes!TextOf, Bytes!Text, OperandsOf
<1>7. Bytes!Encoded(row, ops, addr) = {}
  BY <1>4, MemrefTakesNothing
<1>8. Bytes!Indexed(row, ops[1]) = {}
  BY <1>4, NotIndexed
<1>9. ASSUME NEW e PROVE e \notin Bytes!Assembled(chip, text, addr)
  <2>1. e \in Bytes!Assembled(chip, text, addr)
          <=> \E x \in Bytes!Named[chip][row.name] :
                e \in Bytes!Encoded(x, ops, addr) \/ (IsMemref(x) /\ e \in Bytes!Indexed(x, ops[1]))
    BY <1>6, AssembledByRow
  <2>2. ASSUME NEW x \in Bytes!Named[chip][row.name] PROVE x = row
    <3>1. x \in Bytes!Tables[chip] /\ row.name = x.name
      BY <1>1, <2>2, NamedRows
    <3> QED
      BY <1>1, <3>1, MemrefsApart
  <2> QED
    BY <1>7, <1>8, <2>1, <2>2
<1>10. row.name[2] # "r3" /\ (bytes[2] \div 32) % 4 # 0
  <2>1. (v \div 8192) % 4 # 0
    BY <1>2, ControlInHighByte
  <2>2. row.name[2] # "r3"
    BY <2>1 DEF Bytes!IndexControl
  <2> QED
    BY <1>2, <2>1, <2>2, ControlInHighByte
<1>11. row \in Bytes!Claims(chip, bytes, 0)
  <2>1. row \in Bytes!Tables[chip] /\ Len(row.opcode) = 1 /\ bytes \in Seq(Byte)
    BY <1>1, <1>2
  <2>2. PICK q \in Nat : q = 0
    OBVIOUS
  <2>3. q + 1 <= Len(bytes) /\ bytes[q + 1] = row.opcode[1]
    BY <1>2, <2>2
  <2>4. row \in Bytes!Claims(chip, bytes, q)
    BY <2>1, <2>2, <2>3, ClaimedByRow
  <2> QED
    BY <2>2, <2>4
<1>12. Bytes!Unsaid(chip, bytes)
  BY <1>10, <1>11 DEF Bytes!Unsaid, IsMemref
<1> QED
  BY <1>2, <1>5, <1>9, <1>12

\* What the assembler makes of what a row reads: the same bytes, or nothing.
LEMMA TextAssembles ==
  ASSUME NEW chip \in Bytes!CPUS, NEW row, NEW c, NEW p, NEW bytes, ReadAt(chip, row, c, p, bytes),
         NEW addr \in Int, NEW back, back = Bytes!Assembled(chip, Bytes!TextOf(row, c, p, addr), addr)
  PROVE  back = {bytes} \/ (back = {} /\ chip = "s2650" /\ Bytes!Unsaid(chip, bytes))
<1>1. PICK v, w, m : v = Bytes!Value("memref", c, p + 1) /\ w = Bytes!IndexControl(row, v) /\ m = v % 32768
  OBVIOUS
<1>2. CASE SaysAll(row, c, p)
  BY <1>2, PlainAssembles
<1>3. CASE IsMemref(row) /\ w # 0
  BY <1>1, <1>3, IndexedAssembles
<1>4. CASE IsMemref(row) /\ w = 0 /\ ~(m < 8192)
  BY <1>1, <1>4, UnsaidAssembles
<1>5. SaysAll(row, c, p) \/ (IsMemref(row) /\ ~(w = 0 /\ m < 8192))
  BY <1>1 DEF SaysAll
<1> QED
  BY <1>2, <1>3, <1>4, <1>5

\* What the assembler makes of a line of a byte CPU.
Returns(chip, line) ==
  IF line.kind = "instruction"
  THEN LET back == Bytes!Assembled(chip, line.text, line.addr)
       IN  back = {line.bytes} \/ (back = {} /\ chip = "s2650" /\ Bytes!Unsaid(chip, line.bytes))
  ELSE line.text.name = "byte" /\ line.text.operands = line.bytes

\* The invariant behind RoundTrip.
LinesReturn == cpu \in Bytes!CPUS => \A k \in DOMAIN out : Returns(cpu, out[k])

\* The byte CPUs are none of the others.
LEMMA ByteCpuApart ==
  ASSUME cpu \in Bytes!CPUS
  PROVE  cpu \notin {"6809", "pdp11", "tms9900"} \cup Z8000s
BY DEF Bytes!CPUS, Bytes!Tables, Z8000s

\* An instruction's line comes back when the assembler makes its bytes of it.
LEMMA ReturnsOf ==
  ASSUME NEW chip, NEW line, line.kind = "instruction", NEW back,
         Bytes!Assembled(chip, line.text, line.addr) = back,
         back = {line.bytes} \/ (back = {} /\ chip = "s2650" /\ Bytes!Unsaid(chip, line.bytes))
  PROVE  Returns(chip, line)
<1>1. \/ Bytes!Assembled(chip, line.text, line.addr) = {line.bytes}
      \/ /\ Bytes!Assembled(chip, line.text, line.addr) = {}
         /\ chip = "s2650" /\ Bytes!Unsaid(chip, line.bytes)
  OBVIOUS
<1> QED
  BY <1>1, Zenon DEF Returns

\* The line a step of theirs pushes comes back.
LEMMA StepReturns ==
  ASSUME TypeOK, cpu \in Bytes!CPUS, EmitInstruction \/ EmitData \/ EmitByte
  PROVE  \E n, kind, text : Pushes(n, kind, text) /\ Returns(cpu, LineAt(n, kind, text))
<1>1. code \in Seq(Byte) /\ pos \in Nat /\ origin \in Int
  BY CodesAreBytes, OriginsAreWords, WordIsInt DEF TypeOK
<1>2. PICK x \in Nat : x = Len(code)
  BY <1>1, LenProperties
<1>3. cpu \notin {"6809", "pdp11", "tms9900"} \cup Z8000s
  BY ByteCpuApart
<1>4. Unit = 1
  BY <1>3 DEF Unit
<1>5. ~EmitByte
  BY <1>1, <1>2, <1>4 DEF EmitByte
<1>6. pos + 1 <= Len(code) /\ pos < Len(code)
  <2>1. pos + 1 <= Len(code)
    BY <1>4, <1>5 DEF EmitInstruction, EmitData
  <2> QED
    BY <1>1, <1>2, <2>1
<1>7. PICK a \in Int : a = AddrAt(pos)
  BY <1>1, WrapIsWord DEF AddrAt
<1>8. CASE EmitInstruction
  <2>1. PICK r \in Found : r.length > 0 /\ Push(r.length, "instruction", r.text)
    BY <1>8 DEF EmitInstruction
  <2>2. r.length \in Nat /\ pos + r.length <= Len(code)
    BY <1>4, <1>6, <2>1, FoundFits
  <2>3. Pushes(r.length, "instruction", r.text)
    BY <2>1, <2>2 DEF Pushes
  <2>4. r \in Bytes!Readings(cpu, code, pos, a)
    BY <1>3, <1>7, <2>1 DEF Found, First, Readings
  <2>5. PICK row \in Bytes!Claims(cpu, code, pos) : r = Bytes!ReadingOf(row, code, pos, a)
    BY <2>4 DEF Bytes!Readings
  <2>6. code[pos + 1] \in Byte
    BY <1>1, <1>6, OneByte
  <2>7. row \in Bytes!Tables[cpu] /\ row.opcode = SubSeq(code, pos + 1, pos + Len(row.opcode))
    BY <2>5, <2>6 DEF Bytes!Claims, Bytes!StartingWith, Bytes!Byte, Byte
  <2>8. PICK l, t : l = Bytes!RowLen(row) /\ t = Bytes!TextOf(row, code, pos, a)
    OBVIOUS
  <2>9. l \in Nat
    <3>1. PICK n \in Nat : n = Len(row.slots)
      BY <2>7, ByteRow
    <3>2. Bytes!Before(row, n) \in Nat /\ Len(row.opcode) \in Nat
      BY <2>7, <3>1, BeforeNext, ByteRow
    <3> QED
      BY <2>8, <3>1, <3>2 DEF Bytes!RowLen
  <2>10. ~(pos + l > Len(code)) /\ r.length = l /\ r.text = t
    <3>1. \/ pos + l > Len(code) /\ r = Bytes!Reading(row.rank, 0, Bytes!Text(<<>>, <<>>))
          \/ ~(pos + l > Len(code)) /\ r = Bytes!Reading(row.rank, l, t)
      BY <2>5, <2>8, Zenon DEF Bytes!ReadingOf
    <3>2. \A rank, text : Bytes!Reading(rank, 0, text).length = 0
      BY DEF Bytes!Reading
    <3>3. \A rank : Bytes!Reading(rank, l, t).length = l /\ Bytes!Reading(rank, l, t).text = t
      BY DEF Bytes!Reading
    <3>4. r.length # 0
      BY <2>1
    <3> QED
      BY <3>1, <3>2, <3>3, <3>4, Zenon
  <2>11. pos + l <= Len(code)
    BY <1>1, <1>2, <2>9, <2>10
  <2>12. PICK bytes : bytes = SubSeq(code, pos + 1, pos + l)
    OBVIOUS
  <2>13. ReadAt(cpu, row, code, pos, bytes)
    BY <1>1, <2>7, <2>8, <2>11, <2>12, Zenon DEF ReadAt
  <2>14. PICK back : back = Bytes!Assembled(cpu, t, a)
    OBVIOUS
  <2>18. back = {bytes} \/ (back = {} /\ cpu = "s2650" /\ Bytes!Unsaid(cpu, bytes))
    BY <1>7, <2>8, <2>13, <2>14, TextAssembles
  <2>15. PICK line : line = LineAt(r.length, "instruction", r.text)
    OBVIOUS
  <2>16. line.addr = a /\ line.kind = "instruction" /\ line.text = t /\ line.bytes = bytes
    BY <1>7, <2>10, <2>12, <2>15 DEF LineAt
  <2>17. Returns(cpu, line)
    <3>1. Bytes!Assembled(cpu, line.text, line.addr) = back
      BY <2>14, <2>16
    <3>2. back = {line.bytes} \/ (back = {} /\ cpu = "s2650" /\ Bytes!Unsaid(cpu, line.bytes))
      BY <2>16, <2>18
    <3>3. line.kind = "instruction"
      BY <2>16
    <3> QED
      BY <3>1, <3>2, <3>3, ReturnsOf
  <2> QED
    BY <2>3, <2>15, <2>17
<1>9. CASE EmitData
  <2>1. PICK text : text = Text("byte", <<code[pos + 1]>>)
    OBVIOUS
  <2>2. Push(1, "data", text)
    BY <1>3, <1>4, <1>9, <2>1 DEF EmitData
  <2>3. Pushes(1, "data", text)
    BY <1>6, <2>2 DEF Pushes
  <2>4. PICK line : line = LineAt(1, "data", text)
    OBVIOUS
  <2>5. line.kind = "data" /\ line.text = text /\ line.bytes = SubSeq(code, pos + 1, pos + 1)
    BY <2>4 DEF LineAt
  <2>6. line.bytes = <<code[pos + 1]>>
    BY <1>1, <1>6, <2>5, OneByte
  <2>7. text.name = "byte" /\ text.operands = <<code[pos + 1]>>
    BY <2>1 DEF Text
  <2>8. Returns(cpu, line)
    BY <2>5, <2>6, <2>7 DEF Returns
  <2> QED
    BY <2>3, <2>4, <2>8
<1> QED
  BY <1>5, <1>8, <1>9

\* What RoundTrip says of a line.
Kept(line) ==
  IF line.kind = "instruction" /\ Unsaid(line.bytes)
  THEN \A bytes \in Reassembled(line) : Len(bytes) = Len(line.bytes)
  ELSE Reassembled(line) = {line.bytes}
         <=> ~(line.kind = "instruction" /\ Lost(line.text, line.bytes))

\* A line keeps it when it comes back as it is, or when the mask applies.
LEMMA KeptOf ==
  ASSUME NEW line, \A bytes \in Reassembled(line) : Len(bytes) = Len(line.bytes),
         \/ Reassembled(line) = {line.bytes} /\ ~Lost(line.text, line.bytes)
         \/ line.kind = "instruction" /\ Unsaid(line.bytes)
  PROVE  Kept(line)
<1>1. CASE line.kind = "instruction" /\ Unsaid(line.bytes)
  BY <1>1 DEF Kept
<1>2. CASE ~(line.kind = "instruction" /\ Unsaid(line.bytes))
  <2>1. Reassembled(line) = {line.bytes} /\ ~Lost(line.text, line.bytes)
    BY <1>2
  <2> QED
    BY <1>2, <2>1 DEF Kept
<1> QED
  BY <1>1, <1>2

\* A listing whose lines come back keeps what RoundTrip says.
LEMMA ReturnsRoundTrip ==
  ASSUME LinesReturn, cpu \in Bytes!CPUS
  PROVE  RoundTrip
<1>1. cpu \notin {"6809", "pdp11", "tms9900"} \cup Z8000s
  BY ByteCpuApart
<1>2. ASSUME NEW k \in DOMAIN out PROVE Kept(out[k])
  <2>1. PICK line : line = out[k]
    OBVIOUS
  <2>2. Returns(cpu, line)
    BY <1>2, <2>1 DEF LinesReturn
  <2>3. ~Lost(line.text, line.bytes)
    BY <1>1 DEF Lost
  <2>4. CASE line.kind = "instruction"
    <3>1. PICK back : back = Bytes!Assembled(cpu, line.text, line.addr)
      OBVIOUS
    <3>2. Reassembled(line) = back
      BY <1>1, <2>4, <3>1 DEF Reassembled, Assembled
    <3>3. back = {line.bytes} \/ (back = {} /\ cpu = "s2650" /\ Bytes!Unsaid(cpu, line.bytes))
      BY <2>2, <2>4, <3>1, Zenon DEF Returns
    <3>4. back = {line.bytes} \/ (back = {} /\ Unsaid(line.bytes))
      BY <3>3, Zenon DEF Unsaid
    <3>5. \A bytes \in back : Len(bytes) = Len(line.bytes)
      BY <3>4
    <3>6. CASE back = {line.bytes}
      <4>1. Reassembled(line) = {line.bytes}
        BY <3>2, <3>6
      <4>2. \A bytes \in Reassembled(line) : Len(bytes) = Len(line.bytes)
        BY <3>2, <3>5
      <4> QED
        BY <2>1, <2>3, <4>1, <4>2, KeptOf
    <3>7. CASE back = {} /\ Unsaid(line.bytes)
      <4>1. \A bytes \in Reassembled(line) : Len(bytes) = Len(line.bytes)
        BY <3>2, <3>5
      <4> QED
        BY <2>1, <2>4, <3>7, <4>1, KeptOf
    <3> QED
      BY <3>4, <3>6, <3>7
  <2>5. CASE line.kind # "instruction"
    <3>1. line.text.name = "byte" /\ line.text.operands = line.bytes
      BY <2>2, <2>5 DEF Returns
    <3>2. Reassembled(line) = {line.text.operands}
      <4>1. PICK name, operands : name = line.text.name /\ operands = line.text.operands
        OBVIOUS
      <4>2. (CASE name = "byte" -> operands
               [] cpu = "pdp11" -> LittleBytes(operands[1])
               [] OTHER         -> BigBytes(operands[1])) = operands
        BY <1>1, <3>1, <4>1
      <4> QED
        BY <2>5, <4>1, <4>2, Zenon DEF Reassembled
    <3>3. Reassembled(line) = {line.bytes}
      BY <3>1, <3>2
    <3> QED
      BY <2>1, <2>5, <3>3, Zenon DEF Kept
  <2> QED
    BY <2>4, <2>5
<1> QED
  BY <1>2, Zenon DEF RoundTrip, Kept

(***************************************************************************)
(* What the ten disassemblers over byte tables list is undone by the CPU's *)
(* assembler, line by line: for any buffer, origin and cursor, every line  *)
(* comes back as just its bytes, but for the references of the 2650 whose  *)
(* text cannot say all their bits, and which no row takes back.            *)
(***************************************************************************)
THEOREM ByteCpusRoundTrip == Spec => [](cpu \in Bytes!CPUS => RoundTrip)
<1>1. Init => LinesReturn
  <2> SUFFICES ASSUME Init PROVE LinesReturn
    OBVIOUS
  <2>1. out = <<>>
    BY DEF Init
  <2> QED
    BY <2>1 DEF LinesReturn
<1>2. TypeOK /\ LinesReturn /\ [Next]_vars => LinesReturn'
  <2> SUFFICES ASSUME TypeOK, LinesReturn, [Next]_vars, cpu' \in Bytes!CPUS, NEW k \in DOMAIN out'
               PROVE  Returns(cpu', out'[k])
    BY DEF LinesReturn
  <2>1. CASE EmitInstruction \/ EmitData \/ EmitByte
    <3>1. cpu' = cpu /\ cpu \in Bytes!CPUS
      <4>1. PICK n, kind, text : Pushes(n, kind, text)
        BY <2>1, StepPushes
      <4> QED
        BY <4>1 DEF Pushes, Push
    <3>2. PICK n, kind, text : Pushes(n, kind, text) /\ Returns(cpu, LineAt(n, kind, text))
      BY <2>1, <3>1, StepReturns
    <3>3. PICK m \in Nat :
            /\ m <= pos /\ m = Len(out) /\ DOMAIN out = 1..m
            /\ out' = [j \in 1..(m + 1) |-> out'[j]]
            /\ out'[m + 1] = LineAt(n, kind, text)
            /\ \A j \in 1..m : out'[j] = out[j]
      BY <3>2, LinePushed
    <3>4. DOMAIN out' = 1..(m + 1)
      BY <3>3
    <3>5. CASE k = m + 1
      BY <3>1, <3>2, <3>3, <3>5
    <3>6. CASE k \in 1..m
      BY <3>1, <3>3, <3>6 DEF LinesReturn
    <3> QED
      BY <3>4, <3>5, <3>6
  <2>2. CASE UNCHANGED vars
    <3>1. cpu' = cpu /\ out' = out
      BY <2>2 DEF vars
    <3> QED
      BY <3>1 DEF LinesReturn
  <2> QED
    BY <2>1, <2>2 DEF Next, Return
<1>3. LinesReturn => (cpu \in Bytes!CPUS => RoundTrip)
  BY ReturnsRoundTrip
<1> QED
  BY <1>1, <1>2, <1>3, TypeCorrect, PTL DEF Spec

==============================================================================
