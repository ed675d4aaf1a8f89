-------------------------- MODULE DisasmCa65Proofs ---------------------------
(***************************************************************************)
(* The sweep of ca65's CPUs and its search for the longest opcode proved   *)
(* right for every buffer, every load address and every well-formed set of *)
(* tables in which the row tried first is the one that reads the most.     *)
(***************************************************************************)
EXTENDS DisasmCa65, WordLemmas, SequenceTheorems

------------------------------------------------------------------------------
(* Rows *)

LEMMA RowShape ==
  ASSUME NEW c \in Cpus, NEW f \in Rows[c]
  PROVE  /\ f.rank \in Nat
         /\ f.opcode \in Seq(Byte)
         /\ Len(f.opcode) \in Nat /\ Len(f.opcode) >= 1 /\ Len(f.opcode) <= 4
         /\ FormLen(f) \in Nat /\ FormLen(f) >= 1
<1>1. /\ f.rank \in Nat
      /\ f.opcode \in Seq(Byte) /\ Len(f.opcode) \in 1..4
      /\ f.operands \in Seq([kind : OperandKind, bytes : 1..2])
      /\ f.suffix = <<>>
  BY RowsAreWellFormed, Zenon
<1>2. PICK n \in 1..4 : n = Len(f.opcode)
  BY <1>1
<1>3. \A s \in DOMAIN f.operands : f.operands[s].bytes \in 1..2
  <2>1. DOMAIN f.operands = 1..Len(f.operands)
    BY <1>1, LenProperties
  <2>2. \A s \in DOMAIN f.operands : f.operands[s] \in [kind : OperandKind, bytes : 1..2]
    BY <1>1, <2>1, ElementOfSeq
  <2> QED
    BY <2>2
<1>4. PICK w1 \in 0..2, w2 \in 0..2, w3 \in 0..2 :
        w1 = Width(f, 1) /\ w2 = Width(f, 2) /\ w3 = Width(f, 3)
  BY <1>3 DEF Width
<1>5. PICK l \in Nat : l = n + (w1 + w2 + w3) + 0 /\ l >= 1
  OBVIOUS
<1>6. Len(f.suffix) = 0
  BY <1>1, EmptySeq
<1>7. FormLen(f) = l
  BY <1>2, <1>4, <1>5, <1>6, Zenon DEF FormLen, OperandLen
<1>8. n \in Nat /\ n >= 1 /\ n <= 4
  OBVIOUS
<1> QED
  BY <1>1, <1>2, <1>5, <1>7, <1>8, Zenon

\* A row whose opcode stands at p is a row of the CPU, its opcode in the buffer.
LEMMA StartingRow ==
  ASSUME cpu \in Cpus, NEW c \in Seq(Byte), NEW p \in Nat, p < Len(c),
         NEW f \in Starting(c, p)
  PROVE  /\ f \in Rows[cpu]
         /\ p + Len(f.opcode) <= Len(c)
         /\ SubSeq(c, p + 1, p + Len(f.opcode)) = f.opcode
<1>1. c[p + 1] \in Byte
  BY ElementOfSeq
<1>2. f \in Rows[cpu]
  BY <1>1 DEF Starting, StartingWith
<1>3. Stands(f.opcode, c, p)
  BY DEF Starting
<1> QED
  BY <1>2, <1>3 DEF Stands

\* Of two opcodes that stand at one place the longer begins with the shorter.
LEMMA OpcodesNest ==
  ASSUME cpu \in Cpus, NEW c \in Seq(Byte), NEW p \in Nat, p < Len(c),
         NEW f \in Starting(c, p), NEW g \in Starting(c, p),
         Len(g.opcode) <= Len(f.opcode)
  PROVE  SubSeq(f.opcode, 1, Len(g.opcode)) = g.opcode
<1>1. PICK l \in Nat : l = Len(c)
  BY LenProperties
<1>2. PICK m \in Nat : m = Len(f.opcode) /\ m >= 1 /\ p + m <= l
  BY <1>1, StartingRow, RowShape
<1>3. PICK n \in Nat : n = Len(g.opcode) /\ n >= 1 /\ n <= m
  BY <1>2, StartingRow, RowShape
<1>4. PICK u : u = SubSeq(c, p + 1, p + m)
  OBVIOUS
<1>5. u = f.opcode /\ u \in Seq(Byte)
  BY <1>2, <1>4, StartingRow, RowShape
<1>6. SubSeq(c, p + 1, p + n) = g.opcode
  BY <1>3, StartingRow
<1>7. PICK i \in 1..Len(c), j \in 1..Len(c) : i = p + 1 /\ j = p + m
  BY <1>1, <1>2
<1>8. 1 \in 1..j - i + 1 /\ n \in 1..j - i + 1
  BY <1>2, <1>3, <1>7
<1>9. SubSeq(SubSeq(c, i, j), 1, n) = SubSeq(c, i + 1 - 1, i + n - 1)
  BY <1>8, SubSeqOfSubSeq
<1>10. i + 1 - 1 = p + 1 /\ i + n - 1 = p + n
  BY <1>7
<1> QED
  BY <1>3, <1>4, <1>5, <1>6, <1>7, <1>9, <1>10, Zenon

------------------------------------------------------------------------------
(* decode_longest *)

\* If an opcode stands at p, some row decides there that reads at least as much.
LEMMA SomeRowDecides ==
  ASSUME cpu \in Cpus, NEW c \in Seq(Byte), NEW p \in Nat, p < Len(c),
         NEW g \in Starting(c, p)
  PROVE  \E d \in Deciding(c, p) : FormLen(g) <= FormLen(d)
<1>1. \A f \in Starting(c, p) :
        /\ f \in Rows[cpu] /\ f.rank \in Nat /\ FormLen(f) \in Nat
        /\ Len(f.opcode) \in Nat /\ Len(f.opcode) <= 4
  BY StartingRow, RowShape
<1>2. PICK h \in Starting(c, p) :
        \A f \in Starting(c, p) : Len(f.opcode) <= Len(h.opcode)
  <2> DEFINE S == {4 - Len(f.opcode) : f \in Starting(c, p)}
  <2>1. S \in SUBSET Nat
    <3>1. \A f \in Starting(c, p) : 4 - Len(f.opcode) \in Nat
      BY <1>1
    <3> QED
      BY <3>1
  <2>2. S # {}
    OBVIOUS
  <2>3. PICK m \in S : \A n \in S : m <= n
    BY <2>1, <2>2, LeastNumber
  <2>4. PICK h \in Starting(c, p) : m = 4 - Len(h.opcode)
    OBVIOUS
  <2>5. \A f \in Starting(c, p) : 4 - Len(h.opcode) <= 4 - Len(f.opcode)
    BY <2>3, <2>4
  <2>6. \A f \in Starting(c, p) : Len(f.opcode) <= Len(h.opcode)
    BY <1>1, <2>5
  <2> QED
    BY <2>6
<1>3. PICK d \in Starting(c, p) :
        /\ \A f \in Starting(c, p) : Len(f.opcode) <= Len(d.opcode)
        /\ \A f \in Starting(c, p) : Len(f.opcode) = Len(d.opcode) => d.rank <= f.rank
  <2>1. PICK S \in SUBSET Nat :
          S = {f.rank : f \in {e \in Starting(c, p) : Len(e.opcode) = Len(h.opcode)}}
    BY <1>1
  <2>2. S # {}
    BY <2>1
  <2>3. PICK m \in S : \A n \in S : m <= n
    BY <2>2, LeastNumber
  <2>4. PICK d \in Starting(c, p) : m = d.rank /\ Len(d.opcode) = Len(h.opcode)
    BY <2>1
  <2>5. \A f \in Starting(c, p) : Len(f.opcode) = Len(d.opcode) => d.rank <= f.rank
    BY <2>1, <2>3, <2>4
  <2> QED
    BY <1>2, <2>4, <2>5
<1>4. ASSUME NEW e \in Starting(c, p), Len(e.opcode) = Len(d.opcode), e.rank = d.rank
      PROVE  e \in Deciding(c, p)
  <2>1. \A f \in Starting(c, p) : ~Before(f, e)
    BY <1>1, <1>3, <1>4 DEF Before
  <2> QED
    BY <2>1 DEF Deciding
<1>5. CASE Len(g.opcode) = Len(d.opcode) /\ g.rank = d.rank
  <2>1. g \in Deciding(c, p)
    BY <1>4, <1>5
  <2>2. FormLen(g) <= FormLen(g)
    BY <1>1
  <2> QED
    BY <2>1, <2>2
<1>6. CASE ~(Len(g.opcode) = Len(d.opcode) /\ g.rank = d.rank)
  <2>1. Before(d, g)
    BY <1>1, <1>3, <1>6 DEF Before
  <2>2. SubSeq(d.opcode, 1, Len(g.opcode)) = g.opcode
    BY <1>3, OpcodesNest
  <2>3. FormLen(g) <= FormLen(d)
    BY <1>1, <2>1, <2>2, FirstReadsMost
  <2> QED
    BY <1>4, <2>3
<1> QED
  BY <1>5, <1>6

\* What is decoded lies in the buffer and is as long as any row that stands
\* there; nothing is decoded only where nothing stands or a row is cut off.
LEMMA DecodedIsLongest ==
  ASSUME cpu \in Cpus, NEW c \in Seq(Byte), NEW p \in Nat, p < Len(c),
         NEW f \in decode_longest(c, p)
  PROVE  /\ FormLen(f) \in Nat /\ FormLen(f) >= 1 /\ p + FormLen(f) <= Len(c)
         /\ \A g \in Starting(c, p) : FormLen(g) <= FormLen(f)
<1>1. /\ f \in Deciding(c, p)
      /\ \A g \in Deciding(c, p) : Complete(g, c, p) /\ FormLen(g) <= FormLen(f)
  BY DEF decode_longest
<1>2. f \in Starting(c, p)
  BY <1>1 DEF Deciding
<1>3. FormLen(f) \in Nat /\ FormLen(f) >= 1
  BY <1>2, StartingRow, RowShape
<1>4. p + FormLen(f) <= Len(c)
  BY <1>1 DEF Complete
<1>5. ASSUME NEW g \in Starting(c, p) PROVE FormLen(g) <= FormLen(f)
  <2>1. PICK d \in Deciding(c, p) : FormLen(g) <= FormLen(d)
    BY SomeRowDecides
  <2>2. FormLen(d) <= FormLen(f)
    BY <1>1
  <2>3. d \in Starting(c, p)
    BY DEF Deciding
  <2>4. FormLen(g) \in Nat /\ FormLen(d) \in Nat
    BY <2>3, StartingRow, RowShape
  <2> QED
    BY <1>3, <2>1, <2>2, <2>4
<1> QED
  BY <1>3, <1>4, <1>5

LEMMA UndecodedIsCutOff ==
  ASSUME cpu \in Cpus, NEW c \in Seq(Byte), NEW p \in Nat, p < Len(c),
         decode_longest(c, p) = {}
  PROVE  Starting(c, p) = {} \/ \E f \in Starting(c, p) : ~Complete(f, c, p)
<1> SUFFICES ASSUME Starting(c, p) # {}, \A f \in Starting(c, p) : Complete(f, c, p)
             PROVE  FALSE
  OBVIOUS
<1>1. \A f \in Deciding(c, p) :
        f \in Starting(c, p) /\ Complete(f, c, p) /\ FormLen(f) \in Nat
  BY StartingRow, RowShape DEF Deciding
<1>2. PICK l \in Nat : l = Len(c)
  BY LenProperties
<1>3. \A f \in Deciding(c, p) : p + FormLen(f) <= l
  BY <1>1, <1>2 DEF Complete
<1> DEFINE S == {l - (p + FormLen(f)) : f \in Deciding(c, p)}
<1>4. S \in SUBSET Nat
  <2>1. \A f \in Deciding(c, p) : l - (p + FormLen(f)) \in Nat
    BY <1>1, <1>2, <1>3
  <2> QED
    BY <2>1
<1>5. S # {}
  BY SomeRowDecides
<1>6. PICK m \in S : \A n \in S : m <= n
  BY <1>4, <1>5, LeastNumber
<1>7. PICK f \in Deciding(c, p) : m = l - (p + FormLen(f))
  OBVIOUS
<1>8. \A g \in Deciding(c, p) : l - (p + FormLen(f)) <= l - (p + FormLen(g))
  BY <1>6, <1>7
<1>9. \A g \in Deciding(c, p) : FormLen(g) <= FormLen(f)
  BY <1>1, <1>2, <1>8
<1> QED
  BY <1>1, <1>9 DEF decode_longest

------------------------------------------------------------------------------
(* Types *)

\* The line of n bytes with this text at the cursor.
LineAt(n, text) ==
  [at |-> pos, addr |-> Wrap16(origin + pos), bytes |-> SubSeq(code, pos + 1, pos + n),
   text |-> text]

\* A step lists n bytes that are there.
Pushes(n, text) == n \in Nat /\ n >= 1 /\ pos + n <= Len(code) /\ Push(n, text)

\* A line of n bytes at p is the longest there, and data only without another.
SaysMost(n, kind, p) ==
  IF kind = "instruction" THEN \A f \in Starting(code, p) : FormLen(f) <= n
  ELSE Starting(code, p) = {} \/ \E f \in Starting(code, p) : ~Complete(f, code, p)

LEMMA StepPushes ==
  ASSUME TypeOK, EmitInstruction \/ EmitData
  PROVE  \E n, text : Pushes(n, text) /\ SaysMost(n, text.kind, pos)
<1>1. cpu \in Cpus /\ code \in Seq(Byte) /\ pos \in Nat /\ Len(code) \in Nat
  BY LenProperties DEF TypeOK
<1>2. pos < Len(code)
  BY DEF EmitInstruction, EmitData
<1>3. CASE EmitInstruction
  <2>1. PICK f \in decode_longest(code, pos) :
          Push(FormLen(f), Instruction(f, code, pos, Wrap16(origin + pos)))
    BY <1>3 DEF EmitInstruction
  <2>2. /\ FormLen(f) \in Nat /\ FormLen(f) >= 1 /\ pos + FormLen(f) <= Len(code)
        /\ \A g \in Starting(code, pos) : FormLen(g) <= FormLen(f)
    BY <1>1, <1>2, DecodedIsLongest
  <2>3. PICK n, text :
          n = FormLen(f) /\ text = Instruction(f, code, pos, Wrap16(origin + pos))
    OBVIOUS
  <2>4. text.kind = "instruction"
    BY <2>3 DEF Instruction
  <2> QED
    BY <2>1, <2>2, <2>3, <2>4, Zenon DEF Pushes, SaysMost
<1>4. CASE EmitData
  <2>1. decode_longest(code, pos) = {} /\ Push(1, Datum(code, pos))
    BY <1>4 DEF EmitData
  <2>2. Starting(code, pos) = {} \/ \E f \in Starting(code, pos) : ~Complete(f, code, pos)
    BY <1>1, <1>2, <2>1, UndecodedIsCutOff
  <2>3. PICK n, text : n = 1 /\ text = Datum(code, pos)
    OBVIOUS
  <2>4. text.kind = "data"
    BY <2>3 DEF Datum
  <2>5. n \in Nat /\ n >= 1 /\ pos + n <= Len(code)
    BY <1>1, <1>2, <2>3
  <2>6. Push(n, text)
    BY <2>1, <2>3
  <2>7. SaysMost(n, text.kind, pos)
    BY <2>2, <2>4 DEF SaysMost
  <2> QED
    BY <2>5, <2>6, <2>7, Zenon DEF Pushes
<1> QED
  BY <1>3, <1>4

\* The listing after a step: the lines it had, then the one that was pushed.
LEMMA LinePushed ==
  ASSUME TypeOK, NEW n, NEW text, Pushes(n, text)
  PROVE  \E m \in Nat :
           /\ m <= pos /\ m = Len(out) /\ DOMAIN out = 1..m
           /\ out' = [k \in 1..(m + 1) |-> out'[k]]
           /\ out'[m + 1] = LineAt(n, text)
           /\ \A k \in 1..m : out'[k] = out[k]
<1>1. PICK m \in 0..pos : out = [k \in 1..m |-> out[k]]
  BY DEF TypeOK
<1>2. m \in Nat /\ m <= pos
  BY DEF TypeOK
<1>3. PICK line : line = LineAt(n, text)
  OBVIOUS
<1>4. PICK T : T = {out[k] : k \in 1..m} \cup {line}
  OBVIOUS
<1>5. out \in [1..m -> T] /\ line \in T
  BY <1>1, <1>4
<1>6. out \in Seq(T) /\ DOMAIN out = 1..m
  BY <1>2, <1>5, SeqDef
<1>7. Len(out) = m
  BY <1>2, <1>6, LenProperties
<1>8. out' = Append(out, line)
  BY <1>3 DEF Pushes, Push, LineAt
<1>9. /\ out' \in Seq(T) /\ DOMAIN out' = 1..(m + 1)
      /\ out'[m + 1] = line /\ \A k \in 1..m : out'[k] = out[k]
  BY <1>2, <1>5, <1>6, <1>7, <1>8, AppendProperties, LenProperties, SMTT(30)
<1> QED
  BY <1>2, <1>3, <1>6, <1>7, <1>9

\* The line is one.
LEMMA LineTyped ==
  ASSUME TypeOK, NEW n, NEW text, Pushes(n, text), NEW line, line = LineAt(n, text)
  PROVE  /\ line.at = pos /\ line.addr \in Word16 /\ line.bytes \in Seq(Byte)
         /\ Len(line.bytes) = n /\ line.text = text
<1>1. code \in Seq(Byte) /\ pos \in Nat /\ origin \in Int
  BY WordIsInt, LenProperties DEF TypeOK
<1>2. n \in Nat /\ pos + n <= Len(code)
  BY DEF Pushes
<1>3. SubSeq(code, pos + 1, pos + n) \in Seq(Byte) /\ Len(SubSeq(code, pos + 1, pos + n)) = n
  BY <1>1, <1>2, BytesCounted
<1>4. Wrap16(origin + pos) \in Word16
  <2>1. origin + pos \in Int
    BY <1>1
  <2> QED
    BY <2>1, WrapIsWord
<1> QED
  BY <1>3, <1>4 DEF LineAt

\* Every state has the types the code gives its variables, for whatever CPU:
\* the cursor never leaves the buffer, every address is a u16.
THEOREM TypeCorrect == Spec => []TypeOK
<1>1. Init => TypeOK
  <2> SUFFICES ASSUME Init PROVE TypeOK
    OBVIOUS
  <2>1. cpu \in Cpus /\ code \in Seq(Byte) /\ origin \in Word16 /\ pos = 0 /\ out = <<>>
    BY CodesAreBytes, OriginsAreWords DEF Init
  <2>2. pos \in 0..Len(code)
    BY <2>1, LenProperties
  <2>3. out = [k \in 1..0 |-> out[k]] /\ DOMAIN out = {}
    BY <2>1
  <2> QED
    BY <2>1, <2>2, <2>3 DEF TypeOK
<1>2. TypeOK /\ [Next]_vars => TypeOK'
  <2> SUFFICES ASSUME TypeOK, [Next]_vars PROVE TypeOK'
    OBVIOUS
  <2>1. CASE EmitInstruction \/ EmitData
    <3>1. PICK n, text : Pushes(n, text)
      BY <2>1, StepPushes
    <3>2. /\ n \in Nat /\ n >= 1 /\ pos + n <= Len(code)
          /\ pos' = pos + n /\ UNCHANGED <<cpu, code, origin>>
      BY <3>1 DEF Pushes, Push
    <3>3. PICK l \in Nat : l = Len(code)
      BY LenProperties DEF TypeOK
    <3>4. PICK p \in Nat : p = pos
      BY DEF TypeOK
    <3>5. pos' \in 0..Len(code')
      BY <3>2, <3>3, <3>4
    <3>6. PICK m \in Nat :
            /\ m <= pos /\ m = Len(out) /\ DOMAIN out = 1..m
            /\ out' = [k \in 1..(m + 1) |-> out'[k]]
            /\ out'[m + 1] = LineAt(n, text)
            /\ \A k \in 1..m : out'[k] = out[k]
      BY <3>1, LinePushed
    <3>7. m + 1 \in 0..pos'
      BY <3>2, <3>4, <3>6
    <3>8. ASSUME NEW k \in DOMAIN out'
          PROVE  out'[k].at \in 0..pos' /\ out'[k].addr \in Word16 /\ out'[k].bytes \in Seq(Byte)
      <4>1. DOMAIN out' = 1..(m + 1)
        BY <3>6
      <4>2. CASE k = m + 1
        <5>1. PICK line : line = LineAt(n, text)
          OBVIOUS
        <5>2. line.at = pos /\ line.addr \in Word16 /\ line.bytes \in Seq(Byte)
          BY <3>1, <5>1, LineTyped
        <5>3. pos \in 0..pos'
          BY <3>2, <3>4
        <5> QED
          BY <3>6, <4>2, <5>1, <5>2, <5>3, Zenon
      <4>3. CASE k \in 1..m
        <5>1. out[k].at \in 0..pos /\ out[k].addr \in Word16 /\ out[k].bytes \in Seq(Byte)
          BY <3>6, <4>3 DEF TypeOK
        <5>2. 0..pos \subseteq 0..pos'
          BY <3>2, <3>4
        <5> QED
          BY <3>6, <4>3, <5>1, <5>2
      <4> QED
        BY <4>1, <4>2, <4>3
    <3> QED
      BY <3>2, <3>5, <3>6, <3>7, <3>8 DEF TypeOK
  <2>2. CASE UNCHANGED vars
    BY <2>2 DEF TypeOK, vars
  <2> QED
    BY <2>1, <2>2 DEF Next, Return
<1> QED
  BY <1>1, <1>2, PTL DEF Spec

------------------------------------------------------------------------------
(* The longest opcode *)

\* What Longest says of a line.
LongestLine(line) == SaysMost(Len(line.bytes), line.text.kind, line.at)

LEMMA LongestByLine == Longest <=> \A k \in DOMAIN out : LongestLine(out[k])
BY Zenon DEF Longest, LongestLine, SaysMost

\* "A longer opcode wins a shorter one": in every listing an instruction is the
\* longest whose opcode stands there, and a byte is data only where no opcode
\* stands or an instruction is cut off.
THEOREM LongestHolds == Spec => []Longest
<1>1. Init => Longest
  BY DEF Init, Longest
<1>2. TypeOK /\ Longest /\ [Next]_vars => Longest'
  <2> SUFFICES ASSUME TypeOK, Longest, [Next]_vars PROVE Longest'
    OBVIOUS
  <2>1. CASE EmitInstruction \/ EmitData
    <3>1. PICK n, text : Pushes(n, text) /\ SaysMost(n, text.kind, pos)
      BY <2>1, StepPushes
    <3>2. UNCHANGED <<cpu, code>>
      BY <3>1 DEF Pushes, Push
    <3>3. PICK m \in Nat :
            /\ m = Len(out) /\ DOMAIN out = 1..m
            /\ out' = [k \in 1..(m + 1) |-> out'[k]]
            /\ out'[m + 1] = LineAt(n, text)
            /\ \A k \in 1..m : out'[k] = out[k]
      BY <3>1, LinePushed
    <3>4. PICK line : line = LineAt(n, text)
      OBVIOUS
    <3>5. LongestLine(line)
      BY <3>1, <3>4, LineTyped DEF LongestLine
    <3>6. \A k \in 1..m : LongestLine(out[k])
      BY <3>3, LongestByLine
    <3>7. ASSUME NEW k \in DOMAIN out' PROVE LongestLine(out'[k])
      <4>1. k \in 1..(m + 1)
        BY <3>3
      <4>2. k = m + 1 \/ k \in 1..m
        BY <4>1
      <4> QED
        BY <3>3, <3>4, <3>5, <3>6, <4>2
    <3>8. \A k \in DOMAIN out' : SaysMost(Len(out'[k].bytes), out'[k].text.kind, out'[k].at)
      BY <3>7 DEF LongestLine
    <3> QED
      BY <3>2, <3>8, Zenon DEF Longest, SaysMost, Starting
  <2>2. CASE UNCHANGED vars
    BY <2>2, Zenon DEF Longest, Starting, vars
  <2> QED
    BY <2>1, <2>2 DEF Next, Return
<1> QED
  BY <1>1, <1>2, TypeCorrect, PTL DEF Spec

------------------------------------------------------------------------------
(* Equal rows *)

\* decode_longest finds at most one row.
LEMMA OneDecoded ==
  ASSUME cpu \in Cpus, NEW c \in Seq(Byte), NEW p \in Nat, p < Len(c),
         NEW f \in decode_longest(c, p), NEW g \in decode_longest(c, p)
  PROVE  f = g
<1>1. /\ f \in Starting(c, p) /\ g \in Starting(c, p)
      /\ ~Before(f, g) /\ ~Before(g, f)
      /\ FormLen(f) <= FormLen(g) /\ FormLen(g) <= FormLen(f)
  BY DEF decode_longest, Deciding
<1>2. /\ f \in Rows[cpu] /\ SubSeq(c, p + 1, p + Len(f.opcode)) = f.opcode
      /\ g \in Rows[cpu] /\ SubSeq(c, p + 1, p + Len(g.opcode)) = g.opcode
  BY <1>1, StartingRow
<1>3. /\ f.rank \in Nat /\ Len(f.opcode) \in Nat /\ FormLen(f) \in Nat
      /\ g.rank \in Nat /\ Len(g.opcode) \in Nat /\ FormLen(g) \in Nat
  BY <1>2, RowShape
<1>4. Len(f.opcode) = Len(g.opcode) /\ f.rank = g.rank /\ FormLen(f) = FormLen(g)
  BY <1>1, <1>3 DEF Before
<1>5. f.opcode = g.opcode
  BY <1>2, <1>4
<1> QED
  BY <1>2, <1>4, <1>5, TwinsAreOne

\* Whichever row decode_longest keeps where two read equally many bytes, the
\* line reads the same, in every buffer at every address.
THEOREM OneTextHolds == Spec => []OneText
<1>1. TypeOK => OneText
  <2> SUFFICES ASSUME TypeOK, pos < Len(code),
                      NEW f \in decode_longest(code, pos), NEW g \in decode_longest(code, pos)
               PROVE  Instruction(f, code, pos, Wrap16(origin + pos))
                        = Instruction(g, code, pos, Wrap16(origin + pos))
    BY DEF OneText
  <2>1. cpu \in Cpus /\ code \in Seq(Byte) /\ pos \in Nat
    BY LenProperties DEF TypeOK
  <2>2. f = g
    BY <2>1, OneDecoded
  <2> QED
    BY <2>2
<1> QED
  BY <1>1, TypeCorrect, PTL

------------------------------------------------------------------------------
(* The numbers of a text, read back *)

\* The slots of a row: at most two, of one byte or two, low byte first.
LEMMA SlotShape ==
  ASSUME NEW c \in Cpus, NEW f \in Rows[c]
  PROVE  /\ DOMAIN f.operands \subseteq {1, 2}
         /\ \A s \in DOMAIN f.operands :
              /\ f.operands[s].bytes \in 1..2
              /\ Width(f, s) = f.operands[s].bytes
              /\ ~HighByteFirst(f.operands[s], f.endianness)
         /\ \A s \in {1, 2} : Width(f, s) \in 0..2
         /\ Width(f, 3) = 0
         /\ f.suffix = <<>>
<1>1. /\ f.operands \in Seq([kind : OperandKind, bytes : 1..2])
      /\ Len(f.operands) \in 0..2
      /\ f.suffix = <<>>
  BY RowsAreWellFormed, Zenon
<1>2. PICK n \in 0..2 : n = Len(f.operands)
  BY <1>1
<1>3. DOMAIN f.operands = 1..n
  BY <1>1, <1>2, LenProperties
<1>4. DOMAIN f.operands \subseteq {1, 2} /\ 3 \notin DOMAIN f.operands
  BY <1>3
<1>5. \A s \in DOMAIN f.operands : f.operands[s] \in [kind : OperandKind, bytes : 1..2]
  BY <1>1, <1>2, <1>3, ElementOfSeq
<1>6. \A s \in DOMAIN f.operands : f.operands[s].bytes \in 1..2
  BY <1>5
<1>7. \A s \in DOMAIN f.operands : ~HighByteFirst(f.operands[s], f.endianness)
  BY ModesFitOperands, Zenon
<1>8. \A s \in {1, 2} : Width(f, s) \in 0..2
  BY <1>6 DEF Width
<1> QED
  BY <1>1, <1>4, <1>6, <1>7, <1>8 DEF Width

\* Where the operands of a row start and how far they reach.
LEMMA SlotPlace ==
  ASSUME NEW c \in Cpus, NEW f \in Rows[c], NEW p \in Nat
  PROVE  \E q1, q2, q3 \in Nat :
           /\ q1 = p + Len(f.opcode) /\ q2 = q1 + Width(f, 1) /\ q3 = q2 + Width(f, 2)
           /\ p <= q1 /\ q1 <= q2 /\ q2 <= q3
           /\ q3 = p + FormLen(f)
           /\ p + Len(f.opcode) + Offset(f, 1) = q1
           /\ p + Len(f.opcode) + Offset(f, 2) = q2
<1>1. PICK k \in Nat, w1 \in 0..2, w2 \in 0..2 :
        k = Len(f.opcode) /\ w1 = Width(f, 1) /\ w2 = Width(f, 2)
  BY RowShape, SlotShape
<1>2. PICK q1 \in Nat, q2 \in Nat, q3 \in Nat :
        /\ q1 = p + k /\ q2 = q1 + w1 /\ q3 = q2 + w2
        /\ p <= q1 /\ q1 <= q2 /\ q2 <= q3
        /\ q3 = p + (k + (w1 + w2 + 0) + 0)
        /\ p + k + (0 + 0) = q1 /\ p + k + (w1 + 0) = q2
  OBVIOUS
<1>3. Width(f, 3) = 0 /\ Len(f.suffix) = 0
  BY SlotShape, EmptySeq
<1>4. FormLen(f) = k + (w1 + w2 + 0) + 0
  BY <1>1, <1>3, Zenon DEF FormLen, OperandLen
<1>5. Offset(f, 1) = 0 + 0 /\ Offset(f, 2) = w1 + 0
  BY <1>1 DEF Offset
<1> QED
  BY <1>1, <1>2, <1>4, <1>5, Zenon

\* The value read from slot s is one the slot holds, and lays down the bytes it
\* was read from.
LEMMA SlotRead ==
  ASSUME NEW k \in Cpus, NEW f \in Rows[k],
         NEW c \in Seq(Byte), NEW p \in Nat, NEW s \in DOMAIN f.operands,
         NEW q \in Nat, q = p + Len(f.opcode) + Offset(f, s),
         NEW r \in Nat, r = q + Width(f, s), r <= Len(c),
         NEW v, v = OperandValue(f, c, p, s)
  PROVE  /\ v \in Int /\ Holds(f.operands[s], v)
         /\ f.operands[s].kind = "RelativePc" => AsI16(Wrap16(v)) = v
         /\ OperandBytes(f.operands[s], f.endianness, v) = Slice(c, q, r)
<1>1. PICK op : op = f.operands[s]
  OBVIOUS
<1>2. PICK n \in 1..2 : n = op.bytes /\ r = q + n
  BY <1>1, SlotShape
<1>3. ~HighByteFirst(op, f.endianness)
  BY <1>1, SlotShape
<1>4. CASE n = 1
  <2>1. r = q + 1 /\ q + 1 <= Len(c)
    BY <1>2, <1>4
  <2>2. PICK b \in Byte : b = c[q + 1] /\ Slice(c, q, r) = <<b>>
    BY <2>1, OneByte DEF Slice
  <2>3. v = IF op.kind # "RelativePc" THEN b ELSE AsI8(b)
    BY <1>1, <1>2, <1>4, <2>2 DEF OperandValue
  <2>4. LoByte(v) = b
    BY <2>3, ByteRoundTrip, SignedByteRoundTrip
  <2>5. /\ op.kind = "RelativePc" => v \in -128..127
        /\ op.kind # "RelativePc" => v \in Byte
    BY <2>3, SignedByteRoundTrip
  <2>6. v \in Int /\ (op.kind = "RelativePc" => AsI16(Wrap16(v)) = v)
    <3>1. CASE op.kind = "RelativePc"
      <4>1. v \in -128..127
        BY <2>5, <3>1
      <4> QED
        BY <4>1, ByteIsSignedWord
    <3>2. CASE op.kind # "RelativePc"
      <4>1. v = b
        BY <2>3, <3>2
      <4> QED
        BY <3>2, <4>1 DEF Byte
    <3> QED
      BY <3>1, <3>2
  <2>7. Holds(op, v)
    BY <1>2, <1>4, <2>5 DEF Holds
  <2>8. OperandBytes(op, f.endianness, v) = <<b>>
    BY <1>2, <1>4, <2>4 DEF OperandBytes
  <2> QED
    BY <1>1, <2>2, <2>6, <2>7, <2>8
<1>5. CASE n = 2
  <2>1. r = q + 2 /\ q + 2 <= Len(c) /\ op.bytes # 1
    BY <1>2, <1>5
  <2>2. PICK b1 \in Byte, b2 \in Byte :
          b1 = c[q + 1] /\ b2 = c[q + 2] /\ Slice(c, q, r) = <<b1, b2>>
    BY <2>1, TwoBytes DEF Slice
  <2>3. PICK u \in Word16 : u = WordOf(b1, b2)
    BY WordRoundTrip
  <2>4. v = IF op.kind # "RelativePc" THEN u ELSE AsI16(u)
    BY <1>1, <2>1, <2>2, <2>3 DEF OperandValue
  <2>5. LoByte(v) = b1 /\ HiByte(v) = b2 /\ v \in Int
        /\ (op.kind = "RelativePc" => AsI16(Wrap16(v)) = v)
    <3>1. CASE op.kind # "RelativePc"
      BY <2>3, <2>4, <3>1, WordRoundTrip, WordIsInt
    <3>2. CASE op.kind = "RelativePc"
      <4>1. v = AsI16(WordOf(b1, b2))
        BY <2>3, <2>4, <3>2
      <4> QED
        BY <4>1, SignedWordRoundTrip
    <3> QED
      BY <3>1, <3>2
  <2>6. Holds(op, v)
    BY <2>1, <2>3, <2>4, <2>5, Zenon DEF Holds
  <2>7. OperandBytes(op, f.endianness, v) = <<b1, b2>>
    BY <1>3, <2>1, <2>5 DEF OperandBytes
  <2> QED
    BY <1>1, <2>2, <2>5, <2>6, <2>7
<1> QED
  BY <1>4, <1>5

\* What a row's operand values lay down is the instruction they were read from.
LEMMA EncodesBack ==
  ASSUME NEW k \in Cpus, NEW f \in Rows[k],
         NEW c \in Seq(Byte), NEW p \in Nat, p + FormLen(f) <= Len(c),
         SubSeq(c, p + 1, p + Len(f.opcode)) = f.opcode,
         NEW values,
         \A s \in DOMAIN f.operands : values[s] = OperandValue(f, c, p, s)
  PROVE  /\ Encode(f, values) = SubSeq(c, p + 1, p + FormLen(f))
         /\ Fits(f, values)
<1>1. PICK q1, q2, q3 \in Nat :
        /\ q1 = p + Len(f.opcode) /\ q2 = q1 + Width(f, 1) /\ q3 = q2 + Width(f, 2)
        /\ p <= q1 /\ q1 <= q2 /\ q2 <= q3
        /\ q3 = p + FormLen(f)
        /\ p + Len(f.opcode) + Offset(f, 1) = q1
        /\ p + Len(f.opcode) + Offset(f, 2) = q2
  BY SlotPlace, ZenonT(60)
<1>2. PICK m \in Nat : m = Len(c)
  BY LenProperties
<1>3. q3 <= m /\ q2 <= m /\ q1 <= m /\ p <= q2
  BY <1>1, <1>2
<1>4. q1 <= Len(c) /\ q2 <= Len(c) /\ q3 <= Len(c)
  BY <1>2, <1>3
<1>5. DOMAIN f.operands \subseteq {1, 2} /\ f.suffix = <<>>
  BY SlotShape
<1>6. 1 \in DOMAIN f.operands =>
        /\ Holds(f.operands[1], values[1])
        /\ OperandBytes(f.operands[1], f.endianness, values[1]) = Slice(c, q1, q2)
  BY <1>1, <1>4, SlotRead
<1>7. 2 \in DOMAIN f.operands =>
        /\ Holds(f.operands[2], values[2])
        /\ OperandBytes(f.operands[2], f.endianness, values[2]) = Slice(c, q2, q3)
  BY <1>1, <1>4, SlotRead
<1>8. Fits(f, values)
  BY <1>5, <1>6, <1>7 DEF Fits
<1>9. Laid(f, values, 1) = Slice(c, q1, q2)
  <2>1. CASE 1 \in DOMAIN f.operands
    BY <1>6, <2>1 DEF Laid
  <2>2. CASE 1 \notin DOMAIN f.operands
    <3>1. q2 = q1
      BY <1>1, <2>2 DEF Width
    <3>2. SubSeq(c, q1 + 1, q1) = <<>>
      BY SubSeqEmpty
    <3> QED
      BY <2>2, <3>1, <3>2 DEF Laid, Slice
  <2> QED
    BY <2>1, <2>2
<1>10. Laid(f, values, 2) = Slice(c, q2, q3)
  <2>1. CASE 2 \in DOMAIN f.operands
    BY <1>7, <2>1 DEF Laid
  <2>2. CASE 2 \notin DOMAIN f.operands
    <3>1. q3 = q2
      BY <1>1, <2>2 DEF Width
    <3>2. SubSeq(c, q2 + 1, q2) = <<>>
      BY SubSeqEmpty
    <3> QED
      BY <2>2, <3>1, <3>2 DEF Laid, Slice
  <2> QED
    BY <2>1, <2>2
<1>11. Laid(f, values, 3) = <<>>
  BY <1>5 DEF Laid
<1>12. f.opcode = Slice(c, p, q1)
  BY <1>1 DEF Slice
<1>13. f.opcode \o Laid(f, values, 1) = Slice(c, p, q2)
  <2>1. Slice(c, p, q1) \o Slice(c, q1, q2) = Slice(c, p, q2)
    BY <1>1, <1>4, Adjacent, ZenonT(60)
  <2> QED
    BY <2>1, <1>9, <1>12, Zenon
<1>14. (f.opcode \o Laid(f, values, 1)) \o Laid(f, values, 2) = Slice(c, p, q3)
  <2>1. Slice(c, p, q2) \o Slice(c, q2, q3) = Slice(c, p, q3)
    BY <1>1, <1>3, <1>4, Adjacent, ZenonT(60)
  <2> QED
    BY <2>1, <1>10, <1>13, Zenon
<1>15. PICK bytes \in Seq(Byte) : bytes = Slice(c, p, q3)
  <2>1. SubSeq(c, p + 1, p + FormLen(f)) \in Seq(Byte)
    <3>1. PICK n \in Nat : n = FormLen(f)
      BY RowShape
    <3> QED
      BY <3>1, BytesCounted
  <2> QED
    BY <1>1, <2>1 DEF Slice
<1>16. bytes \o <<>> = bytes
  BY <1>15
<1>17. Encode(f, values) = Slice(c, p, q3)
  BY <1>5, <1>11, <1>14, <1>15, <1>16, Zenon DEF Encode
<1> QED
  BY <1>1, <1>8, <1>17, Zenon DEF Slice

\* A value read is a number, and a distance a signed word.
LEMMA ValueIsInt ==
  ASSUME NEW k \in Cpus, NEW f \in Rows[k],
         NEW c \in Seq(Byte), NEW p \in Nat, p + FormLen(f) <= Len(c),
         NEW s \in DOMAIN f.operands, NEW v, v = OperandValue(f, c, p, s)
  PROVE  /\ v \in Int /\ Holds(f.operands[s], v)
         /\ f.operands[s].kind = "RelativePc" => AsI16(Wrap16(v)) = v
<1>1. PICK q1, q2, q3 \in Nat :
        /\ q2 = q1 + Width(f, 1) /\ q3 = q2 + Width(f, 2)
        /\ q1 <= q2 /\ q2 <= q3
        /\ q3 = p + FormLen(f)
        /\ p + Len(f.opcode) + Offset(f, 1) = q1
        /\ p + Len(f.opcode) + Offset(f, 2) = q2
  BY SlotPlace, ZenonT(60)
<1>2. PICK m \in Nat : m = Len(c)
  BY LenProperties
<1>3. q3 <= Len(c) /\ q2 <= Len(c)
  BY <1>1, <1>2
<1>4. s = 1 \/ s = 2
  BY SlotShape
<1>5. CASE s = 1
  BY <1>1, <1>3, <1>5, SlotRead
<1>6. CASE s = 2
  BY <1>1, <1>3, <1>6, SlotRead
<1> QED
  BY <1>4, <1>5, <1>6

LEMMA BranchBaseIsInt ==
  ASSUME NEW k \in Cpus, NEW f \in Rows[k], NEW addr \in Word16
  PROVE  BranchBase(f, addr) \in Int
<1>1. PICK n \in Nat : n = IF f.name.mode = "relative16" THEN 2 ELSE FormLen(f)
  BY RowShape
<1>2. addr + n \in Int
  BY WordIsInt
<1>3. Wrap16(addr + n) \in Int
  BY <1>2, WrapIsWord
<1> QED
  BY <1>1, <1>3 DEF BranchBase

\* The assembler reads a row's numbers back from its text.
LEMMA NumbersParse ==
  ASSUME NEW k \in Cpus, NEW f \in Rows[k],
         NEW c \in Seq(Byte), NEW p \in Nat, p + FormLen(f) <= Len(c),
         NEW addr \in Word16, NEW text, text = Instruction(f, c, p, addr),
         NEW s \in DOMAIN f.operands
  PROVE  Parsed(f, text, addr)[s] = OperandValue(f, c, p, s)
<1>1. PICK v : v = OperandValue(f, c, p, s)
  OBVIOUS
<1>2. text.shown = Shown(f, c, p, addr)
  BY DEF Instruction
<1>3. CASE f.name.mode = "immediate,zeropage"
  <2>1. DOMAIN f.operands = {1, 2}
    BY <1>3, ModesFitOperands, Zenon
  <2>2. text.shown = <<OperandValue(f, c, p, 2), OperandValue(f, c, p, 1)>>
    BY <1>2, <1>3 DEF Shown
  <2>3. Parsed(f, text, addr) = <<text.shown[2], text.shown[1]>>
    BY <1>3 DEF Parsed
  <2>4. Parsed(f, text, addr) = <<OperandValue(f, c, p, 1), OperandValue(f, c, p, 2)>>
    BY <2>2, <2>3
  <2> QED
    BY <2>1, <2>4
<1>4. CASE f.name.mode = "special-page"
  <2>1. s = 1
    BY <1>4, ModesFitOperands DEF OneNumber
  <2>2. PICK u \in Int : u = OperandValue(f, c, p, 1)
    BY <2>1, ValueIsInt
  <2>3. PICK base \in Int : base = SpecialPage
    BY DEF SpecialPage
  <2>4. text.shown = <<base + u>>
    BY <1>2, <1>4, <2>2, <2>3 DEF Shown
  <2>5. Parsed(f, text, addr) = <<text.shown[1] - base>>
    BY <1>4, <2>3 DEF Parsed
  <2> QED
    BY <2>1, <2>2, <2>4, <2>5
<1>5. CASE f.name.mode # "immediate,zeropage" /\ f.name.mode # "special-page"
  <2>1. text.shown[s] = Number(f, c, p, addr, s)
    BY <1>2, <1>5 DEF Shown
  <2>2. Parsed(f, text, addr)[s] = ValueOf(f, f.operands[s], text.shown[s], addr)
    BY <1>5 DEF Parsed
  <2>3. CASE f.operands[s].kind = "RelativePc"
    <3>1. v \in Int /\ AsI16(Wrap16(v)) = v
      BY <1>1, <2>3, ValueIsInt
    <3>2. PICK b \in Int : b = BranchBase(f, addr)
      BY BranchBaseIsInt
    <3>3. AsI16(Wrap16(Wrap16(b + v) - b)) = v
      BY <3>1, OffsetOfWideTarget
    <3>4. text.shown[s] = Wrap16(b + v)
      BY <1>1, <2>1, <2>3, <3>2 DEF Number
    <3> QED
      BY <1>1, <2>2, <2>3, <3>2, <3>3, <3>4 DEF ValueOf
  <2>4. CASE f.operands[s].kind # "RelativePc"
    BY <2>1, <2>2, <2>4 DEF Number, ValueOf
  <2> QED
    BY <2>3, <2>4
<1> QED
  BY <1>3, <1>4, <1>5

------------------------------------------------------------------------------
(* The assembler *)

\* What is decoded is a form the assembler has, under its mnemonic.
LEMMA DecodedIsReadable ==
  ASSUME cpu \in Cpus, NEW c \in Seq(Byte), NEW p \in Nat, p < Len(c),
         NEW f \in decode_longest(c, p)
  PROVE  /\ f \in Rows[cpu] /\ f \in Readable[cpu]
         /\ p + FormLen(f) <= Len(c)
         /\ SubSeq(c, p + 1, p + Len(f.opcode)) = f.opcode
<1>1. f \in Starting(c, p)
  BY DEF decode_longest, Deciding
<1>2. /\ p + FormLen(f) <= Len(c)
      /\ \A g \in Starting(c, p) : FormLen(g) <= FormLen(f)
  BY DecodedIsLongest
<1>3. f \in Rows[cpu] /\ SubSeq(c, p + 1, p + Len(f.opcode)) = f.opcode
  BY <1>1, StartingRow
<1>4. c[p + 1] \in Byte
  BY ElementOfSeq
<1>5. f \in StartingWith[cpu][c[p + 1]] /\ Stands(f.opcode, c, p)
  BY <1>1 DEF Starting
<1>6. f.opcode[1] = c[p + 1]
  BY <1>4, <1>5 DEF StartingWith
<1>7. ASSUME NEW g \in StartingWith[cpu][f.opcode[1]], g.opcode = f.opcode
      PROVE  FormLen(g) <= FormLen(f)
  <2>1. g \in Starting(c, p)
    BY <1>5, <1>6, <1>7 DEF Starting
  <2> QED
    BY <1>2, <2>1
<1>8. f \in Readable[cpu]
  BY <1>3, <1>7 DEF Readable
<1> QED
  BY <1>2, <1>3, <1>8

LEMMA NamedRows ==
  ASSUME NEW c \in Cpus, NEW f \in Readable[c]
  PROVE  /\ f \in Named[c][f.name.mnemonic]
         /\ \A g \in Named[c][f.name.mnemonic] : g \in Readable[c] /\ g \in Rows[c]
<1>1. Named[c][f.name.mnemonic] = {g \in Readable[c] : g.name.mnemonic = f.name.mnemonic}
  BY DEF Named
<1>2. Readable[c] \subseteq Rows[c]
  BY DEF Readable
<1> QED
  BY <1>1, <1>2

\* Rows of one encoding lay down the same bytes for the same numbers.
LEMMA SameBytes ==
  ASSUME NEW f, NEW g, SameEncoding(f, g), NEW text, NEW addr
  PROVE  /\ Encode(g, Parsed(g, text, addr)) = Encode(f, Parsed(f, text, addr))
         /\ OperandLen(g) = OperandLen(f)
<1>1. /\ f.name.mode = g.name.mode /\ f.endianness = g.endianness
      /\ f.opcode = g.opcode /\ f.operands = g.operands /\ f.suffix = g.suffix
  BY DEF SameEncoding
<1>2. /\ Width(f, 1) = Width(g, 1) /\ Width(f, 2) = Width(g, 2)
      /\ Width(f, 3) = Width(g, 3)
  BY <1>1 DEF Width
<1>3. OperandLen(f) = OperandLen(g)
  BY <1>2, Zenon DEF OperandLen
<1>4. FormLen(f) = FormLen(g)
  BY <1>1, <1>3, Zenon DEF FormLen
<1>5. BranchBase(f, addr) = BranchBase(g, addr)
  BY <1>1, <1>4, Zenon DEF BranchBase
<1>6. \A op, number : ValueOf(f, op, number, addr) = ValueOf(g, op, number, addr)
  BY <1>5, Zenon DEF ValueOf
<1>7. Parsed(f, text, addr) = Parsed(g, text, addr)
  BY <1>1, <1>6, Zenon DEF Parsed
<1>8. \A values, s : Laid(f, values, s) = Laid(g, values, s)
  BY <1>1, Zenon DEF Laid
<1>9. \A values : Encode(f, values) = Encode(g, values)
  BY <1>1, <1>8, Zenon DEF Encode
<1> QED
  BY <1>3, <1>7, <1>9

\* A form with one operand has its width.
LEMMA OneNumberLen ==
  ASSUME NEW f, NEW n \in 1..2, OneNumber(f, n)
  PROVE  OperandLen(f) = n
<1>1. DOMAIN f.operands = {1} /\ f.operands[1].bytes = n
  BY DEF OneNumber
<1>2. Width(f, 1) = n /\ Width(f, 2) = 0 /\ Width(f, 3) = 0
  BY <1>1 DEF Width
<1> QED
  BY <1>2 DEF OperandLen

\* What its slot holds.
LEMMA ByteHeld ==
  ASSUME NEW f, OneNumber(f, 1), NEW v, Holds(f.operands[1], v)
  PROVE  v \in Byte
BY DEF OneNumber, Holds

LEMMA WordHeld ==
  ASSUME NEW f, OneNumber(f, 2), NEW v, Holds(f.operands[1], v)
  PROVE  v \in Word16
<1>1. f.operands[1].bytes = 2 /\ f.operands[1].kind # "RelativePc"
  BY Zenon DEF OneNumber
<1>2. 2 # 1
  OBVIOUS
<1> QED
  BY <1>1, <1>2, Zenon DEF Holds

LEMMA ByteIsSmall ==
  ASSUME NEW v \in Byte
  PROVE  v < 256
BY DEF Byte

\* A shorter form of the spelling is not what the assembler takes: the size is
\* pinned, the number does not fit, or the line is one of the M740's jumps.
LEMMA ShorterIsNotTaken ==
  ASSUME cpu \in Cpus, NEW f \in Rows[cpu], NEW g \in Rows[cpu], Shortens(cpu, g, f),
         NEW c \in Seq(Byte), NEW p \in Nat, p + FormLen(f) <= Len(c),
         NEW addr \in Word16, NEW line, line.text = Instruction(f, c, p, addr),
         ~Unpinned(line),
         line.text.force = 0 \/ OperandLen(g) = line.text.force,
         Fits(g, Parsed(g, line.text, addr))
  PROVE  FALSE
<1>1. /\ DOMAIN f.operands = {1} /\ f.operands[1].bytes = 2
      /\ f.operands[1].kind # "RelativePc"
      /\ f.name.mode # "immediate,zeropage" /\ f.name.mode # "special-page"
  BY DEF Shortens, OneNumber
<1>2. /\ DOMAIN g.operands = {1} /\ g.operands[1].bytes = 1
      /\ g.operands[1].kind # "RelativePc" /\ g.name.mode # "immediate,zeropage"
  BY DEF Shortens, OneNumber
<1>3. PICK v \in Int : v = OperandValue(f, c, p, 1) /\ v \in Word16
  <2>1. 1 \in DOMAIN f.operands
    BY <1>1
  <2>2. Holds(f.operands[1], OperandValue(f, c, p, 1)) /\ OperandValue(f, c, p, 1) \in Int
    BY <2>1, ValueIsInt
  <2>3. OperandValue(f, c, p, 1) \in Word16
    BY <2>2, WordHeld DEF Shortens
  <2> QED
    BY <2>2, <2>3
<1>4. PICK text : text = line.text
  OBVIOUS
<1>5. /\ text.kind = "instruction" /\ text.mnemonic = f.name.mnemonic
      /\ text.shape = Shape(f) /\ text.shown = Shown(f, c, p, addr)
      /\ text.force = IF f.operands = <<>> THEN 0 ELSE PinnedSize(f.name.mode, v)
  BY <1>3, <1>4 DEF Instruction
<1>6. text.shown[1] = v
  <2>1. Shown(f, c, p, addr)[1] = Number(f, c, p, addr, 1)
    BY <1>1 DEF Shown
  <2> QED
    BY <1>1, <1>3, <1>5, <2>1 DEF Number
<1>7. f.operands # <<>>
  <2>1. DOMAIN <<>> = {}
    OBVIOUS
  <2> QED
    BY <1>1, <2>1, Zenon
<1>8. Holds(g.operands[1], Parsed(g, text, addr)[1])
  BY <1>2, <1>4 DEF Fits
<1>9. CASE g.name.mode = "special-page"
  <2>1. cpu = "m740" /\ f.name.mnemonic = "JSR" /\ Shape(f) = "addr"
    BY <1>9 DEF Shortens
  <2>2. PICK base \in Int : base = SpecialPage
    BY DEF SpecialPage
  <2>3. Parsed(g, text, addr) = <<v - base>>
    BY <1>6, <1>9, <2>2 DEF Parsed
  <2>4. v - base \in Byte
    <3>1. PICK u : u = v - base
      OBVIOUS
    <3>2. Parsed(g, text, addr)[1] = u
      BY <2>3, <3>1
    <3> QED
      BY <1>8, <3>1, <3>2, ByteHeld DEF Shortens
  <2>5. v >= base
    BY <2>4 DEF Byte
  <2> QED
    BY <1>4, <1>5, <1>6, <2>1, <2>2, <2>5 DEF Unpinned
<1>10. CASE g.name.mode # "special-page"
  <2>1. Parsed(g, text, addr)[1] = v
    <3>1. Parsed(g, text, addr)[1] = ValueOf(g, g.operands[1], text.shown[1], addr)
      BY <1>2, <1>10 DEF Parsed
    <3> QED
      BY <1>2, <1>6, <3>1 DEF ValueOf
  <2>2. v < 256
    <3>1. v \in Byte
      BY <1>8, <2>1, ByteHeld DEF Shortens
    <3> QED
      BY <3>1, ByteIsSmall
  <2>3. CASE f.name.mode \in AbsoluteModes
    <3>1. text.force = 2
      BY <1>5, <1>7, <2>2, <2>3 DEF PinnedSize
    <3>2. OperandLen(g) = 1
      BY OneNumberLen DEF Shortens
    <3> QED
      BY <1>4, <3>1, <3>2
  <2>4. CASE f.name.mode \notin AbsoluteModes
    <3>1. cpu = "m740" /\ f.name.mnemonic = "JMP" /\ Shape(f) = "(addr)"
      BY <1>10, <2>4 DEF Shortens
    <3> QED
      BY <1>4, <1>5, <1>6, <2>2, <3>1 DEF Unpinned
  <2> QED
    BY <2>3, <2>4
<1> QED
  BY <1>9, <1>10

\* An instruction's line assembles to the bytes it was decoded from.
LEMMA InstructionAssembles ==
  ASSUME cpu \in Cpus, NEW c \in Seq(Byte), NEW p \in Nat, p < Len(c),
         NEW f \in decode_longest(c, p),
         NEW line, line.addr \in Word16, line.text = Instruction(f, c, p, line.addr)
  PROVE  Unpinned(line) \/ Unsettled(line) \/ Assembled(line) = {SubSeq(c, p + 1, p + FormLen(f))}
<1> SUFFICES ASSUME ~Unpinned(line), ~Unsettled(line)
             PROVE  Assembled(line) = {SubSeq(c, p + 1, p + FormLen(f))}
  OBVIOUS
<1>1. /\ f \in Rows[cpu] /\ f \in Readable[cpu]
      /\ p + FormLen(f) <= Len(c)
      /\ SubSeq(c, p + 1, p + Len(f.opcode)) = f.opcode
  BY DecodedIsReadable
<1>2. PICK text, addr : text = line.text /\ addr = line.addr
  OBVIOUS
<1>3. /\ text.kind = "instruction" /\ text.mnemonic = f.name.mnemonic
      /\ text.shape = Shape(f)
      /\ text.force = IF f.operands = <<>> THEN 0
                      ELSE PinnedSize(f.name.mode, OperandValue(f, c, p, 1))
  BY <1>2 DEF Instruction
<1>4. PICK bytes : bytes = SubSeq(c, p + 1, p + FormLen(f))
  OBVIOUS
<1>5. Encode(f, Parsed(f, text, addr)) = bytes /\ Fits(f, Parsed(f, text, addr))
  <2>1. \A s \in DOMAIN f.operands : Parsed(f, text, addr)[s] = OperandValue(f, c, p, s)
    BY <1>1, <1>2, NumbersParse
  <2> QED
    BY <1>1, <1>4, <2>1, EncodesBack
<1> DEFINE fitting ==
             {g \in Named[cpu][text.mnemonic] :
                /\ Shape(g) = text.shape
                /\ ~Disputed(cpu, g.name.mnemonic, Shape(g))
                /\ text.force = 0 \/ OperandLen(g) = text.force
                /\ Fits(g, Parsed(g, text, addr))}
<1>6. f \in fitting
  <2>1. text.force = 0 \/ OperandLen(f) = text.force
    <3>1. CASE f.name.mode \in AbsoluteModes
      <4>1. OperandLen(f) = 2
        BY <1>1, <3>1, ModesFitOperands, Zenon
      <4> QED
        BY <1>3, <4>1 DEF PinnedSize
    <3>2. CASE f.name.mode \notin AbsoluteModes
      BY <1>3, <3>2 DEF PinnedSize
    <3> QED
      BY <3>1, <3>2
  <2>2. ~Disputed(cpu, f.name.mnemonic, Shape(f))
    BY <1>2, <1>3 DEF Unsettled
  <2> QED
    BY <1>1, <1>3, <1>5, <2>1, <2>2, NamedRows
<1>7. ASSUME NEW g \in fitting
      PROVE  OperandLen(f) < OperandLen(g) \/ SameEncoding(f, g)
  <2>1. /\ g \in Named[cpu][f.name.mnemonic] /\ g \in Rows[cpu] /\ Shape(f) = Shape(g)
        /\ text.force = 0 \/ OperandLen(g) = text.force
        /\ Fits(g, Parsed(g, text, addr))
    BY <1>1, <1>3, NamedRows
  <2>2. ~Shortens(cpu, g, f)
    BY <1>1, <1>2, <2>1, ShorterIsNotTaken
  <2> QED
    BY <1>1, <2>1, <2>2, SpellingsTellForms
<1>8. \A g \in Rows[cpu] : OperandLen(g) \in Nat
  <2> TAKE g \in Rows[cpu]
  <2> QED
    BY SlotShape DEF OperandLen
<1>9. \A g \in fitting : g \in Rows[cpu]
  BY <1>1, <1>3, NamedRows
<1>10. \A g \in fitting : OperandLen(f) <= OperandLen(g)
  <2> SUFFICES ASSUME NEW g \in fitting PROVE OperandLen(f) <= OperandLen(g)
    OBVIOUS
  <2>1. OperandLen(f) \in Nat /\ OperandLen(g) \in Nat
    BY <1>1, <1>8, <1>9
  <2>2. CASE OperandLen(f) < OperandLen(g)
    BY <2>1, <2>2
  <2>3. CASE SameEncoding(f, g)
    BY <2>1, <2>3, SameBytes
  <2> QED
    BY <1>7, <2>2, <2>3
<1>11. \A g \in fitting : OperandLen(g) <= OperandLen(f) => Encode(g, Parsed(g, text, addr)) = bytes
  <2> SUFFICES ASSUME NEW g \in fitting, OperandLen(g) <= OperandLen(f)
               PROVE  Encode(g, Parsed(g, text, addr)) = bytes
    OBVIOUS
  <2>1. OperandLen(f) \in Nat /\ OperandLen(g) \in Nat
    BY <1>1, <1>8, <1>9
  <2>2. SameEncoding(f, g)
    BY <1>7, <2>1
  <2> QED
    BY <1>5, <2>2, SameBytes
<1> DEFINE chosen == {g \in fitting : \A h \in fitting : OperandLen(g) <= OperandLen(h)}
<1>12. Assembled(line) = {Encode(g, Parsed(g, text, addr)) : g \in chosen}
  BY <1>2, <1>3, Zenon DEF Assembled
<1>13. f \in chosen /\ \A g \in chosen : OperandLen(g) <= OperandLen(f) /\ g \in fitting
  BY <1>6, <1>10
<1> HIDE DEF chosen, fitting
<1>14. \A g \in chosen : Encode(g, Parsed(g, text, addr)) = bytes
  BY <1>11, <1>13
<1> QED
  BY <1>4, <1>12, <1>13, <1>14

LEMMA DatumAssembles ==
  ASSUME NEW c \in Seq(Byte), NEW p \in Nat, p < Len(c),
         NEW line, line.text = Datum(c, p)
  PROVE  Assembled(line) = {SubSeq(c, p + 1, p + 1)}
<1>1. p + 1 <= Len(c)
  BY LenProperties
<1>2. SubSeq(c, p + 1, p + 1) = <<c[p + 1]>>
  BY <1>1, OneByte
<1>3. line.text.kind = "data" /\ line.text.shown = <<c[p + 1]>>
  BY DEF Datum
<1> QED
  BY <1>2, <1>3 DEF Assembled

\* What RoundTrip says of a line.
ComesBack(line) == Unpinned(line) \/ Unsettled(line) \/ Assembled(line) = {line.bytes}

\* A step's line comes back.
LEMMA StepComesBack ==
  ASSUME TypeOK, EmitInstruction \/ EmitData
  PROVE  \E n, text : Pushes(n, text) /\ ComesBack(LineAt(n, text))
<1>1. cpu \in Cpus /\ code \in Seq(Byte) /\ pos \in Nat /\ Len(code) \in Nat
  BY LenProperties DEF TypeOK
<1>2. pos < Len(code)
  BY DEF EmitInstruction, EmitData
<1>3. Wrap16(origin + pos) \in Word16
  <2>1. origin + pos \in Int
    BY <1>1, WordIsInt DEF TypeOK
  <2> QED
    BY <2>1, WrapIsWord
<1>4. CASE EmitInstruction
  <2>1. PICK f \in decode_longest(code, pos) :
          Push(FormLen(f), Instruction(f, code, pos, Wrap16(origin + pos)))
    BY <1>4 DEF EmitInstruction
  <2>2. FormLen(f) \in Nat /\ FormLen(f) >= 1 /\ pos + FormLen(f) <= Len(code)
    BY <1>1, <1>2, DecodedIsLongest
  <2>3. PICK n, text :
          n = FormLen(f) /\ text = Instruction(f, code, pos, Wrap16(origin + pos))
    OBVIOUS
  <2>4. Pushes(n, text)
    BY <2>1, <2>2, <2>3, Zenon DEF Pushes
  <2>5. PICK line : line = LineAt(n, text)
    OBVIOUS
  <2>6. /\ line.addr = Wrap16(origin + pos) /\ line.text = text
        /\ line.bytes = SubSeq(code, pos + 1, pos + n)
    BY <2>5 DEF LineAt
  <2>7. line.addr \in Word16 /\ line.text = Instruction(f, code, pos, line.addr)
    BY <1>3, <2>3, <2>6
  <2>8. \/ Unpinned(line) \/ Unsettled(line)
        \/ Assembled(line) = {SubSeq(code, pos + 1, pos + FormLen(f))}
    BY <1>1, <1>2, <2>7, InstructionAssembles
  <2>9. ComesBack(line)
    BY <2>3, <2>6, <2>8, Zenon DEF ComesBack
  <2> QED
    BY <2>4, <2>5, <2>9
<1>5. CASE EmitData
  <2>1. PICK n, text : n = 1 /\ text = Datum(code, pos)
    OBVIOUS
  <2>2. Push(n, text)
    BY <1>5, <2>1 DEF EmitData
  <2>3. n \in Nat /\ n >= 1 /\ pos + n <= Len(code)
    BY <1>1, <1>2, <2>1
  <2>4. Pushes(n, text)
    BY <2>2, <2>3, Zenon DEF Pushes
  <2>5. PICK line : line = LineAt(n, text)
    OBVIOUS
  <2>6. line.text = Datum(code, pos) /\ line.bytes = SubSeq(code, pos + 1, pos + 1)
    BY <2>1, <2>5 DEF LineAt
  <2>7. Assembled(line) = {SubSeq(code, pos + 1, pos + 1)}
    BY <1>1, <1>2, <2>6, DatumAssembles
  <2>8. ComesBack(line)
    BY <2>6, <2>7, Zenon DEF ComesBack
  <2> QED
    BY <2>4, <2>5, <2>8
<1> QED
  BY <1>4, <1>5

\* "Round-trip is byte-exact" for each of ca65's CPUs: every line assembles to
\* the bytes it was listed for, and to nothing else, but the M740's two jumps and
\* the three kinds of M740 instruction that ca65 is said to encode otherwise.
THEOREM RoundTripHolds == Spec => []RoundTrip
<1>1. Init => RoundTrip
  BY DEF Init, RoundTrip
<1>2. TypeOK /\ RoundTrip /\ [Next]_vars => RoundTrip'
  <2> SUFFICES ASSUME TypeOK, RoundTrip, [Next]_vars PROVE RoundTrip'
    OBVIOUS
  <2>1. CASE EmitInstruction \/ EmitData
    <3>1. PICK n, text : Pushes(n, text) /\ ComesBack(LineAt(n, text))
      BY <2>1, StepComesBack
    <3>2. cpu' = cpu
      BY <3>1 DEF Pushes, Push
    <3>3. PICK m \in Nat :
            /\ m = Len(out) /\ DOMAIN out = 1..m
            /\ out' = [k \in 1..(m + 1) |-> out'[k]]
            /\ out'[m + 1] = LineAt(n, text)
            /\ \A k \in 1..m : out'[k] = out[k]
      BY <3>1, LinePushed
    <3>4. PICK line : line = LineAt(n, text)
      OBVIOUS
    <3>5. \A k \in 1..m : ComesBack(out[k])
      BY <3>3 DEF RoundTrip, ComesBack
    <3>6. ASSUME NEW k \in DOMAIN out' PROVE ComesBack(out'[k])
      <4>1. k \in 1..(m + 1)
        BY <3>3
      <4>2. k = m + 1 \/ k \in 1..m
        BY <4>1
      <4> QED
        BY <3>1, <3>3, <3>4, <3>5, <4>2
    <3>7. \A k \in DOMAIN out' :
            Unpinned(out'[k]) \/ Unsettled(out'[k]) \/ Assembled(out'[k]) = {out'[k].bytes}
      BY <3>6 DEF ComesBack
    <3> QED
      BY <3>2, <3>7, Zenon DEF RoundTrip, Unpinned, Unsettled, Assembled
  <2>2. CASE UNCHANGED vars
    <3>1. cpu' = cpu /\ out' = out
      BY <2>2 DEF vars
    <3> QED
      BY <3>1 DEF RoundTrip, Unpinned, Unsettled, Assembled
  <2> QED
    BY <2>1, <2>2 DEF Next, Return
<1> QED
  BY <1>1, <1>2, TypeCorrect, PTL DEF Spec

------------------------------------------------------------------------------
(* The sweep *)

\* A line without its text.
Piece(line) == [at |-> line.at, addr |-> line.addr, bytes |-> line.bytes]

LEMMA PiecesOfPush ==
  ASSUME TypeOK, NEW n, NEW text, Pushes(n, text)
  PROVE  Pieces' = Append(Pieces, Piece(LineAt(n, text)))
<1>1. PICK line : line = LineAt(n, text)
  OBVIOUS
<1>2. PICK m \in Nat :
        /\ m <= pos /\ m = Len(out) /\ DOMAIN out = 1..m
        /\ out' = [k \in 1..(m + 1) |-> out'[k]]
        /\ out'[m + 1] = LineAt(n, text)
        /\ \A k \in 1..m : out'[k] = out[k]
  BY LinePushed
<1>3. /\ DOMAIN out = 1..m /\ DOMAIN out' = 1..(m + 1)
      /\ out'[m + 1] = line
      /\ \A k \in 1..m : out'[k] = out[k]
  BY <1>1, <1>2
<1>4. PICK ps : ps = Pieces
  OBVIOUS
<1>5. PICK qs : qs = Pieces'
  OBVIOUS
<1>6. ps = [k \in 1..m |-> Piece(out[k])]
  BY <1>3, <1>4 DEF Pieces, Piece
<1>7. qs = [k \in 1..(m + 1) |-> Piece(out'[k])]
  BY <1>3, <1>5 DEF Pieces, Piece
<1>8. DEFINE T == {ps[k] : k \in 1..m} \cup {qs[k] : k \in 1..(m + 1)}
<1>9. ps \in Seq(T) /\ Len(ps) = m
  <2>1. ps \in [1..m -> T]
    BY <1>6
  <2> HIDE DEF T
  <2> QED
    BY <2>1, SeqDef, LenProperties
<1>10. qs \in Seq(T) /\ Len(qs) = m + 1
  <2>1. qs \in [1..(m + 1) -> T]
    BY <1>7
  <2> HIDE DEF T
  <2> QED
    BY <2>1, SeqDef, LenProperties
<1>11. Piece(line) = qs[m + 1] /\ qs[m + 1] \in T
  <2>1. m + 1 \in 1..(m + 1)
    OBVIOUS
  <2>2. qs[m + 1] = Piece(out'[m + 1])
    BY <1>7, <2>1
  <2>3. qs[m + 1] \in {qs[k] : k \in 1..(m + 1)}
    BY <2>1
  <2> QED
    BY <1>3, <2>2, <2>3
<1> HIDE DEF T
<1>12. PICK rs : rs = Append(ps, Piece(line))
  OBVIOUS
<1>13. /\ rs \in Seq(T) /\ Len(rs) = m + 1
       /\ rs[m + 1] = Piece(line)
       /\ \A k \in 1..m : rs[k] = ps[k]
  BY <1>9, <1>11, <1>12, AppendProperties, SMTT(30)
<1>14. \A k \in 1..(m + 1) : rs[k] = qs[k]
  <2> TAKE k \in 1..(m + 1)
  <2>1. CASE k = m + 1
    BY <1>11, <1>13, <2>1
  <2>2. CASE k \in 1..m
    BY <1>3, <1>6, <1>7, <1>13, <2>2
  <2> QED
    BY <2>1, <2>2
<1>15. rs = qs
  BY <1>10, <1>13, <1>14, SeqEqual
<1> QED
  BY <1>1, <1>4, <1>5, <1>12, <1>15

\* Every behaviour of each CPU's call is, its texts left out, a sweep: the bytes
\* are listed once, in order, whatever was decoded or cut off.
THEOREM SweepImplemented == Spec => Listing!Spec
<1>1. Init => Listing!Init
  <2> SUFFICES ASSUME Init PROVE Listing!Init
    OBVIOUS
  <2>1. code \in Seq(Byte) /\ origin \in Word16 /\ pos = 0 /\ out = <<>>
    BY CodesAreBytes, OriginsAreWords DEF Init
  <2>2. Pieces = <<>>
    BY <2>1 DEF Pieces
  <2> QED
    BY <2>1, <2>2 DEF Listing!Init
<1>2. TypeOK /\ [Next]_vars => [Listing!Next]_(Listing!vars)
  <2> SUFFICES ASSUME TypeOK, [Next]_vars PROVE [Listing!Next]_(Listing!vars)
    OBVIOUS
  <2>1. CASE EmitInstruction \/ EmitData
    <3>1. PICK n, text : Pushes(n, text)
      BY <2>1, StepPushes
    <3>2. /\ n \in Nat /\ n >= 1 /\ pos + n <= Len(code)
          /\ pos' = pos + n /\ UNCHANGED <<code, origin>>
      BY <3>1 DEF Pushes, Push
    <3>3. n \in 1..(Len(code) - pos)
      <4>1. PICK l \in Nat : l = Len(code)
        BY LenProperties DEF TypeOK
      <4> QED
        BY <3>2, <4>1 DEF TypeOK
    <3>4. Pieces' = Append(Pieces, Piece(LineAt(n, text)))
      BY <3>1, PiecesOfPush
    <3>5. Piece(LineAt(n, text)) = Listing!LineAt(pos, n)
      <4>1. pos \in Nat /\ origin \in Int
        BY WordIsInt DEF TypeOK
      <4>2. origin + pos \div 1 = origin + pos
        BY <4>1
      <4>3. Wrap16(origin + pos) = Listing!WrapAddress(origin + pos \div 1)
        BY <4>2 DEF Wrap16, Listing!WrapAddress
      <4> QED
        BY <4>3 DEF Piece, LineAt, Listing!LineAt
    <3>6. Listing!Emit
      BY <3>2, <3>3, <3>4, <3>5 DEF Listing!Emit
    <3> QED
      BY <3>6 DEF Listing!Next
  <2>2. CASE UNCHANGED vars
    <3>1. UNCHANGED <<code, origin, pos>> /\ Pieces' = Pieces
      BY <2>2 DEF vars, Pieces
    <3> QED
      BY <3>1 DEF Listing!vars
  <2> QED
    BY <2>1, <2>2 DEF Next, Return
<1> QED
  BY <1>1, <1>2, TypeCorrect, PTL DEF Spec, Listing!Spec

==============================================================================
