----------------------------- MODULE SweepProofs -----------------------------
(***************************************************************************)
(* The promise of Sweep proved for every buffer and every load address:    *)
(* the listing tiles what has been swept.                                  *)
(***************************************************************************)
EXTENDS Sweep, SequenceTheorems, TLAPS

\* Wrapping arithmetic stays within the address space.
LEMMA WrapIsAddress ==
  ASSUME NEW a \in Int
  PROVE  WrapAddress(a) \in Address
BY MemoryIsPositive DEF WrapAddress, Address

\* A piece of the buffer is a line: its bytes are bytes, as many as asked for.
LEMMA LineAtType ==
  ASSUME TypeOK, NEW n \in 1..(Len(code) - pos)
  PROVE  /\ LineAt(pos, n) \in Line
         /\ Len(LineAt(pos, n).bytes) = n
         /\ pos + n \in 0..Len(code)
<1>1. code \in Seq(Byte) /\ origin \in Address /\ pos \in Nat /\ Len(code) \in Nat
  BY CodesAreBytes, OriginsAreAddresses DEF TypeOK
<1>2. /\ SubSeq(code, pos + 1, pos + n) \in Seq(Byte)
      /\ Len(SubSeq(code, pos + 1, pos + n)) = n
  <2>1. pos + 1 \in 1..Len(code) + 1 /\ pos + n \in pos..Len(code)
    BY <1>1
  <2>2. \A k \in pos + 1 .. pos + n : code[k] \in Byte
    BY <1>1
  <2> QED
    BY <1>1, <2>1, <2>2, SubSeqProperties
<1>3. origin + pos \div Unit \in Int
  BY <1>1, UnitIsPositive DEF Address
<1>4. WrapAddress(origin + pos \div Unit) \in Address
  BY <1>3, WrapIsAddress
<1> QED
  BY <1>1, <1>2, <1>4 DEF LineAt, Line

\* Every state has the types the code gives its variables.
THEOREM TypeCorrect == Spec => []TypeOK
<1>1. Init => TypeOK
  BY CodesAreBytes DEF Init, TypeOK, Line
<1>2. TypeOK /\ [Next]_vars => TypeOK'
  <2> SUFFICES ASSUME TypeOK, [Next]_vars PROVE TypeOK'
    OBVIOUS
  <2>1. CASE Emit
    <3>1. PICK n \in 1..(Len(code) - pos) :
            out' = Append(out, LineAt(pos, n)) /\ pos' = pos + n
      BY <2>1 DEF Emit
    <3>2. out' \in Seq(Line)
      BY <3>1, LineAtType, AppendProperties DEF TypeOK
    <3> QED
      BY <2>1, <3>1, <3>2, LineAtType DEF TypeOK, Emit
  <2>2. CASE UNCHANGED vars
    BY <2>2 DEF TypeOK, vars
  <2> QED
    BY <2>1, <2>2 DEF Next, Return
<1> QED
  BY <1>1, <1>2, PTL DEF Spec

\* The listing tiles the part of the buffer that has been swept.
THEOREM Tiled == Spec => []Tiling
<1>1. Init => Tiling
  BY DEF Init, Tiling
<1>2. TypeOK /\ Tiling /\ [Next]_vars => Tiling'
  <2> SUFFICES ASSUME TypeOK, Tiling, [Next]_vars PROVE Tiling'
    OBVIOUS
  <2>1. CASE Emit
    <3>1. PICK n \in 1..(Len(code) - pos) :
            out' = Append(out, LineAt(pos, n)) /\ pos' = pos + n
      BY <2>1 DEF Emit
    <3>2. UNCHANGED <<code, origin>>
      BY <2>1 DEF Emit
    <3>0. PICK m \in Nat : m = Len(out)
      BY DEF TypeOK
    <3>3. /\ Len(out) = m
          /\ Len(out') = m + 1
          /\ out'[m + 1] = LineAt(pos, n)
          /\ \A k \in 1..m : out'[k] = out[k]
      BY <3>0, <3>1, LineAtType, AppendProperties DEF TypeOK
    <3>4. pos \in Nat /\ n \in Nat /\ n > 0 /\ pos' = pos + n
      BY <3>1 DEF TypeOK
    <3>5. \A k \in 1..m : After(k)' = After(k)
      <4> TAKE k \in 1..m
      <4>1. CASE k = m
        BY <4>1, <3>3 DEF After, LineAt
      <4>2. CASE k # m
        BY <4>2, <3>3 DEF After
      <4> QED
        BY <4>1, <4>2
    <3>6. After(m + 1)' = pos + n
      BY <3>3, <3>4 DEF After
    <3>7. ASSUME NEW k \in 1..m
          PROVE  /\ out'[k].at < After(k)'
                 /\ After(k)' <= pos'
                 /\ out'[k].addr = WrapAddress(origin' + out'[k].at \div Unit)
                 /\ out'[k].bytes = SubSeq(code', out'[k].at + 1, After(k)')
      <4>1. /\ out[k].at < After(k)
            /\ After(k) <= pos
            /\ out[k].addr = WrapAddress(origin + out[k].at \div Unit)
            /\ out[k].bytes = SubSeq(code, out[k].at + 1, After(k))
        BY <3>3 DEF Tiling
      <4>2. out \in Seq(Line) /\ (k + 1 \in 1..m \/ k = m)
        BY <3>3 DEF TypeOK
      <4>3. After(k) \in Nat
        <5>1. CASE k = m
          BY <5>1, <3>3, <3>4 DEF After
        <5>2. CASE k # m
          <6>1. out[k + 1] \in Line
            BY <5>2, <4>2, <3>3, ElementOfSeq
          <6> QED
            BY <6>1, <5>2, <3>3 DEF After, Line
        <5> QED
          BY <5>1, <5>2
      <4> QED
        BY <3>2, <3>3, <3>4, <3>5, <4>1, <4>3, SMTT(30)
    <3>8. /\ out'[m + 1].at < After(m + 1)'
          /\ After(m + 1)' <= pos'
          /\ out'[m + 1].addr = WrapAddress(origin' + out'[m + 1].at \div Unit)
          /\ out'[m + 1].bytes = SubSeq(code', out'[m + 1].at + 1, After(m + 1)')
      <4>1. /\ out'[m + 1].at = pos
            /\ out'[m + 1].addr = WrapAddress(origin + pos \div Unit)
            /\ out'[m + 1].bytes = SubSeq(code, pos + 1, pos + n)
        <5>1. out'[m + 1] = LineAt(pos, n)
          BY <3>3
        <5>2. /\ LineAt(pos, n).at = pos
              /\ LineAt(pos, n).addr = WrapAddress(origin + pos \div Unit)
              /\ LineAt(pos, n).bytes = SubSeq(code, pos + 1, pos + n)
          BY DEF LineAt
        <5> QED
          BY <5>1, <5>2
      <4> QED
        BY <4>1, <3>2, <3>4, <3>6
    <3>9. (IF out' = <<>> THEN pos' ELSE out'[1].at) = 0
      <4>1. out' # <<>>
        BY <3>3
      <4>2. CASE m = 0
        <5>1. out = <<>>
          BY <4>2, <3>3, EmptySeq DEF TypeOK
        <5> QED
          BY <4>1, <4>2, <5>1, <3>3 DEF Tiling, LineAt
      <4>3. CASE m # 0
        <5>1. out # <<>> /\ 1 \in 1..m
          BY <4>3, <3>3
        <5> QED
          BY <4>1, <5>1, <3>3 DEF Tiling
      <4> QED
        BY <4>2, <4>3
    <3>10. \A k \in 1..Len(out') : k \in 1..m \/ k = m + 1
      BY <3>3
    <3> QED
      BY <3>7, <3>8, <3>9, <3>10 DEF Tiling
  <2>2. CASE UNCHANGED vars
    BY <2>2 DEF Tiling, After, vars
  <2> QED
    BY <2>1, <2>2 DEF Next, Return
<1> QED
  BY <1>1, <1>2, TypeCorrect, PTL DEF Spec

==============================================================================
