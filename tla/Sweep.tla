-------------------------------- MODULE Sweep --------------------------------
(***************************************************************************)
(* What every `disassemble_*` function promises, whatever the CPU: a       *)
(* linear sweep over a flat buffer that cuts it into consecutive,          *)
(* non-empty pieces, lists each piece once, in order, with the address it  *)
(* loads at and the bytes it stands for, and ends at the end of the        *)
(* buffer.  How a piece's length and text are found is left open; the      *)
(* disassemblers of this development implement this module.                *)
(***************************************************************************)
EXTENDS Words, Sequences

CONSTANTS
  Codes,      \* the buffers the function is called with
  Origins,    \* the load addresses it is called with
  Unit,       \* how many bytes one address stands for: 2 on a word-addressed CPU
  Memory      \* how many addresses there are before they wrap

ASSUME CodesAreBytes == Codes \subseteq Seq(Byte)
ASSUME UnitIsPositive == Unit \in Nat \ {0}
ASSUME MemoryIsPositive == Memory \in Nat \ {0}

Address == 0..(Memory - 1)

ASSUME OriginsAreAddresses == Origins \subseteq Address

\* wrapping_add on an address.
WrapAddress(a) == a % Memory

VARIABLES
  code,       \* the buffer of this call
  origin,     \* the load address of this call
  pos,        \* the cursor of the sweep
  out         \* the lines pushed so far

vars == <<code, origin, pos, out>>

(***************************************************************************)
(* A line of the listing.  `at` is the buffer offset the line was pushed   *)
(* at: the code keeps only the wrapped address, the offset tells apart two *)
(* lines whose addresses coincide.                                         *)
(***************************************************************************)
Line == [at : Nat, addr : Address, bytes : Seq(Byte)]

\* Mutant: the address is the offset, the load address is forgotten.
LineAtOffset(p, n) ==
  [at |-> p, addr |-> WrapAddress(p \div Unit), bytes |-> SubSeq(code, p + 1, p + n)]

LineAt(p, n) ==
  [at    |-> p,
   addr  |-> WrapAddress(origin + p \div Unit),
   bytes |-> SubSeq(code, p + 1, p + n)]

Init ==
  /\ code \in Codes
  /\ origin \in Origins
  /\ pos = 0
  /\ out = <<>>

\* Mutant: the loop gives up before the last byte.
EmitShort ==
  /\ \E n \in 1..(Len(code) - pos - 1) :
       /\ out' = Append(out, LineAt(pos, n))
       /\ pos' = pos + n
  /\ UNCHANGED <<code, origin>>

\* One iteration of the loop: a piece of at least one byte that is there.
Emit ==
  /\ \E n \in 1..(Len(code) - pos) :
       /\ out' = Append(out, LineAt(pos, n))
       /\ pos' = pos + n
  /\ UNCHANGED <<code, origin>>

\* The call has returned; nothing happens any more.
Return ==
  /\ pos = Len(code)
  /\ UNCHANGED vars

Next == Emit \/ Return

Spec == Init /\ [][Next]_vars

FairSpec == Spec /\ WF_vars(Next)

------------------------------------------------------------------------------
TypeOK ==
  /\ code \in Codes
  /\ origin \in Origins
  /\ pos \in 0..Len(code)
  /\ out \in Seq(Line)

\* Where the piece after line k starts.
After(k) == IF k = Len(out) THEN pos ELSE out[k + 1].at

(***************************************************************************)
(* The lines tile the part of the buffer already swept: the first starts   *)
(* at offset 0, each ends where the next one starts, the last ends at the  *)
(* cursor, none is empty, and each carries exactly the bytes between its   *)
(* two ends and the address of its first one.                              *)
(***************************************************************************)
Tiling ==
  /\ (IF out = <<>> THEN pos ELSE out[1].at) = 0
  /\ \A k \in 1..Len(out) :
       /\ out[k].at < After(k)
       /\ After(k) <= pos
       /\ out[k].addr = WrapAddress(origin + out[k].at \div Unit)
       /\ out[k].bytes = SubSeq(code, out[k].at + 1, After(k))

\* The sweep ends, with the whole buffer listed.
Termination == <>(pos = Len(code))

==============================================================================
