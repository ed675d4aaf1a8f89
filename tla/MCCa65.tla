------------------------------- MODULE MCCa65 --------------------------------
(***************************************************************************)
(* disassemble_ca65 for each CPU, with its instruction sets paired the way *)
(* the repository's own tests pair them (isa-disasm/src/lib.rs:4458-4477). *)
(***************************************************************************)
EXTENDS DisasmCa65, Ca65Tables, SequencesExt

MCCpus ==
  {"6502x", "6502dtv", "65sc02", "65c02", "w65c02", "65ce02", "4510", "45gs02", "m740", "sweet16"}

\* The set that goes before the 6502's own.
Extension(c) ==
  CASE c = "6502x" -> UNDOCUMENTED_SET [] c = "6502dtv" -> C64DTV2_CA65_SET
    [] c = "65sc02" -> CMOS_SET [] c = "65c02" -> ROCKWELL_SET [] c = "w65c02" -> WDC_SET
    [] c = "65ce02" -> CSG65CE02_SET [] c = "4510" -> CSG4502_SET
    [] c = "45gs02" -> MEGA45GS02_SET [] c = "m740" -> M740_SET [] c = "sweet16" -> SWEET16_SET

MCRows ==
  [c \in MCCpus |-> Spelled(0, c \in {"6502x", "6502dtv"}, Extension(c))
                      \cup Spelled(1, FALSE, IF c = "sweet16" THEN {} ELSE SET)]

\* Every opcode byte before operands small, negative and in the special page,
\* and the same cut short.
EveryOpcode ==
  {<<b>> : b \in Byte} \cup {<<b, \h80>> : b \in Byte}
    \cup {<<b, x, y>> : b \in Byte, x \in {\h12, \hFE}, y \in {0, \hFF}}

\* The prefixes of the 45GS02 in every order, complete and cut short, before
\* an opcode that either prefix changes and one only the first does.
Prefixed == BoundedSeq({\h42, \hEA, \hB2, \h05, \h0D}, 5)

\* Every opcode byte behind each prefix.
Behind == {p \o <<b, \h12, \h34>> : p \in {<<\h42, \h42>>, <<\hEA>>, <<\h42, \h42, \hEA>>}, b \in Byte}

\* Opcodes of every length, among them branches and an opcode of two rows.
Mixed == BoundedSeq({\h0C, \h0F, \h3C, \h80, \h83}, 4)

MCCodes ==
  [c \in MCCpus |->
     EveryOpcode \cup Mixed \cup (IF c = "45gs02" THEN Prefixed \cup Behind ELSE {})]

MCOrigins == {\h1000, \hFFFE}

==============================================================================
