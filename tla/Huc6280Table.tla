----------------------------- MODULE Huc6280Table -----------------------------
(***************************************************************************)
(* isa/src/huc6280.rs: what the PC Engine's CPU adds to the 6502.  Much of *)
(* it is what the 65C02 and Rockwell's parts have.  As in ca65, an address *)
(* below 256 is a zero-page one unless it is forced.                       *)
(***************************************************************************)
EXTENDS ByteRows

Ca65 == INSTANCE Ca65Tables

\* How the operands of each mode lie and are shown.
SlotsOf(mode) ==
  CASE mode \in {"implied", "accumulator"} -> <<>>
    [] mode = "immediate" -> <<"byte">>
    [] mode = "relative" -> <<"rel">>
    [] mode \in {"zeropage", "zeropage,x", "zeropage,y"} -> <<"zp">>
    [] mode \in {"absolute", "absolute,x", "absolute,y"} -> <<"abs">>
    [] mode \in {"(indirect)", "(indirect,x)", "(indirect),y"} -> <<"byte">>
    [] mode \in {"indirect", "(absolute,x)"} -> <<"word">>
    [] mode = "zeropage,relative" -> <<"byte", "rel">>
    [] mode \in {"immediate,zeropage", "immediate,zeropage,x"} -> <<"byte", "zp">>
    [] mode \in {"immediate,absolute", "immediate,absolute,x"} -> <<"byte", "abs">>
    [] mode = "block" -> <<"word", "word", "word">>

\* render_huc6280: a zero-page and an absolute address are written alike.
Syntax(mode) ==
  CASE mode \in {"zeropage", "absolute", "relative"} -> "address"
    [] mode \in {"zeropage,x", "absolute,x"} -> "address,x"
    [] mode \in {"zeropage,y", "absolute,y"} -> "address,y"
    [] mode \in {"immediate,zeropage", "immediate,absolute"} -> "immediate,address"
    [] mode \in {"immediate,zeropage,x", "immediate,absolute,x"} -> "immediate,address,x"
    [] OTHER -> mode

Huc6280Row(mnemonic, mode, opcode) == Row(<<mnemonic, Syntax(mode)>>, opcode, SlotsOf(mode))

\* A mode's mnemonics, with their opcodes.
In(mode, opcodes) == {Huc6280Row(m, mode, <<opcodes[m]>>) : m \in DOMAIN opcodes}

Printed(forms) == {Huc6280Row(f.mnemonic, f.mode, f.opcode) : f \in forms}

OwnInstructions ==
  In("implied", [SAX |-> \h22, SAY |-> \h42, SXY |-> \h02, CLA |-> \h62, CLX |-> \h82, CLY |-> \hC2,
                 CSL |-> \h54, CSH |-> \hD4, SET |-> \hF4])
    \cup In("immediate", [ST0 |-> \h03, ST1 |-> \h13, ST2 |-> \h23, TAM |-> \h53, TMA |-> \h43])
    \cup In("immediate,zeropage", [TST |-> \h83]) \cup In("immediate,absolute", [TST |-> \h93])
    \cup In("immediate,zeropage,x", [TST |-> \hA3]) \cup In("immediate,absolute,x", [TST |-> \hB3])
    \cup In("relative", [BSR |-> \h44])
    \cup In("block", [TII |-> \h73, TDD |-> \hC3, TIN |-> \hD3, TIA |-> \hE3, TAI |-> \hF3])

Extension == OwnInstructions \cup Printed(Ca65!CMOS_SET) \cup Printed(Ca65!ROCKWELL_ADDITIONS)

\* decode_huc6280 looks through the extension first.
Rows == Extension \cup {[row EXCEPT !.rank = 1] : row \in Printed(Ca65!SET)}

==============================================================================
