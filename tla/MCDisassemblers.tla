--------------------------- MODULE MCDisassemblers ---------------------------
(***************************************************************************)
(* The sweeps of fifteen CPUs over their whole tables.                    *)
(***************************************************************************)
EXTENDS Disassemblers, TLC

Truncations(codes) == UNION {{SubSeq(c, 1, n) : n \in 1..Len(c)} : c \in codes}

(***************************************************************************)
(* 6809: every first byte, alone and behind each prefix, before operands   *)
(* at the ends of the ranges; every postbyte, before offsets at the edges  *)
(* of five, eight and sixteen bits.                                        *)
(***************************************************************************)
Prefixes == {<<>>, <<\h10>>, <<\h11>>}

Opcodes6809 ==
  {prefix \o <<b, x, y, \h12>> : prefix \in Prefixes, b \in Byte, x \in {\h00, \h89}, y \in {\h00, \hFE}}

Offsets == {<<\h00, \h0F>>, <<\hFF, \hF0>>, <<\h10, \h00>>, <<\hEF, \h00>>, <<\h00, \h7F>>, <<\h00, \h80>>}

Postbytes6809 ==
  {<<\hA6, b>> \o o : b \in Byte, o \in Offsets} \cup {<<\h10, \hAE, b, \h12, \h34>> : b \in Byte}
    \cup {<<op, b>> : op \in {\h1E, \h34, \h35, \h36, \hA6}, b \in Byte}

Codes6809 ==
  Mos6809!Exemplars \cup Opcodes6809 \cup Postbytes6809
    \cup Truncations({<<\h10, \hAE, \h89, \h12, \h34>>, <<\hA6, \hF9, \h00>>, <<\h86>>})

(***************************************************************************)
(* PDP-11: every pattern of the top ten bits with the modes of the         *)
(* program counter and of one register.                                    *)
(***************************************************************************)
WordsPdp11 ==
  {64 * top + 8 * mode + reg : top \in 0..1023, mode \in {0, 2, 3, 6}, reg \in {1, 7}}
    \cup 0..255 \cup {\h0D3F, \h7E7F}

Behind == <<\hFE, \hFF, \h34, \h12>>

CodesPdp11 ==
  Pdp11!Exemplars \cup {LittleBytes(w) \o Behind : w \in WordsPdp11}
    \cup Truncations({LittleBytes(\h1DFF) \o Behind, LittleBytes(\h0C00)})

WordsTms9900 ==
  {64 * top + 16 * t + reg : top \in 0..1023, t \in 0..3, reg \in {0, 1, 15}}

CodesTms9900 ==
  Tms9900!Exemplars \cup {BigBytes(w) \o Behind : w \in WordsTms9900}
    \cup Truncations({BigBytes(\hC820) \o Behind, BigBytes(\h0200) \o Behind})

(***************************************************************************)
(* The CPUs with fixed opcodes: every first byte, and every second one of  *)
(* the SM83's page, before operands at the ends of the ranges.             *)
(***************************************************************************)
Tails(c) ==
  {<<\h00, \h01>>, <<\h7F, \hFE>>, <<\h80, \h00>>, <<\hFF, \h00>>}
    \cup (IF c = "s2650" THEN {<<b, \h34>> : b \in {\h20, \h3F, \h40, \h60, \hA0, \hBF, \hC0, \hE0}} ELSE {})

ByteCodes ==
  [c \in Bytes!CPUS |->
     Bytes!Exemplars[c] \cup {<<b>> \o t : b \in Byte, t \in Tails(c)}
       \cup {<<b>> : b \in Byte} \cup {<<b, \h12>> : b \in Byte}
       \cup (IF c = "sm83" THEN {<<\hCB, b>> : b \in Byte} ELSE {})
       \cup (IF c = "huc6280" THEN Truncations({<<\h73, \h00, \h40, \h00, \h60, \h00, \h01>>}) ELSE {})]

(***************************************************************************)
(* Z8000: every first byte before the registers 0 (which is another mode), *)
(* 1 (no pair), 2 (no quadruple) and 4 and every low nibble; second words  *)
(* of every shape where an instruction has one.                            *)
(***************************************************************************)
WordsZ8000 ==
  {256 * top + 16 * reg + low : top \in 0..\hBF, reg \in {0, 1, 2, 4}, low \in 0..15}
    \cup {256 * top + b : top \in \hC0..\hFF, b \in {\h00, \h01, \h7F, \h80, \hFE, \hFF}}

Blocks ==
  {256 * top + b : top \in {\hB8, \hBA, \hBB, \h3A, \h3B}, b \in 32..47}
    \cup {\hBB01, \hBB11, \hB812, \h3B02, \h3A10}

SecondWords == {\h0240 + k : k \in 0..15} \cup {\h0200, \h0210, \h1240, \h0218, \h0208}

Shifts == {256 * top + 32 + k : top \in {\hB2, \hB3}, k \in {1, 5, 9, 13}} \cup {\hB315}

Edges ==
  UNION {{n, Wrap16(-n), LoByte(-n), n + 256} : n \in {0, 1, 8, 9, 16, 17, 32, 33}}

\* Bits by register, byte and long immediates, relative loads.
Pairs ==
  {<<\h27, \h05, \h0F, \h00>>, <<\h26, \h05, \h08, \h00>>, <<\h27, \h05, \h18, \h00>>, <<\h27, \h05, \h08, \h01>>,
   <<\h20, \h01, \h05, \h05>>, <<\h20, \h01, \h05, \h06>>, <<\h00, \h01, \hFF, \hFF>>,
   <<\h14, \h02, \h80, \h00, \hFF, \hFF>>, <<\h35, \h03, \hFF, \hFC>>, <<\h37, \h02, \h80, \h00>>}

\* The same for both CPUs; the third has a segment no address has.
CommonZ8000 ==
  {BigBytes(w) \o BigBytes(v) : w \in Blocks, v \in SecondWords}
    \cup {BigBytes(w) \o BigBytes(v) : w \in Shifts, v \in Edges}
    \cup {BigBytes(w) \o <<\h85, \h01>> \o BigBytes(1) : w \in {\h4D08, \h6101, \h7910}}
    \cup Truncations(Pairs)

CodesZ8001 ==
  Z8000!Exemplars[TRUE] \cup CommonZ8000 \cup {BigBytes(w) \o <<\h85, \h00, \h12, \h34>> : w \in WordsZ8000}
    \cup Truncations({e \in Z8000!Exemplars[TRUE] : e[1] \in {\h54, \h14, \h7A, \hBB, \h3B, \hB3, \h5E}})

CodesZ8002 ==
  Z8000!Exemplars[FALSE] \cup CommonZ8000 \cup {BigBytes(w) \o <<\h12, \h34>> : w \in WordsZ8000}
    \cup Truncations({e \in Z8000!Exemplars[FALSE] : e[1] \in {\h54, \h14, \h7A, \hBB, \h3B, \hB3, \h5E}})

MCCodes ==
  ("z8001" :> CodesZ8001) @@ ("z8002" :> CodesZ8002)
    @@ ("6809" :> Codes6809) @@ ("pdp11" :> CodesPdp11) @@ ("tms9900" :> CodesTms9900) @@ ByteCodes

\* An example of every row and mode of the Z8002, and nothing else.
ExemplarsZ8000 == "z8002" :> Z8000!Exemplars[FALSE]

\* Lines and operands wrap past the top of memory.
MCOrigins == {\hFFFE}

==============================================================================
