# A TLA+ model of isa198x

isa198x holds instruction-set tables for some twenty-five processors of the
home-computer era (crate `isa`) and disassemblers that read those tables
backwards (crate `isa-disasm`). This directory models the disassemblers and the
tables they consult, checks them with TLC and proves the central ones with TLAPS.

The crates are pure functions over constant tables. There is no I/O, no thread,
no lock, no message and nothing persistent. What can go wrong is different, and
it is what this project is about: **a listing must assemble back to the bytes
it was made from**. That takes agreement between parties that never meet: the
table, the decoder that reads it backwards, the renderer that abbreviates, and
an assembler outside the repository that sees only the text. Several of the
sweeps keep state from one instruction to the next (immediate widths, a prefix
flag), and they work on arbitrary bytes, data included.

Contents: [inventory](#inventory) · [modules](#modules) · [runs](#what-each-run-checks) ·
[bounds](#bounds-and-why-they-are-enough) · [fairness](#fairness) ·
[the assemblers](#the-assemblers-external) · [proofs](#what-is-proved) ·
[findings](#findings) · [not modelled](#not-modelled) · [plan](#plan)

Paths below are relative to `src/crates/`; "dis" is `isa-disasm/src/lib.rs`.

## Inventory

| Component | State | Operations | What must hold |
|---|---|---|---|
| Form model, `isa/src/lib.rs` | none (constant tables) | `Form::len`, `Form::exemplar`, lookups by mnemonic | the declared length is what a decoder consumes; an exemplar decodes to its row |
| `decode_one`, `read_operands`, dis 99-169 | locals: the walk over opcode lengths, sets, rows | find the form at an offset, read its operands | the walk's order never decides; truncated forms are refused, complete ones at the very end are not |
| Z80 / Z80N, dis 48-228, `z80.rs` | `pos`, `out` of the sweep | `disassemble_z80` | round trip; two-byte opcode before one-byte, suffix of `DD CB d op` compared |
| 6502, dis 237-323, `mos6502.rs` | as above | `disassemble_6502`, `decode_one_6502(read)` | round trip under acme's hex-width rule; the debugger's entry point agrees with the listing |
| 65816, dis 1024-1197, `mos65816.rs` | as above, and the two immediate widths `a`, `i` | `disassemble_65816` | the tracked widths are the ones the directives tell the assembler |
| CP1610, dis 2729-2933, `cp1610.rs` | as above, and `after_sdbd` | `disassemble_cp1610`, `cp1610::decode` | the flag read one iteration later is what the assembler sees as the line above; word addressing |
| 68000, dis 336-761, `m68k.rs` | sweep; cursor over extension words | `disassemble_68000` | the most specific form wins; extension words consumed in the order of the bytes |
| 6809, dis 772-1010, `mos6809.rs`, `mos6809/timing.rs` | sweep | `disassemble_6809`, `decode_one_6809` | indexed postbytes: size forces, pc-relative targets; decoder and timing table agree on what follows a postbyte |
| ca65 CPUs, dis 3865-4054 (65C02, 65CE02, 45GS02, M740, C64 DTV2, NMOS undocumented, SWEET16) | sweep | `disassemble_ca65`, `decode_longest` | longest opcode first; a truncated longer opcode must hide only what it is meant to hide |
| Other byte tables (HuC6280, SM83, 8080, 6800, 1802, 8048, SC/MP, F8, 2650, TMS7000), dis 1208-2290 | sweep | one `disassemble_*` each | round trip; page-relative branches |
| PDP-11, TMS9900, dis 2370-2715 | sweep; operand cursor | one each | a pc-relative operand is measured from its own extension word |
| Z8000, dis 2956-3850, `z8000.rs` | sweep | chain of thirteen decoders | each decoder refuses what belongs to a later one |
| `machines.rs`, `provenance.rs` | none | tables with a linear lookup | nothing dynamic |
| `listing_*` | none | header and line joining | formatting only |

How they interact: a `disassemble_*` function owns the sweep (cursor and
listing); at each offset it calls a decoder, which walks rows of `isa` tables
and gives back a form, values and a length, or nothing; a renderer turns form
and values into text, using the address; on nothing, one unit is listed as data
and the sweep resynchronises behind it. `decode_one_6502` calls the whole
disassembler on three bytes fetched through a callback. Hard behaviours: order
of the walk, truncation at the end of the buffer, addresses that wrap past the
top of memory, signed offsets, state carried between iterations, one text that
two rows could claim. `PROJECT.json` lists each hazard at its line with the
properties that guard it.

## Modules

```
Words ── Sweep ── SweepProofs                      the abstract specification
  ├─ Forms ─┬─ ByteDisasm ─┬─ MCZ80   (Z80Table)
  │         │      │       └─ Disasm6502 ── MC6502 (Mos6502Table)
  │         │      └ ByteDisasmProofs (and Disasm6502)
  │         ├─ Disasm65816 ─┬─ MC65816 (Mos6502Table, Mos65816Table)
  │         │               └ Disasm65816Proofs
  │         └─ DisasmCa65 ─┬─ MCCa65 (Ca65Tables, Mos6502Table)
  │                        └ DisasmCa65Proofs
  ├─ Cp1610 ─┬─ MCCp1610
  │          └ Cp1610Proofs
  ├─ M68000 ── Disasm68000 ─┬─ MC68000
  │                         └ Disasm68000Proofs
  └─ Texts ─┬─ Disasm6809 (Mos6809Table) ───┐
            ├─ Pdp11, Tms9900 ──────────────┤
            ├─ Z8000 (Z8000Table) ──────────┼─ Disassemblers ─┬─ MCDisassemblers
            └─ ByteCpus (ByteRows, six      ┘                 └ DisassemblersProofs
               tables)
```

Every module with a sweep of its own implements `Sweep`.

- **Words**: bytes, 16-bit wrap, two's complement, bit tests.
- **Sweep**: what every disassembler promises. A buffer is cut into consecutive
  non-empty pieces, each listed once, in order, with its wrapped address and its
  bytes; the sweep ends at the end of the buffer. How a piece is found is left
  open. `Unit` is the number of bytes per address, `Memory` the number of addresses
  before they wrap. `out` is the code's `out`;
  `at`, the offset a line was pushed at, is kept beside the wrapped address so
  that lines whose addresses coincide stay apart.
- **Forms**: `isa::Form` as a record, its length, its exemplar, and what an
  assembler lays down for it.
- **ByteDisasm**: `decode_one`, `read_operands`, rendering and the sweep of
  `disassemble_z80`/`disassemble_6502`. `EmitInstruction` and `EmitData` are the
  two branches of one loop iteration, `Return` the end of the call. The order of
  the walk is kept where the code relies on it (opcode length, rank of the set);
  among rows of one set any order is allowed, and `Unambiguous` shows for the Z80
  that the order cannot matter, which is more than the code's own order would show;
  the 6502's table has one row per opcode byte, so there it has nothing to decide. A text is
  the row's name (mnemonic and mode template) and the numbers printed in it: the
  letters of a mode are never told apart, the numbers always are.
- **Z80Table** (826 rows), **Mos6502Table**, **Mos65816Table**: the tables,
  generated by the register fields where the source spells rows out one by one.
- **Disasm6502**: acme's syntax (one shape for several modes, width by digit
  count) and the callback entry point with its three-byte copy. `Fill` is the
  value of memory outside the modelled bytes.
- **Disasm65816**: the sweep with `a`, `i` and the directive lines, and ca65 as
  a fold over the listing that carries widths of its own.
- **Cp1610**: the sweep with `after_sdbd`, `decode_cp1610` by region (branch,
  memory, jump, table), `cp1610::decode`, and asl's reading of a line given the
  line above.
- **Ca65Tables**: the instruction sets that extend the 6502 or another of them:
  the 65C02 and its Rockwell and WDC extensions, 65CE02, 4510, 45GS02, M740, C64
  DTV2, the undocumented NMOS instructions, SWEET16.
- **DisasmCa65**: the one sweep that serves ten CPUs. `cpu` is the pair of sets
  the function is called with; `decode_longest` is the set of rows the walk may
  return (longest opcode, earlier set, most bytes), empty where the code gives
  `None`; `Instruction` is what `render_ca65` prints, as far as ca65 tells it
  apart.
- **M68000, Disasm68000**: the 68000's table (`m68k.rs`, rows by their fixed bits
  and operand kinds) and `disassemble_68000`. `Best` is `decode_m68k`'s choice of
  the most specific form; `ReadBefore` is the order in which operands consume
  extension words (MOVEM's mask first); `exemplars` is the table's own.
- **Texts**: what the text of a line tells apart, for the modules below: a name
  and operands, each a syntax and its numbers; a reading of the bytes at the
  cursor; words of both byte orders.
- **Disassemblers**: the loop that `disassemble_6809`, `disassemble_pdp11`,
  `disassemble_tms9900`, `disassemble_z8000_impl` and ten more share word for word.
  `cpu` says which of them is called. `EmitInstruction`, `EmitData` and `EmitByte`
  are the branches of an iteration (a word machine lists an odd last byte by
  itself), and the decoder is the operator `Readings` of the CPU's own module: the
  set of what the rows that match would give, each with the rank of its row in
  the order they are tried. `First` is what the code returns.
  - **Mos6809Table, Disasm6809**: indexed postbytes with their forces, stack and
    transfer postbytes, `indexed_cost` and `stack_effects` of the timing table.
    A transfer that names no register is a `Refusal`: it ends the search (dis 894).
  - **Pdp11, Tms9900**: tables, classes in the order `decode` tries them, and the
    operand cursor (`Extensions`).
  - **ByteRows, ByteCpus** and Huc6280Table, Sm83Table, S2650Table, Tms7000Table,
    IntelTables (8080, 8048), EarlyByteTables (1802, 6800, F8, SC/MP): ten
    CPUs whose opcodes are whole bytes. A row has an opcode, a name and slots; a
    mode's template is left out except for its slots, as the name already tells
    rows apart.
  - **Z8000Table, Z8000**: thirteen families, each row with the fixed bits of one
    or two words and the slots in them. `rank` is the place of the family's
    decoder in the chain of dis 2971-2984, `Legal` all that the decoders refuse,
    `Shown` what they print. `seg` is the segmented Z8001.
- **\*Proofs**: the theorems about the module of that name, and **WordLemmas**, the
  lemmas they share (bytes and words, pieces of sequences, the least number with a
  property).
- **MC\***: the buffers and load addresses of the runs.

Definitions whose comment begins "Mutant" are deliberate slips. Each property
of a passing run is violated when the definition below it is replaced by one.

## What each run checks

| Run | Checks | Shows |
|---|---|---|
| `sweep` | `Tiling`, `Termination` | every way of cutting a short buffer tiles it and ends |
| `z80_sweep` | `TypeOK`, `RoundTrip`, `Unambiguous`, `ExemplarsDecode`, `ImplementsSweep` | the Z80 and Z80N tables, both sets consulted |
| `m6502_sweep` | `RoundTrip`, `ExemplarsDecode`, `CallbackAgrees`, `ImplementsSweep` | the 6502; `decode_one_6502` gives text and length of the listing's first line |
| `w65816_sweep` | `TypeOK`, `RoundTrip816`, `WidthsAgree`, `WidthsFollowStatus`, `DirectivesAlternate`, `NoPanic`, `ImplementsSweep` | the widths tracked by the sweep, those the listing announces and those the last REP/SEP set are the same; `cands[0]` never panics |
| `w65816_data` (violation) | `DataOnlyAtTheEnd` | finding 1 |
| `cp1610_sweep` | `TypeOK`, `RoundTrip`, `OneClaimant`, `ImplementsSweep` | lines come back unless they use bits the instruction has no room for; no word is claimed by two classes |
| `cp1610_exact` (violation) | `ByteExact` | finding 2 |
| `ca65_sweep` | `TypeOK`, `RoundTrip`, `OneText`, `Longest`, `ImplementsSweep` | for each of the ten CPUs the longest opcode is found, truncation hides only the instruction that is cut off, two rows of one encoding read alike, and every line comes back but two kinds of M740 jump and three kinds of M740 instruction, below |
| `ca65_exact` (violation) | `ByteExact` | finding 3 |
| `m68k_sweep` | `TypeOK`, `RoundTrip`, `OneReading`, `ExemplarsDecode`, `ImplementsSweep` | every opcode word up to register numbers: where two forms match, they assemble to the same bytes; every line comes back but the four kinds below |
| `disassemblers` | `TypeOK`, `RoundTrip`, `OneReading`, `ExemplarsDecode`, `CallbackAgrees`, `TimingAgrees`, `ImplementsSweep` | fifteen CPUs over their whole tables: rows that share an opcode are of one length, and no two of the Z8000's thirteen decoders read the same bytes; every row's exemplar decodes; `decode_one_6809` gives the listing's lines; the 6809's timing table and decoder agree on every postbyte |
| `z8000_exact` (violation) | `ByteExact` | finding 4 |

`ImplementsSweep` is the refinement `INSTANCE Sweep WITH out <- Pieces`, with
fairness: each iteration consumes at least one byte that is there, lists exactly
what it consumed, and the sweep ends. `Deadlock` is checked everywhere: a
decoder that neither lists an instruction nor data would stop the model.

`RoundTrip` is one statement with named exceptions, and each is stated as
sharply as it can be. A line of the first kind leaves bits unsaid (`Unsaid`): it
need not come back, but whatever it assembles to has its length, so nothing behind
it moves.

- 68000: bits 8 to 10 of a brief extension word; the high byte of a byte-size
  immediate read through an effective address; an empty MOVEM list.
- 68000, saying too much rather than too little (`TooWide`): a CCR immediate or the
  number of a static bit operation with a non-zero high byte. The first is "byte, low half of
  the word" (`m68k.rs` 534), the second belongs to a form of size B, and such words are
  "not an encoding the reference tool emits" (dis 501-505), but `decode_m68k` looks
  for them in `ImmSized` slots only and prints the whole word from an `ImmWord` slot.
- 6809: the register bits of a pc-relative postbyte (the comment at dis 908-910
  says otherwise) and an empty push or pull list.
- 2650: a memory reference is shown with fifteen bits where it has thirteen.
- Z8000: the upper half of a relative load's second byte (dis 3714).

A line of the second kind (`Lost`, Z8000 only) is one asl does not take for what it
was; `RoundTrip` says that exactly these fail: the long byte immediate
(finding 4), LDRL into an odd register (dis 3742), register 0 as a pointer of a
block instruction (dis 3477), register 1 as a pointer of a translation.

The CP1610's exceptions are in its own module. `DisasmCa65` has two, both of the
M740. `Unpinned`: the jumps of finding 3. `Unsettled`: `DEC A` and `INC A`, `LDM`, and
the bit branches on the accumulator, of which `m740.rs` 11-24 says that ca65 V2.19
disagrees with the manual and so with the table. How ca65 encodes them the repository
does not say; the model gives it no encoding for them, and neither `RoundTrip` nor
`ByteExact` claims anything of such a line.

## Bounds and why they are enough

The state of a sweep at an offset depends on the bytes from there on, on the
address, and on the carried state. So the runs bound the buffers:

- Z80: the exemplar of every row, every exemplar cut one byte short, every
  second byte behind each prefix, and all strings of up to four bytes over seven
  bytes (four prefixes, a branch, an opcode that is also a suffix, `80`).
- 6502: each of the 256 opcode bytes before operands at the ends of the signed and
  unsigned ranges, cut at every length, and all strings of up to five bytes over
  five opcodes of lengths one, two, three, a branch and an undefined one.
- 65816: every opcode byte with a small and a large operand cut at every
  length; all strings of up to three bytes over REP, SEP, their masks,
  immediates of both registers and a long jump, alone and behind each of six
  width changes; bytes that look like REP inside an operand.
- CP1610: every decle as an opcode, every shape of jump, branches whose
  magnitude wraps, prefixed immediates, all strings of up to four words over
  eight (prefix, immediate, direct, indirect, jump, a non-instruction and words
  with high bits set) and of up to six over three (prefix, immediate, a
  non-instruction), and odd bytes.
- ca65, for each CPU: every opcode byte before operands that are small, negative
  and in the special page, and the same cut short; all strings of up to four
  bytes over five opcodes of every length, branches and an opcode of two rows
  among them. For the 45GS02 also all strings of up to five bytes over its prefix
  bytes and two opcodes, and every opcode behind each prefix.
- 68000: all values of the ten bits above the effective-address field with one
  register for each mode, and each mode without one; extension words small,
  negative, cut short; every exemplar, whole and cut. TLC's integers have 32
  bits with a sign, so the constant `AddressSpace` is 2^30 in the run: the sums
  wrap in the same places of an instruction as at the code's 2^32, which the
  theorems cover.
- 6809: every byte behind each prefix, before operands at the ends of the ranges;
  all 256 postbytes before offsets at the edges of five, eight and sixteen bits.
- PDP-11, TMS9900: all values of the top ten bits; of the low field the modes that
  differ in extension words, for the program counter and one other register.
- Ten byte CPUs: every first byte before operands at the ends of the ranges, alone
  and with one byte; the SM83's second page whole.
- Z8000: every first byte below C0 with the registers 0 (another mode), 1 (no
  pair), 2 (no quadruple) and 4 and every low nibble, every one above with six
  second bytes; for blocks and shifts second words at the edges of what is
  accepted; exemplars of every row in every mode, the two-word ones cut short too.
- Load addresses: one in the middle and `FFFE`, so that lines and branch targets
  wrap past the top of memory; for the 68000 and `disassemblers` only the one at
  the top.

The opcode spaces are covered whole, so what a larger instance could add is only
longer sequences. State carried from one instruction to the next lasts one
instruction (`after_sdbd`) or until the next REP/SEP; the strings hold several.
For `ByteDisasm` the theorems below need no bounds.

## Fairness

`FairSpec` is `Spec /\ WF_vars(Next)`. A disassembler is a single loop in a
single call: nothing in it waits or blocks, so a call that has not returned
takes its next iteration.

## The assemblers (external)

The assemblers are not in this repository. They are modelled from what the
renderers rely on, and marked external in the map:

- all: a row is looked up by mnemonic and mode; a branch is given as its target
  and stored as a distance; numbers out of range are refused.
- acme (6502): two hex digits are a byte, four are a word (dis 22-26).
- ca65 (65816): `.a8/.a16/.i8/.i16` set the immediate widths and REP/SEP do not;
  an address takes the smallest mode that holds it unless `a:`/`f:` pins it;
  widths start at 8 bits, as the sweep's do.
- ca65 (its other CPUs): the same rule of the smallest form; a spelling without
  its operand that the processor would read anyway is not one of its forms; a
  long branch of the 65CE02 counts from its opcode plus two. Of the M740, it encodes
  `DEC A`, `INC A`, `LDM` and accumulator bit branches in a way of its own (`m740.rs` 23),
  which is left open.
- vasm (68000): its optimisations off, so that a mode is what it is written as;
  a byte immediate, a CCR immediate and a static bit number are one byte.
- lwasm (6809): the shortest form unless a force says otherwise; offsets by range.
- asl, ca65, rgbasm (ten byte CPUs): by mnemonic, syntax and range; the HuC6280's
  transfers and the 6800's direct and extended modes are told apart by digits or
  force. asl's check that a branch within a page stays on it is not modelled.
- asl (PDP-11, TMS9900): the operand of a mode, and where mode 2 of the program
  counter is an immediate.
- asl (Z8000): the byte immediate takes the short form (`z8000.rs` 2458-2462);
  register 0 is no pointer (`z8000.rs` 2439-2455, dis 3564); odd registers are no
  pairs (dis 3768-3771); a translation does not take register 1 (`z8000.rs`
  956-975).
- asl (CP-1600): the immediate of an instruction that follows SDBD is laid down
  as two decles, low byte first; direction and magnitude of a branch are worked
  out from the target.

## What is proved

The theorems hold for every set of buffers, load addresses and rows that satisfies
the named assumptions. Two kinds of assumption appear. *Inputs* (`CodesAreBytes`,
`OriginsAreWords`, `UnitIsPositive`, `FillIsByte`) say no more than the types of the code's
arguments. *Facts about tables* are what the decoders silently rely on; each is
an ASSUME that TLC evaluates over the whole table in every run that uses it. A
new row that broke one would stop the run before its first state.

Every sweep has the two theorems `TypeCorrect` (`Spec => []TypeOK`) and
`SweepImplemented` (`Spec => Listing!Spec`: initial states map to initial states of
`Sweep`, steps to a step or a stutter). Both rest on one
thing: what a decoder returns ends within the buffer, so the cursor stays in
`0..Len(code)` and the bytes of a line are those between two positions of it.
That each branch of each decoder has this is most of the work.

- `SweepProofs`: `Tiled` (`Spec => []Tiling`). `Tiling` is inductive together with
  `TypeOK`: a step appends a line that starts at the old cursor and ends at the
  new one, so the old lines keep their ends.
- `ByteDisasmProofs` (Z80, 6502), from `TableIsWellFormed` (the widths
  `read_operands` advances by are the declared ones):
  - `RoundTripHolds`, from `NamesTellEncodings` (two rows of one name encode alike).
    Inductive line by line: reading a slot and laying it down again gives the
    bytes, a branch target taken back to a distance is the offset read, and the
    lengths of opcode, slots and suffix add up to the piece.
  - `UnambiguousHolds`, from `OpcodesTellEncodings` (rows of one opcode differ in a
    suffix of one length, no byte begins opcodes of two lengths): two rows that
    match are one encoding because the suffix is read at the same place for both.
  - `ExemplarsDecodeHolds`. Not inductive by itself: a step knows the line it adds,
    not the buffer the listing began with. The invariant `Listed` says that every
    line is what the decoder gives at its offset and the first is at 0. An
    exemplar at the front of a buffer then matches its row there, and
    `Unambiguous` makes that row the one listed.
  - `CallbackAgreesHolds` (6502). The debugger disassembles three bytes it fetched,
    the listing the whole buffer. The lemma in the middle is that decoding is
    local: what is read at an offset depends on the bytes of the instruction only,
    so two buffers that agree on them give one text. Its hypotheses are
    `RowsAreShort` (three bytes suffice), `OneRowPerByte`, and `MemoryHoldsBuffers` (a
    buffer longer than the memory would overlap itself); the run checks them of the
    6502 (`ThreeBytesSuffice`), the Z80 has other rows. Invariants: `Listed` and
    `Fitting`.
- `Disasm65816Proofs`, from `SlotsFitModes`, `ImmediatesArePaired`,
  `TextsTellFormsApart`, `RepAndSepAreImmediate` and `TableIsFinite`:
  - `ListingRoundTrips` and `WidthsStayTogether` are projections of one invariant,
    `InStep`: ca65, having read the lines so far, has the sweep's widths and has laid
    down the bytes before the cursor. Neither projection is inductive: a line comes
    back only if the assembler has the widths it was decoded with, and has those
    only if it took every line for what it was. A step is an instruction line and
    up to two directives; the proof follows the reader through each.
  - `WidthsAlwaysFollow` from `WidthsAreLeft`: the width is the one the last listed REP
    or SEP naming the bit left. Such lines are chosen by a recursive function over the listing; a line
    appended adds itself to them or nothing (`PickedAppend`).
  - `DirectivesTakeTurns` from `InTurn`: the directives of each register alternate
    *and* the last announces the width in force; only the second half tells
    that a new one differs from it.
  - `NeverPanics` (`cands[0]`, dis 1109) has as hypothesis that every opcode byte has
    a form. It is not an assumption of the module: the run checks `NoPanic` over the
    real table, all 256 bytes of it, the theorem says that nothing else matters.
- `Cp1610Proofs`, from the inputs alone, as the table is part of the module:
  - `ListingRoundTrips` from `FlagIsLineAbove`: while a word is left, `after_sdbd` is set
    just when the line above is an SDBD. The code keeps the flag and the assembler
    reads the line, so without it nothing ties the two.
  - `ClaimsAreDisjoint`: the classes of the table differ in bits both fix.
- `DisasmCa65Proofs`, from `RowsAreWellFormed` and:
  - `LongestHolds` from `FirstReadsMost` (a row that extends another's opcode and is
    tried before it reads as many bytes). Where an opcode stands, a deciding row
    exists and one that reads most exists (the least-number principle); if the first
    is cut off, so is every row behind it.
  - `OneTextHolds` from `TwinsAreOne`: which of two rows with one opcode and length the
    code keeps does not matter.
  - `RoundTripHolds` from `ModesFitOperands` and `SpellingsTellForms`. ca65 takes the
    shortest form a number fits. The decoded row is one it may take; a shorter one
    of the same spelling is kept out by the `a:` pin (the model's `PinnedSize`, the
    code's `force`), by a number it has no room for, or it is one of the M740's two
    jumps, which are excepted by name (finding 3). Of the instructions that ca65 encodes
    in its own way (`Unsettled`) nothing is claimed, so nothing is proved.
- `DisassemblersProofs`: type correctness and the refinement for fifteen CPUs at
  once. That every reading ends within the buffer is proved for each of the five
  decoder modules (`Fits6809` to `FitsByteCpus`, together `FoundFits`); the sweep's
  proof uses nothing else of them.
  Assumed of the tables: opcodes are byte strings, classes are the known ones,
  lengths are numbers.
  - `OneReadingAlways`. Rows that claim the same bytes are compared two at a time, and
    what is left is a finite fact about every pair, which TLC evaluates:
    - 6809 and byte CPUs: two opcodes that stand at one place begin with each other
      (`Begins`), and such rows have one shape (`RowsOf6809`), or one length if of one
      rank, and no operand if another rank comes behind (`RowsOfByteCpus`): a row
      without operands is never cut off, so it hides nothing;
    - PDP-11, TMS9900: the words of a row are the interval from its base up to the
      size of its fields, two rows with a word in common `Meet`, and rows that meet
      are of one class and one operand layout;
    - Z8000: of any two rows of the thirteen decoders (`Z8000Apart`) a bit both compare
      differs, or one refuses a zero field that the other fixes to zero, or a count is
      negative for one only. So one row at most reads the bytes.
  - `CallbackAgreesAlways` (6809). As for the 6502, reading is local: `ReadsTheSame` says
    that two buffers that agree on an instruction's bytes give one text, through all
    indexed modes; `PlaceOfAddress` finds a line's bytes in the wrapped memory
    `decode_one_6809` fetches from. Invariant: `Listed6809` (`ListedFromCode`), each line
    is what some row reads where it stands. Hypotheses: `MemoryHoldsBuffers` (a buffer
    longer than the memory would overlap itself) and `RowsOf6809`.
  - `TimingAgreesAlways`, from the same invariant. A line's own bytes are claimed by rows
    of its shape (`OneShape`); `indexed_cost` and `IndexedExtension`, written apart, agree
    on every defined postbyte (`CostIsExtension`), and the two ways of adding up a
    register list on every list (`ListMoves`, bit by bit).
  - `ByteCpusRoundTrip`: `RoundTrip` where the CPU is one of the ten over byte tables.
    A slot's text says its value back (`SlotLaid` and the lemmas before it, over all
    values of a byte or a word: displacements wrap at 64K, a target of seven bits and
    one with an indirect mark are put together again); rows of one name are the same
    row or have a slot that does not take the other's operand (`NamesOfByteCpus`:
    ca65 by the size of an address, the 8048 by the opcode's page bits), so the
    assembler finds the row that was read. A memory reference of the 2650 indexed by
    register 3 is listed under register 0's name, and that row gives the opcode back
    (`IndexedAssembles`); one whose text leaves bits out is taken by no row
    (`UnsaidAssembles`), which is more than `RoundTrip` asks. Invariant: `LinesReturn`.
    Assumed, and evaluated by TLC over the ten tables: `SlotsOfByteCpus` and
    `NamesOfByteCpus`.

- `Disasm68000Proofs`, from `RowsAreWellFormed` and `AddressesHoldWords`: a slot reads
  its own extension words, all of them behind the opcode word and before the end
  of the instruction, whichever is read first (`SlotPlace`); with `decode_m68k`'s test
  of the length no operand is read past the buffer, and each has a syntax of its
  own kind (`OperandTyped`).
  - `RoundTripHolds`, from these and two facts about the table: forms of one name
    differ in the operands a slot takes (`SlotsTellForms`), and slots with words of
    their own stand where reader and assembler agree on them (`SlotsKeepTheirPlaces`:
    immediates first, beside a register list only an effective address). Inductive
    line by line (`LinesAre`: a line is data, or the text of the best form there).
    A line that is `Unsaid` or `TooWide` is only shown to keep its length.
    Five facts make a text its bytes: what a slot lays into the opcode word is
    what was read from its field (`OperandTextKept`, `OpcodeKept`); what it lays behind
    it is the words it read (`EaKept` for the twelve modes, pc-relative targets
    by taking the distance modulo the address space); `render_m68k` reads the
    register list first and `exemplars` lays effective addresses last, and under
    `SlotsKeepTheirPlaces` that is one order (`InstructionRead`); no other form or
    size takes the text (`NoOtherForm`); the lists that are reversed are those
    reversed before (`ReversedTwice`). For the kinds of line that are excepted the
    last step is weaker: whatever takes the text lays down as many words
    (`EncodingLong`).
  - `OneReadingHolds`. A word is nine cuts, made where some field begins or ends
    (`WordIsCut`); a form's fields have whole cuts, and no two of them one
    (`FieldsLieApart`), so a word whose fixed part is the form's base has every cut
    the form fixes (`FixedKept`). Two forms of one word then fix nothing differently,
    and neither's fixed bits spell a size or a mode the other has no use for. TLC
    evaluates that for all pairs of rows this leaves three (`FormsDifferOrAreAlike`):
    MOVE and MOVEA, DBF and DBRA, whose slots differ in their modes at most and
    which read, take and lay down the same (`AlikeTexts`, `AlikeAssembled`), and the
    two EXG of a data and an address register, whose texts say everything
    (`RegistersSaid`). What unequal readings assemble to is no part of the argument:
    the proof covers lines that say too little too.

Only model-checked, and why:

- `ExemplarsDecode` of `Disasm68000` and `Disassemblers`. It speaks of the exemplars of
  the table only, a finite set that depends on no constant, and the runs decode
  every one of them: there is no larger instance a proof could add.
- `RoundTrip` of `Disassemblers` for the 6809, the PDP-11, the TMS9900 and the two
  Z8000s: a proof for each of their assemblers, with the indexed modes and the words
  they bring along. TLC covers the opcode spaces whole, so what a proof would add is
  the operand values between the ends of their ranges.
- termination: liveness under fairness and ENABLED are out of the prover's reach.

The library's induction theorems take an operator as a parameter, which none of the
provers here can instantiate. `WordLemmas` has induction for a *set* instead
(`SetInduction`, and `LeastNumber`), from the well-foundedness of the natural
numbers; with it the recursive functions over a listing (ca65's reader, the lines
of one kind) are proved to exist and to advance by one line at a time.
Sums over operand slots are written out for the at most three slots a form has. What
RECURSIVE operators, `FoldLeft` or `SelectSeq` compute is not reasoned about.

## Findings

1. **Long jumps of the 65816 are never decoded** (dis 1105-1121). An opcode with
   more than one candidate is taken for an immediate pair; JMP and JML share
   `5C` and `DC` (`mos65816.rs` 217-226) and are no such pair. The listing shows a
   `.byte` and then decodes the operand bytes as instructions. The bytes still
   come back, but an operand that holds `C2`/`E2` changes the tracked widths.
2. **The double-byte immediate of the CP1610 loses bits** (dis 2878-2879). Bits 8
   and 9 of both decles are masked off and come back as zero, in an image whose
   every word is a legal decle; other shapes that would not come back are left as
   data on purpose.
3. **Two kinds of M740 jump print alike** (dis 4021, 4024, 4026, 4039). A
   special-page call `22 nn` is printed as `$FFnn`, like `20 nn FF`; `JMP ($0012)`
   carries nothing that keeps it from the shorter jump through zero page. The
   renderer pins only `absolute` modes.

4. **The long byte immediate of the Z8000 comes back short** (dis 3831). The
   dyadic LDB with an immediate is listed like the one-word LDB (dis 3704), which
   is what the assembler makes of it: `20 01 00 00` becomes `C1 00`, and all behind
   it moves. That both are read is deliberate (dis 3696-3698); that a listing
   "round-trips byte-exact" (dis 22) does not hold then.

Smaller disagreements. Two are of comments rather than of behaviour:
`Insn::undocumented` is documented as false throughout (`mos6809.rs` 161) while
three rows set it; and of the 6809's pc-relative postbytes, above. Two are of
assemblers the repository describes only in passing, so that no run can show what
they do instead: three kinds of M740 instruction that ca65 encodes otherwise than the
table (`m740.rs` 23), while `listing_ca65` is documented as ca65 source (dis 3895); and
the 68000's CCR immediates with a non-zero high byte (dis 501-505, `m68k.rs` 534).

## Not modelled

Cycles, flags, summaries and provenance of rows (documentation data); lookups by
mnemonic (they serve the assembler in another repository); `machines.rs` and
`provenance.rs` (constant tables); `listing_*` (a header and joined lines);
spelling of text beyond what a reader of it could confuse.

## Plan

All disassemblers and all their tables are modelled and have their types and
their refinement proved. What is left is proof, by weight:

1. `Disassemblers`: `RoundTrip` for the 6809, then the PDP-11, the TMS9900 and the
   Z8000s, each joined to `ByteCpusRoundTrip` by the CPUs its hypothesis names.
