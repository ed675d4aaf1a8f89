-------------------------------- MODULE Words --------------------------------
(***************************************************************************)
(* The fixed-width integer operations the disassembler is written with:    *)
(* u8, i8, u16 and their casts, as numbers with an explicit modulus.       *)
(***************************************************************************)
EXTENDS Integers

Byte == 0..255
Word16 == 0..65535

\* u16 arithmetic: wrapping_add, and the `as u16` cast of any integer.
Wrap16(n) == n % 65536

\* `b as i8`, for a byte b.
AsI8(b) == IF b >= 128 THEN b - 256 ELSE b

\* `w as i16`, for a word w.
AsI16(w) == IF w >= 32768 THEN w - 65536 ELSE w

\* The low byte of a value (`v as u8`), and the second byte of a word.
LoByte(v) == v % 256
HiByte(v) == (v \div 256) % 256

\* u16::from(lo) | (u16::from(hi) << 8)
WordOf(lo, hi) == lo + 256 * hi

\* v & mask != 0 for a mask of a single bit.
HasBit(v, mask) == (v \div mask) % 2 = 1

==============================================================================
