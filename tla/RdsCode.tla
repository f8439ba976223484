------------------------------ MODULE RdsCode ------------------------------
(***************************************************************************)
(* The (26,16) block code of RDS, as src/rx/src/rds_decoder.hpp computes   *)
(* it: a block is a sequence of bits, most significant first, and both     *)
(* divisions are the shift register of the code with g(x) = x^10 + x^8 +   *)
(* x^7 + x^5 + x^4 + x^3 + 1.                                              *)
(***************************************************************************)
EXTENDS Naturals, Sequences, SequencesExt

(* The w low bits of n, most significant first. *)
Bits(n, w) == [i \in 1..w |-> (n \div 2^(w - i)) % 2]

(* g(x) without its first term. *)
kGenLow == Bits(441, 10)                         \* 0x1B9

(* Offset words A, B, C, C', D: index and block position of each. *)
kOffsets == <<252, 408, 360, 848, 436>>          \* 0x0FC 0x198 0x168 0x350 0x1B4
kOffsetPos == <<0, 1, 2, 2, 3>>

Xor(a, b) == [i \in DOMAIN a |-> (a[i] + b[i]) % 2]

\* Mutant: the bit shifted in decides, not the one that fell out.
ShiftByInput(reg, bit) ==
  LET next == Append(Tail(reg), bit)
  IN  IF bit = 1 THEN Xor(next, kGenLow) ELSE next

(* One step of the register: shift the bit in, subtract g if a one fell out. *)
Shift(reg, bit) ==
  LET next == Append(Tail(reg), bit)
  IN  IF reg[1] = 1 THEN Xor(next, kGenLow) ELSE next

Divide(bits) == FoldLeft(Shift, Bits(0, 10), bits)

syndrome(block) == Divide(block)

checkbits(data) == Divide(data \o Bits(0, 10))

make_block(data, offset) == data \o Xor(checkbits(data), Bits(offset, 10))

(* Index of the offset word a syndrome stands for, -1 for none. *)
match_offset(syn) ==
  LET hits == {i \in DOMAIN kOffsets : Bits(kOffsets[i], 10) = syn}
  IN  IF hits = {} THEN 0 - 1 ELSE (CHOOSE i \in hits : TRUE) - 1

---------------------------------------------------------------------------
(* The same remainder by long division of polynomials over GF(2): subtract *)
(* g from the left wherever a one stands, keep the last ten coefficients.  *)
Generator == <<1, 0, 1, 1, 0, 1, 1, 1, 0, 0, 1>>

LongDivision(bits) ==
  LET Cancel(b, i) ==
        IF b[i] = 0 THEN b
        ELSE [j \in DOMAIN b |-> IF j \in i..(i + 10) THEN (b[j] + Generator[j - i + 1]) % 2
                                                     ELSE b[j]]
      left == FoldLeft(Cancel, bits, [i \in 1..(Len(bits) - 10) |-> i])
  IN  SubSeq(left, Len(left) - 9, Len(left))

(* A burst: the bits of `shape` from place `at` of a block are inverted. *)
Burst(shape, at) ==
  [i \in 1..26 |-> IF i - at + 1 \in DOMAIN shape THEN shape[i - at + 1] ELSE 0]
============================================================================
