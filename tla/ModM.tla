-------------------------------- MODULE ModM --------------------------------
(***************************************************************************)
(* Scalars modulo the order m of the base point, as ED25519Donna's headers *)
(* modm-donna-64bit.h (five limbs of 56 bits) and modm-donna-32bit.h (nine *)
(* of 30) compute with them: products are reduced by Barrett's method, HAC *)
(* 14.42, in bytes.  The steps of both, over any size of byte and limb;    *)
(* what the headers do differently is in ModM64 and ModM32.                *)
(***************************************************************************)
EXTENDS Integers, Functions, SequencesExt

CONSTANTS
  m,       \* the order of the base point
  w, k,    \* bits of a byte, and bytes of a scalar (b = 2^w in HAC)
  BPL,     \* bignum256modm_bits_per_limb
  SIZE,    \* bignum256modm_limb_size
  WORD,    \* number of values of a bignum256modm_element_t
  QUAD,    \* bits of a digit of contract256_window4_modm: four
  HALF     \* half the bits of a scalar: 128

Limb == 0 .. SIZE - 1
Base == 2 ^ BPL
Bits == w * k
TopBits == Bits - BPL * (SIZE - 1)
BarrettTopBits == w * (k + 1) - BPL * (SIZE - 1)
QuotientBits == w * (k - 1) - BPL * (SIZE - 1)

\* A scalar is at most Bits wide and keeps its top bit clear; every limb leaves a
\* bit of its word to tell a borrow.
ShapeFits ==
  /\ m \in Nat /\ m < 2 ^ Bits
  /\ 0 <= QuotientBits /\ QuotientBits < TopBits
  /\ TopBits < BarrettTopBits /\ BarrettTopBits <= BPL
  /\ 2 * Base < WORD

\* A number: every limb fits its word.  (A function, so that TLC evaluates the limbs
\* once, where they are computed.)
Number == [x \in [Limb -> 0 .. WORD - 1] |-> x]

modm_m == [i \in Limb |-> (m \div 2 ^ (BPL * i)) % Base]

\* floor(b^(2k) / m), divided limb by limb.
modm_mu ==
  LET top == (2 * Bits) \div BPL
      power == [i \in 0 .. top |-> IF i = top THEN 2 ^ ((2 * Bits) % BPL) ELSE 0]
      rest[i \in 0 .. top + 1] ==
        IF i = top + 1 THEN 0 ELSE (rest[i + 1] * Base + power[i]) % m
  IN  [i \in Limb |-> (rest[i + 1] * Base + power[i]) \div m]

(***************************************************************************)
(* Differences: one limb at a time, a borrow from the top bit of the word. *)
(***************************************************************************)
lt_modm(a, b) == ((a - b) % WORD) \div (WORD \div 2)

\* The borrows of a - b: into each limb, and out of the last.
Borrows(a, b) ==
  LET f[i \in 0 .. SIZE] == IF i = 0 THEN 0 ELSE lt_modm(a[i - 1], f[i - 1] + b[i - 1])
  IN  f

\* a - b, plus 2 to the bits of the scalar, topbits of them in the last limb, when
\* that is negative.
Subtract(a, b, topbits) ==
  LET f == Borrows(a, b)
  IN  [i \in Limb |->
        (a[i] - (f[i] + b[i]) + f[i + 1] * 2 ^ (IF i = SIZE - 1 THEN topbits ELSE BPL)) % WORD]

\* m is taken off unless that borrows.
reduce256_modm(r) ==
  IF Borrows(r, modm_m)[SIZE] = 1 THEN r ELSE Number[Subtract(r, modm_m, TopBits)]

(***************************************************************************)
(* Sums and products.                                                      *)
(***************************************************************************)
\* The limbs of x * y from limb first on, the columns below first left out.
Product(x, y, first) ==
  LET column == [n \in first .. 2 * SIZE |->
        FoldFunction(+, 0, [i \in {j \in Limb : n - j \in Limb} |-> x[i] * y[n - i]])]
      c[n \in first - 1 .. 2 * SIZE] ==
        IF n < first THEN 0 ELSE column[n] + c[n - 1] \div Base
  IN  [n \in first .. 2 * SIZE |-> c[n] % Base]

\* The number in limbs z, from bit s of limb SIZE - 1 on.
ShiftDown(z, s) ==
  [i \in Limb |-> ((z[SIZE - 1 + i] \div 2 ^ s) + (z[SIZE + i] * 2 ^ (BPL - s))) % Base]

MaskTop(z, bits) ==
  [i \in Limb |-> IF i = SIZE - 1 THEN z[i] % 2 ^ bits ELSE z[i]]

\* (Faulty variant: the second reduction is left out.)
barrett_reduce256_modmOnce(q1, r1) ==
  LET q3 == Number[ShiftDown(Product(modm_mu, q1, SIZE - 2), BarrettTopBits)]
      r2 == Number[MaskTop(Product(modm_m, q3, 0), BarrettTopBits)]
  IN  reduce256_modm(Number[Subtract(r1, r2, BarrettTopBits)])

\* q1 = x / b^(k-1) and r1 = x % b^(k+1) come from x; the quotient q3 may be two too
\* small, so m is taken off twice.
barrett_reduce256_modm(q1, r1) ==
  LET q3 == Number[ShiftDown(Product(modm_mu, q1, SIZE - 2), BarrettTopBits)]
      r2 == Number[MaskTop(Product(modm_m, q3, 0), BarrettTopBits)]
  IN  reduce256_modm(reduce256_modm(Number[Subtract(r1, r2, BarrettTopBits)]))

add256_modm(x, y) ==
  LET c[i \in 0 .. SIZE] == IF i = 0 THEN 0 ELSE (x[i - 1] + y[i - 1] + c[i - 1]) \div Base
  IN  reduce256_modm([i \in Limb |->
        IF i = SIZE - 1 THEN x[i] + y[i] + c[i] ELSE (x[i] + y[i] + c[i]) % Base])

mul256_modm(x, y) ==
  LET xy == Product(x, y, 0)
  IN  barrett_reduce256_modm(Number[ShiftDown(xy, QuotientBits)],
                             Number[MaskTop(xy, BarrettTopBits)])

(***************************************************************************)
(* From and to strings.  A string is a sequence of bytes, least one first. *)
(***************************************************************************)
\* Bits from .. from + len - 1 of a string, zero beyond its end.
Slice(in, from, len) ==
  FoldFunction(+, 0, [b \in 0 .. len - 1 |->
    LET byte == (from + b) \div w
    IN  IF byte < Len(in) THEN 2 ^ b * ((in[byte + 1] \div 2 ^ ((from + b) % w)) % 2) ELSE 0])

Limbs(in, from, topbits) ==
  Number[[i \in Limb |-> Slice(in, from + BPL * i, IF i = SIZE - 1 THEN topbits ELSE BPL)]]

\* Up to 2k bytes; a string shorter than a scalar needs no reduction.
expand256_modm(in) ==
  LET out == Limbs(in, 0, BarrettTopBits)
  IN  IF Len(in) < k THEN out
      ELSE barrett_reduce256_modm(Limbs(in, w * (k - 1), BarrettTopBits), out)

\* k bytes, taken as they are.
expand_raw256_modm(in) == Limbs(in, 0, TopBits)

Collect(x) == FoldFunction(+, 0, [i \in Limb |-> x[i] * 2 ^ (BPL * i)])

\* The bytes of a scalar.
contract256_modm(in) == [j \in 1 .. k |-> (Collect(in) \div 2 ^ (w * (j - 1))) % 2 ^ w]

(***************************************************************************)
(* Digits for the multiplication of points.                                *)
(***************************************************************************)
\* Digits with a sign: one of half the base or more becomes negative and carries.
SignedQuads(quads) ==
  LET last == Len(quads)
      half == 2 ^ (QUAD - 1)
      carry[i \in 0 .. last] ==
        IF i = 0 THEN 0 ELSE (quads[i] + carry[i - 1] + half) \div (2 * half)
  IN  [i \in 1 .. last |->
        IF i = last THEN quads[i] + carry[i - 1]
        ELSE quads[i] + carry[i - 1] - 2 * half * carry[i]]

\* Bit j takes in the bits above it, as far as the window reaches: bit j + b is added
\* to it, or taken off it with a carry into the next zero above.
Chars == [1 .. Bits -> -128 .. 127]

CarryUp(r, from) ==
  LET zeros == {i \in from .. Bits : r[i] = 0}
      stop == IF zeros = {} THEN Bits + 1 ELSE CHOOSE i \in zeros : \A z \in zeros : i <= z
  IN  [i \in 1 .. Bits |-> IF i = stop THEN 1 ELSE IF i \in from .. stop THEN 0 ELSE r[i]]

Slide(bits, j, windowsize) ==
  LET limit == 2 ^ (windowsize - 1) - 1
      f[b \in 1 .. 7, r \in Chars] ==
        IF b > 6 \/ j + b > Bits THEN r
        ELSE LET up == r[j + b] * 2 ^ b
             IN  IF r[j] + up <= limit
                   THEN f[b + 1, [r EXCEPT ![j] = @ + up, ![j + b] = 0]]
                 ELSE IF r[j] - up >= -limit
                   THEN f[b + 1, CarryUp([r EXCEPT ![j] = @ - up], j + b)]
                 ELSE IF r[j + b] = 0 THEN f[b + 1, r] ELSE r
  IN  IF bits[j] = 0 THEN bits ELSE f[1, bits]

contract256_slidingwindow_modm(s, windowsize) ==
  LET f[j \in 1 .. Bits + 1, r \in Chars] ==
        IF j > Bits THEN r ELSE f[j + 1, Slide(r, j, windowsize)]
  IN  f[1, [i \in 1 .. Bits |-> (s[(i - 1) \div BPL] \div 2 ^ ((i - 1) % BPL)) % 2]]

(***************************************************************************)
(* Helpers of batch verification.  limbsize is the last limb in use.       *)
(***************************************************************************)
sub256_modm_batch(out, a, b, limbsize) ==
  LET carry[i \in 0 .. limbsize] ==
        IF i = 0 THEN 0 ELSE ((a[i - 1] - b[i - 1] - carry[i - 1]) % WORD) \div (WORD \div 2)
      difference(i) == (a[i] - b[i] - carry[i]) % WORD
  IN  [i \in Limb |-> IF i < limbsize THEN difference(i) % Base
                      ELSE IF i = limbsize THEN difference(i) ELSE out[i]]

iszero256_modm_batch(a) == \A i \in Limb : a[i] = 0

isone256_modm_batch(a) == \A i \in Limb : a[i] = (IF i = 0 THEN 1 ELSE 0)

isatmost128bits256_modm_batch(a) ==
  LET half == HALF \div BPL
  IN  /\ \A i \in Limb : i > half => a[i] = 0
      /\ a[half] \div 2 ^ (HALF % BPL) = 0
=============================================================================
