---------------------------- MODULE FieldPromise ----------------------------
(***************************************************************************)
(* What the field functions promise their callers: a number modulo p, and  *)
(* how wide its limbs may have become.  Products, reducing sums and        *)
(* strings leave a reduced number, the plain sum or difference of two of   *)
(* those is a basic one, and a number computed from basic ones without     *)
(* carrying is "after basic".  A function that is called with wider limbs  *)
(* than it allows leaves a number that is too wide, and so does every      *)
(* function called with that.                                              *)
(***************************************************************************)
EXTENDS Integers

CONSTANTS
  p,           \* the modulus
  Times(_, _)  \* the product modulo p

Widths == {"reduced", "basic", "after basic", "too wide"}

Numbers == [num : 0 .. p - 1, width : Widths]

Reduced == {"reduced"}
Basic == {"reduced", "basic"}
AnyWidth == {"reduced", "basic", "after basic"}

Result(num, width, operands, allowed) ==
  [num |-> num, width |-> IF \A x \in operands : x.width \in allowed
                            THEN width ELSE "too wide"]

Small(n) == [num |-> n, width |-> "reduced"]

SumModP(a, b) == (a.num + b.num) % p
DifferenceModP(a, b) == (a.num + p - b.num) % p

curve25519_add(a, b) == Result(SumModP(a, b), "basic", {a, b}, Reduced)
curve25519_sub(a, b) == Result(DifferenceModP(a, b), "basic", {a, b}, Reduced)

curve25519_add_after_basic(a, b) == Result(SumModP(a, b), "after basic", {a, b}, Basic)
curve25519_sub_after_basic(a, b) == Result(DifferenceModP(a, b), "after basic", {a, b}, Basic)

curve25519_add_reduce(a, b) == Result(SumModP(a, b), "reduced", {a, b}, Basic)
curve25519_sub_reduce(a, b) == Result(DifferenceModP(a, b), "reduced", {a, b}, Basic)

curve25519_neg(a) == Result((p - a.num) % p, "reduced", {a}, Reduced)

curve25519_mul(a, b) == Result(Times(a.num, b.num), "reduced", {a, b}, AnyWidth)
curve25519_square(a) == Result(Times(a.num, a.num), "reduced", {a}, Basic)

\* One turn of the loop of square_times.
curve25519_square_times(a) == curve25519_square(a)

\* Strings are the numbers they spell.
curve25519_expand(string) == Small(string % p)
curve25519_contract(a) == a.num

curve25519_swap_conditional(a, b, iswap) == IF iswap = 1 THEN <<b, a>> ELSE <<a, b>>

curve25519_move_conditional_bytes(out, in, flag) == IF flag = 1 THEN in ELSE out

\* The powers, as products alone.
Power(a, e) ==
  LET f[i \in 0 .. 31] ==
        IF e \div 2 ^ i = 0 THEN 1
        ELSE LET rest == f[i + 1]
                 squared == Times(rest, rest)
             IN  IF (e \div 2 ^ i) % 2 = 1 THEN Times(squared, a) ELSE squared
  IN  IF a = 0 THEN 0 ELSE f[0]

curve25519_recip(z) == Result(Power(z.num, p - 2), "reduced", {z}, Basic)
curve25519_pow_two252m3(z) == Result(Power(z.num, (p - 5) \div 8), "reduced", {z}, Basic)
=============================================================================
