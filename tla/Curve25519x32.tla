--------------------------- MODULE Curve25519x32 ----------------------------
(***************************************************************************)
(* The functions of curve25519-donna-32bit.h.  Limbs are 26 and 25 bits in *)
(* turn, and a word has so little room above them that what takes the      *)
(* result of a sum or a difference must carry.                             *)
(***************************************************************************)
EXTENDS Curve25519

CONSTANT Carried  \* the first limbs, which a plain difference carries: four of the ten

curve25519_add(a, b) == Sum(a, b)

curve25519_add_after_basic(a, b) == CarryAll(Sum(a, b))

curve25519_add_reduce(a, b) == CarryAll(Sum(a, b))

\* (Faulty variant: no carries, as on 64 bits.)
curve25519_subPlain(a, b) == Difference(2, a, b)

curve25519_sub(a, b) == CarryFirst(Difference(2, a, b), Carried)

curve25519_sub_after_basic(a, b) == CarryAll(Difference(4, a, b))

curve25519_sub_reduce(a, b) == CarryAll(Difference(4, a, b))

curve25519_neg(a) == CarryAll(Difference(2, [i \in Limb |-> 0], a))

curve25519_mul(a, b) == ReduceColumns(ProductColumns(b, a))

\* d6 to d9: the narrow limbs take a factor of two with the C, the wide ones do not.
Narrow(i, j) == IF i % 2 = 1 THEN 2 ELSE 1

curve25519_square(a) == ReduceColumns(SquareColumns(a, Narrow))

\* One turn of the loop of square_times.
curve25519_square_times(a) == ReduceColumns(SquareColumns(a, Narrow))

curve25519_expand(n) == Expand(n)

curve25519_contract(a) == Contract(a)

curve25519_move_conditional_bytes(out, in, flag) ==
  LET nb == flag - 1 IN [i \in DOMAIN out |-> IF nb = 0 THEN in[i] ELSE out[i]]

curve25519_swap_conditional(a, b, iswap) ==
  IF iswap = 1 THEN <<b, a>> ELSE <<a, b>>
=============================================================================
