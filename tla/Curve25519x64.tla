--------------------------- MODULE Curve25519x64 ----------------------------
(***************************************************************************)
(* The functions of curve25519-donna-64bit.h.  Its words leave thirteen    *)
(* bits above a limb, so plain sums and differences carry nothing.         *)
(***************************************************************************)
EXTENDS Curve25519

curve25519_add(a, b) == Sum(a, b)

curve25519_add_after_basic(a, b) == Sum(a, b)

curve25519_add_reduce(a, b) == CarryAll(Sum(a, b))

\* (Faulty variant: p instead of 2p, which a reduced b can exceed.)
curve25519_subOnce(a, b) == Difference(1, a, b)

curve25519_sub(a, b) == Difference(2, a, b)

curve25519_sub_after_basic(a, b) == Difference(4, a, b)

curve25519_sub_reduce(a, b) == CarryAll(Difference(4, a, b))

curve25519_neg(a) == CarryAll(Difference(2, [i \in Limb |-> 0], a))

curve25519_mul(a, b) == ReduceColumns(ProductColumns(b, a))

\* d2 and d4: the doubled limbs take both the 2 and the C.
Doubled(i, j) == IF i = j THEN 1 ELSE 2

curve25519_square(a) == ReduceColumns(SquareColumns(a, Doubled))

\* One turn of the loop of square_times.
curve25519_square_times(a) == ReduceColumnsAtOnce(SquareColumns(a, Doubled))

curve25519_expand(n) == Expand(n)

curve25519_contract(a) == Contract(a)

\* out = flag ? in : out, by masks and never by a branch.
curve25519_move_conditional_bytes(out, in, flag) ==
  LET nb == flag - 1 IN [i \in DOMAIN out |-> IF nb = 0 THEN in[i] ELSE out[i]]

curve25519_swap_conditional(a, b, iswap) ==
  IF iswap = 1 THEN <<b, a>> ELSE <<a, b>>
=============================================================================
