--------------------------- MODULE FieldRegisters ---------------------------
(***************************************************************************)
(* A register on which the field functions of a header are used one after  *)
(* the other, in every order their promises allow, and beside it the       *)
(* number that FieldPromise makes of it.                                   *)
(***************************************************************************)
EXTENDS Integers

CONSTANTS
  add(_, _), add_after_basic(_, _), add_reduce(_, _),
  sub(_, _), sub_after_basic(_, _), sub_reduce(_, _),
  neg(_), mul(_, _), square(_), square_times(_), expand(_), contract(_),
  move_conditional_bytes(_, _, _), swap_conditional(_, _, _),
  p, Times(_, _), Residue(_), Fits(_, _),
  Samples,  \* numbers that are brought in as strings
  MaxOps    \* bound on the functions called one after the other

VARIABLES reg, ops

Promise == INSTANCE FieldPromise

Read(n) == [x |-> expand(n), promised |-> Promise!curve25519_expand(n)]

Zero == Read(0)

Becomes(x, promised) ==
  /\ promised.width # "too wide"
  /\ reg' = [x |-> x, promised |-> promised]

\* The register and a second operand, in either order.
Operands == LET others == {reg} \union {Read(n) : n \in Samples}
            IN  ({reg} \X others) \union (others \X {reg})

Call(f(_, _), g(_, _)) ==
  \E o \in Operands : Becomes(f(o[1].x, o[2].x), g(o[1].promised, o[2].promised))

\* A number is brought in, chosen by a flag from the register and a sample.
Load ==
  \E n \in Samples, flag \in {0, 1} :
    /\ reg.promised.width = "reduced"
    /\ LET string == move_conditional_bytes(<<contract(reg.x)>>, <<n>>, flag)[1]
       IN  Becomes(expand(string), Promise!curve25519_expand(
                     IF flag = 1 THEN n ELSE Promise!curve25519_contract(reg.promised)))

Add == Call(add, Promise!curve25519_add)
Sub == Call(sub, Promise!curve25519_sub)
AddAfterBasic == Call(add_after_basic, Promise!curve25519_add_after_basic)
SubAfterBasic == Call(sub_after_basic, Promise!curve25519_sub_after_basic)
AddReduce == Call(add_reduce, Promise!curve25519_add_reduce)
SubReduce == Call(sub_reduce, Promise!curve25519_sub_reduce)
Mul == Call(mul, Promise!curve25519_mul)
Square == Becomes(square(reg.x), Promise!curve25519_square(reg.promised))
SquareTimes == Becomes(square_times(reg.x), Promise!curve25519_square_times(reg.promised))

\* The sign of a point is applied by computing the negative and swapping it in.
Neg == \E sign \in {0, 1} :
  LET swapped == swap_conditional(reg.x, neg(reg.x), sign)
      promised == Promise!curve25519_swap_conditional(
                    reg.promised, Promise!curve25519_neg(reg.promised), sign)
  IN  reg.promised.width = "reduced" /\ Becomes(swapped[1], promised[1])

Next ==
  /\ ops < MaxOps /\ ops' = ops + 1
  /\ \/ Load \/ Add \/ Sub \/ AddAfterBasic \/ SubAfterBasic \/ AddReduce \/ SubReduce
     \/ Mul \/ Square \/ SquareTimes \/ Neg

(***************************************************************************)
(* Whatever was called, the limbs stand for the promised number and are no *)
(* wider than promised, and a reduced number is written as the one string  *)
(* below p that stands for it.                                             *)
(***************************************************************************)
Exact ==
  /\ Residue(reg.x) = reg.promised.num
  /\ Fits(reg.x, reg.promised.width)
  /\ reg.promised.width = "reduced" => contract(reg.x) = reg.promised.num
=============================================================================
